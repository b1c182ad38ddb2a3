------------------------ MODULE MediaPresentationProofs ------------------------
(***************************************************************************)
(* For every value of the constants: a commit reaches the S3 only after    *)
(* the cover URL it waits for, what the S3 shows belongs to one track,     *)
(* with the exceptions that detour records, and the display never goes     *)
(* back to an earlier track: it implements TrackDisplay.                   *)
(***************************************************************************)
EXTENDS MediaPresentation, QueueLemmas

------------------------------------------------------------------------------
(* Types *)

Stamps   == [session : Nat, sequence : Nat]
Contents == 0..MaxSyncs
Pieces   == Contents \X Nat

Begins    == [type : {"BEGIN"}, stamp : Stamps]
Commits   == [type : {"COMMIT"}, stamp : Stamps]
Texts     == [type : {"TEXT"}, field : {"title", "artist"}, value : Contents]
Statuses  == [type : {"STATUS"}, atomic : BOOLEAN]
UrlBegins == [type : {"URL_BEGIN"}, id : 1..MaxId, total : Nat]
UrlChunks == [type : {"URL_CHUNK"}, id : 1..MaxId, off : Nat, data : Pieces]
UrlEnds   == [type : {"URL_END"}, id : 1..MaxId]
S3Frames  == Begins \cup Commits \cup Texts \cup Statuses
               \cup UrlBegins \cup UrlChunks \cup UrlEnds
Acks      == [type : {"URL_ACK"}, id : 1..MaxId, result : {0, 1}]

Detours == {"direct", "receiver", "staged", "shown"}

SenderOK ==
  /\ sender \in [phase : 0..3, id : 0..MaxId, url : Seq(Pieces), offset : Nat,
                 waiting : BOOLEAN]
  /\ sender.phase # 0 => ~ sender.waiting /\ sender.url = Url(content)
  /\ sender.phase # 0 \/ sender.waiting => sender.id # 0 /\ content # 0
  /\ sender.offset <= Len(sender.url)
  /\ sender.phase = 1 => sender.offset = 0
  /\ sender.phase = 2 => sender.offset < Len(sender.url)

ReceiverOK ==
  /\ receiver \in [active : BOOLEAN, id : 0..MaxId, total : Nat, url : Seq(Pieces)]
  /\ Len(receiver.url) <= receiver.total

Counted ==
  /\ syncs \in 0..MaxSyncs /\ contents \in 0..syncs /\ content \in 0..contents
  /\ losses \in 0..MaxLosses /\ faults \in 0..MaxFaults

Displayed ==
  /\ staged \in [stamp : Stamps, title : Contents, artist : Contents, cover : Contents]
  /\ fields \subseteq AllFields /\ shown \in [AllFields -> Contents]
  /\ detour \subseteq Detours
  /\ api \in BOOLEAN /\ atomic \in BOOLEAN /\ staging \in BOOLEAN /\ (staging => atomic)

(* The types the steps rely on.                                             *)
IInv ==
  /\ toS3 \in Seq(S3Frames) /\ toBridge \in Seq(Acks)
  /\ {runtime, presentation, last} \subseteq Stamps
  /\ SenderOK /\ ReceiverOK /\ Counted /\ Displayed

(* The URL of a content, and what the receiver makes of the whole of it.    *)
LEMMA UrlTyped ==
  ASSUME NEW n \in Contents
  PROVE  /\ Url(n) \in Seq(Pieces) /\ Len(Url(n)) \in Nat
         /\ \A i \in 1..Len(Url(n)) : Url(n)[i] = <<n, i>>
<1> DEFINE m == (n + 1) % 3
<1>1. m \in Nat /\ n \in Nat
  BY PresentationBounds DEF Contents
<1>2. Url(n) = [i \in 1..m |-> <<n, i>>]
  BY DEF Url
<1> HIDE DEF m
<1>3. \A i \in 1..m : <<n, i>> \in Pieces
  BY <1>1 DEF Pieces
<1> QED
  BY <1>1, <1>2, <1>3

(* A URL that is nowhere but at content n gives the cover of n.             *)
LEMMA CoverOfUrl ==
  ASSUME NEW n \in Contents, NEW url \in Seq(Pieces), Len(url) = Len(Url(n)),
         \A i \in 1..Len(url) : url[i] = Url(n)[i]
  PROVE  CoverOf(url) = Cover(n)
<1>1. /\ Url(n) \in Seq(Pieces)
      /\ \A i \in 1..Len(Url(n)) : Url(n)[i] = <<n, i>>
  BY UrlTyped
<1>2. CASE Len(url) = 0
  <2>1. url = <<>> /\ Url(n) = <<>>
    BY <1>1, <1>2, EmptySeq
  <2> QED
    BY <2>1 DEF CoverOf, Cover
<1>3. CASE Len(url) # 0
  <2>1. 1 \in 1..Len(url) /\ url # <<>> /\ Url(n) # <<>>
    BY <1>1, <1>3
  <2>2. url[1] = <<n, 1>>
    BY <1>1, <2>1
  <2> QED
    BY <2>1, <2>2 DEF CoverOf, Cover
<1> QED
  BY <1>2, <1>3

(* The kinds of frames are told apart by their type.                        *)
LEMMA FrameKinds ==
  ASSUME NEW f \in S3Frames
  PROVE  /\ f.type = "BEGIN" => f \in Begins
         /\ f.type = "COMMIT" => f \in Commits
         /\ f.type = "TEXT" => f \in Texts
         /\ f.type = "STATUS" => f \in Statuses
         /\ f.type = "URL_BEGIN" => f \in UrlBegins
         /\ f.type = "URL_CHUNK" => f \in UrlChunks
         /\ f.type = "URL_END" => f \in UrlEnds
  BY DEF S3Frames, Begins, Commits, Texts, Statuses, UrlBegins, UrlChunks, UrlEnds

(* What a queue holds is of its type.                                       *)
LEMMA ElementOf ==
  ASSUME NEW S, NEW q \in Seq(S), NEW f \in ToSet(q)
  PROVE  f \in S
  BY DEF ToSet

(* r is q with frames of F behind it.                                       *)
Grown(r, q, F) ==
  /\ Len(r) >= Len(q)
  /\ \A j \in 1..Len(r) : IF j <= Len(q) THEN r[j] = q[j] ELSE r[j] \in F

(* One more frame.                                                          *)
LEMMA AppendGrows ==
  ASSUME NEW S, NEW q \in Seq(S), NEW f \in S
  PROVE  /\ Append(q, f) \in Seq(S) /\ Grown(Append(q, f), q, {f})
  BY DEF Grown

(* What a grown queue holds.                                                *)
LEMMA GrownHolds ==
  ASSUME NEW S, NEW q \in Seq(S), NEW r \in Seq(S), NEW F, Grown(r, q, F)
  PROVE  ToSet(r) \subseteq ToSet(q) \cup F
<1> SUFFICES ASSUME NEW j \in 1..Len(r) PROVE r[j] \in ToSet(q) \cup F
  BY DEF ToSet
<1>1. j <= Len(q) => j \in 1..Len(q)
  OBVIOUS
<1> QED
  BY <1>1 DEF Grown, ToSet

(* The queue that is left when the oldest frame is taken.                   *)
LEMMA TailThins ==
  ASSUME NEW S, NEW q \in Seq(S), q # <<>>
  PROVE  /\ Tail(q) \in Seq(S) /\ Thinned(Tail(q), q) /\ ToSet(Tail(q)) \subseteq ToSet(q)
         /\ 1 \in 1..Len(q) /\ Head(q) = q[1] /\ Head(q) \in ToSet(q) /\ Head(q) \in S
         /\ \A f \in ToSet(Tail(q)) : \E j \in 1..Len(q) : 1 < j /\ q[j] = f
         /\ \A f \in ToSet(q) : f = q[1] \/ f \in ToSet(Tail(q))
<1> DEFINE r == Tail(q)
<1>1. /\ r \in Seq(S) /\ Len(r) = Len(q) - 1 /\ Len(q) \in Nat /\ Len(q) >= 1
      /\ \A j \in 1..Len(r) : r[j] = q[j + 1]
  OBVIOUS
<1>2. 1 \in 1..Len(q) /\ Head(q) = q[1] /\ Head(q) \in S
  OBVIOUS
<1> HIDE DEF r
<1>3. \A j \in 1..Len(r) : j + 1 \in 1..Len(q) /\ 1 < j + 1
  BY <1>1
<1>4. Thinned(r, q)
  <2> SUFFICES ASSUME NEW i \in 1..Len(r), NEW j \in 1..Len(r)
               PROVE  \E m, n \in 1..Len(q) : r[i] = q[m] /\ r[j] = q[n] /\ (j < i <=> n < m)
    BY DEF Thinned
  <2>1. r[i] = q[i + 1] /\ r[j] = q[j + 1] /\ (j < i <=> j + 1 < i + 1)
    BY <1>1
  <2> QED
    BY <1>3, <2>1
<1>5. \A f \in ToSet(r) : \E j \in 1..Len(q) : 1 < j /\ q[j] = f
  BY <1>1, <1>3 DEF ToSet
<1>6. ToSet(r) \subseteq ToSet(q) /\ Head(q) \in ToSet(q)
  BY <1>2, <1>5 DEF ToSet
<1>7. ASSUME NEW f \in ToSet(q), f # q[1]
      PROVE  f \in ToSet(r)
  <2>1. PICK j \in 1..Len(q) : q[j] = f
    BY DEF ToSet
  <2>2. j - 1 \in 1..Len(r) /\ r[j - 1] = f
    BY <1>1, <1>7, <2>1
  <2> QED
    BY <2>2 DEF ToSet
<1> QED
  BY <1>1, <1>2, <1>4, <1>5, <1>6, <1>7 DEF r

------------------------------------------------------------------------------
(* What the steps do to the queues *)

(* A presentation is queued behind what is in flight.                       *)
LEMMA PresentGrows ==
  ASSUME IInv, NEW n \in Contents, NEW stamp \in Stamps,
         NEW before \in Seq(Statuses), Present(before, n, stamp)
  PROVE  /\ toS3' \in Seq(S3Frames)
         /\ Grown(toS3', toS3, Statuses \cup {Begin(stamp), Text("title", n), Text("artist", n)})
<1> DEFINE news == <<Begin(stamp), Text("title", n), Text("artist", n)>>
           all  == Statuses \cup {Begin(stamp), Text("title", n), Text("artist", n)}
<1>1. /\ Begin(stamp) \in S3Frames /\ Text("title", n) \in S3Frames
      /\ Text("artist", n) \in S3Frames
  BY DEF Begin, Text, S3Frames, Begins, Texts
<1>2. news \in Seq(S3Frames) /\ Len(news) = 3 /\ \A j \in 1..3 : news[j] \in all
  BY <1>1
<1>3. before \in Seq(S3Frames) /\ toS3 \in Seq(S3Frames)
      /\ \A j \in 1..Len(before) : before[j] \in all
  <2>1. Statuses \subseteq S3Frames
    BY DEF S3Frames
  <2>2. before \in Seq(S3Frames)
    BY <2>1, SeqGrows
  <2> QED
    BY <2>2 DEF IInv
<1>4. toS3' = (toS3 \o before) \o news
  BY DEF Present
<1> HIDE DEF news, all
<1>5. /\ toS3 \o before \in Seq(S3Frames) /\ Len(toS3 \o before) = Len(toS3) + Len(before)
      /\ \A j \in 1..Len(toS3) + Len(before) : (toS3 \o before)[j] =
           IF j <= Len(toS3) THEN toS3[j] ELSE before[j - Len(toS3)]
  BY <1>3, ConcatProperties, Zenon
<1>6. /\ toS3' \in Seq(S3Frames) /\ Len(toS3') = Len(toS3 \o before) + Len(news)
      /\ \A j \in 1..Len(toS3 \o before) + Len(news) : toS3'[j] =
           IF j <= Len(toS3 \o before) THEN (toS3 \o before)[j]
           ELSE news[j - Len(toS3 \o before)]
  <2> DEFINE q == toS3 \o before
  <2>1. q \in Seq(S3Frames) /\ toS3' = q \o news /\ news \in Seq(S3Frames)
    BY <1>2, <1>4, <1>5
  <2> HIDE DEF q
  <2>2. /\ q \o news \in Seq(S3Frames) /\ Len(q \o news) = Len(q) + Len(news)
        /\ \A j \in 1..Len(q) + Len(news) : (q \o news)[j] =
             IF j <= Len(q) THEN q[j] ELSE news[j - Len(q)]
    BY <2>1, ConcatProperties, Zenon
  <2>3. /\ toS3' \in Seq(S3Frames) /\ Len(toS3') = Len(q) + Len(news)
        /\ \A j \in 1..Len(q) + Len(news) : toS3'[j] =
             IF j <= Len(q) THEN q[j] ELSE news[j - Len(q)]
    BY <2>1, <2>2
  <2> QED
    BY <2>3 DEF q
<1>7. Len(toS3) \in Nat /\ Len(before) \in Nat
  BY <1>3
<1>8. Len(toS3') = Len(toS3) + Len(before) + 3 /\ Len(toS3 \o before) = Len(toS3) + Len(before)
  BY <1>2, <1>5, <1>6
<1>9. ASSUME NEW j \in 1..Len(toS3')
      PROVE  IF j <= Len(toS3) THEN toS3'[j] = toS3[j] ELSE toS3'[j] \in all
  <2>1. CASE j <= Len(toS3)
    BY <1>2, <1>5, <1>6, <1>7, <1>9, <2>1
  <2>2. CASE j > Len(toS3) /\ j <= Len(toS3) + Len(before)
    <3>1. j - Len(toS3) \in 1..Len(before)
      BY <1>7, <1>9, <2>2
    <3> QED
      BY <1>2, <1>3, <1>5, <1>6, <1>7, <1>9, <2>2, <3>1, SMTT(20)
  <2>3. CASE j > Len(toS3) + Len(before)
    <3>1. j - Len(toS3 \o before) \in 1..3
      BY <1>7, <1>9, <1>8, <2>3
    <3> QED
      BY <1>2, <1>5, <1>6, <1>7, <1>9, <2>3, <3>1
  <2> QED
    BY <1>7, <1>9, <2>1, <2>2, <2>3
<1> QED
  BY <1>2, <1>5, <1>6, <1>7, <1>9 DEF Grown, all

(* Taking a frame of a type.                                                *)
LEMMA Taken ==
  ASSUME IInv, NEW type, Take(type)
  PROVE  /\ toS3' \in Seq(S3Frames) /\ Thinned(toS3', toS3) /\ ToSet(toS3') \subseteq ToSet(toS3)
         /\ 1 \in 1..Len(toS3) /\ Frame = toS3[1] /\ Frame \in ToSet(toS3)
         /\ Frame \in S3Frames /\ Frame.type = type
         /\ \A f \in ToSet(toS3') : \E j \in 1..Len(toS3) : 1 < j /\ toS3[j] = f
         /\ \A f \in ToSet(toS3) : f.type # type => f \in ToSet(toS3')
<1>1. toS3 \in Seq(S3Frames) /\ toS3 # <<>> /\ toS3' = Tail(toS3)
  BY DEF IInv, Take
<1> QED
  BY <1>1, TailThins DEF Take, Frame

------------------------------------------------------------------------------
(* Types are kept *)

(* A queued URL is that of the present content.                             *)
LEMMA QueueTypes ==
  ASSUME IInv, NEW n \in Contents, n # 0, QueueUrl(Url(n)), content' = n
  PROVE  SenderOK'
<1>1. Url(n) \in Seq(Pieces) /\ Len(Url(n)) \in Nat
  BY UrlTyped
<1>2. IF sender.id = MaxId THEN 1 \in 1..MaxId ELSE sender.id + 1 \in 1..MaxId
  BY PresentationBounds DEF IInv, SenderOK
<1> QED
  BY <1>1, <1>2 DEF QueueUrl, SenderOK

(* The sender alone decides about its type while the content stays.         *)
LEMMA SenderStays ==
  ASSUME IInv, UNCHANGED <<sender, content>>
  PROVE  SenderOK'
  BY DEF IInv, SenderOK

(* The initial state is typed.                                              *)
LEMMA InitTyped == ASSUME Init PROVE IInv
<1>1. Counted
  BY PresentationBounds DEF Init, Counted
<1>2. SenderOK
  BY PresentationBounds DEF Init, SenderOK, NoSender
<1>3. ReceiverOK
  BY PresentationBounds DEF Init, ReceiverOK, NoReceiver
<1>4. Displayed
  <2>1. 0 \in Contents /\ Cover(0) = 0
    BY PresentationBounds DEF Contents, Cover
  <2>2. Whole(0) \in [AllFields -> Contents]
    BY <2>1 DEF Whole, AllFields
  <2> QED
    BY <2>1, <2>2 DEF Init, Displayed, NoStage, Stamp, Stamps
<1> QED
  BY <1>1, <1>2, <1>3, <1>4 DEF Init, IInv, Stamp, Stamps

(* So is every state after a step of the Bridge.                            *)
LEMMA BridgeTyped ==
  ASSUME IInv, Bridge
  PROVE  IInv'
<1>0. ReceiverOK /\ SenderOK /\ Counted /\ Displayed
      /\ toS3 \in Seq(S3Frames) /\ toBridge \in Seq(Acks) /\ {runtime, presentation, last} \subseteq Stamps
  BY DEF IInv
<1>1. ASSUME NEW s \in 0..(MaxFaults + 1), NEW q \in 0..MaxSyncs, Sync(Stamp(s, q))
      PROVE  IInv'
  <2> DEFINE stamp == Stamp(s, q)
  <2>1. stamp \in Stamps
    BY PresentationBounds DEF Stamp, Stamps
  <2>2. /\ syncs' \in 0..MaxSyncs /\ syncs' = syncs + 1 /\ runtime' = stamp
        /\ faults' \in 0..MaxFaults /\ losses' = losses
        /\ UNCHANGED <<toBridge, api, s3Vars>>
    BY <1>0, <1>1, PresentationBounds DEF Sync, Counted, NextStamp, Stamp
  <2>3. ReceiverOK' /\ Displayed' /\ toBridge' \in Seq(Acks) /\ {runtime', last'} \subseteq Stamps
    BY <1>0, <2>1, <2>2 DEF ReceiverOK, Displayed, s3Vars, stageVars
  <2>4. CASE /\ contents' = contents + 1 /\ content' = contents'
             /\ Present(<<>>, content', stamp)
    <3>1. content' \in Contents /\ content' # 0 /\ Counted'
      BY <1>0, <2>2, <2>4, PresentationBounds DEF Counted, Contents
    <3>2. SenderOK' /\ presentation' = stamp
      <4>1. QueueUrl(Url(content')) /\ presentation' = stamp
        BY <2>4 DEF Present
      <4> QED
        BY <3>1, <4>1, QueueTypes
    <3>3. toS3' \in Seq(S3Frames)
      <4>1. <<>> \in Seq(Statuses)
        OBVIOUS
      <4> QED
        BY <2>1, <2>4, <3>1, <4>1, PresentGrows
    <3> QED
      BY <2>1, <2>3, <3>1, <3>2, <3>3 DEF IInv
  <2>5. CASE content # 0 /\ UNCHANGED <<content, contents, toS3, presentation, sender>>
    <3>1. SenderOK' /\ Counted'
      BY <1>0, <2>2, <2>5, SenderStays DEF Counted
    <3> QED
      BY <1>0, <2>1, <2>3, <2>5, <3>1 DEF IInv
  <2> QED
    BY <1>1, <2>4, <2>5 DEF Sync
<1>2. CASE SendStatus
  <2>1. Status(api) \in S3Frames /\ toS3' = Append(toS3, Status(api))
    BY <1>0, <1>2 DEF SendStatus, Status, S3Frames, Statuses, Displayed
  <2>2. UNCHANGED <<toBridge, bridgeVars, s3Vars, bounds>>
    BY <1>2 DEF SendStatus
  <2>3. toS3' \in Seq(S3Frames)
    BY <1>0, <2>1
  <2> QED
    BY <1>0, <2>2, <2>3 DEF IInv, bridgeVars, s3Vars, stageVars, bounds, SenderOK, ReceiverOK,
       Counted, Displayed
<1>3. CASE Snapshot
  <2>1. /\ content # 0 /\ Present(<<Status(api)>>, content, runtime)
        /\ UNCHANGED <<toBridge, api, content, runtime, s3Vars, bounds>>
    BY <1>3 DEF Snapshot
  <2>2. content \in Contents /\ <<Status(api)>> \in Seq(Statuses) /\ runtime \in Stamps
    <3>1. Status(api) \in Statuses
      BY <1>0 DEF Status, Statuses, Displayed
    <3> QED
      BY <1>0, <3>1, PresentationBounds DEF Counted, Contents
  <2>3. toS3' \in Seq(S3Frames)
    BY <2>1, <2>2, PresentGrows
  <2>4. presentation' = runtime /\ QueueUrl(Url(content))
    BY <2>1 DEF Present
  <2>5. SenderOK'
    BY <2>1, <2>2, <2>4, QueueTypes
  <2> QED
    BY <1>0, <2>1, <2>3, <2>4, <2>5 DEF IInv, s3Vars, stageVars, bounds, ReceiverOK,
       Counted, Displayed
<1>4. CASE SendUrl
  <2>0. sender \in [phase : 0..3, id : 0..MaxId, url : Seq(Pieces), offset : Nat,
                    waiting : BOOLEAN]
    BY <1>0 DEF SenderOK
  <2>1. /\ sender.phase # 0 /\ sender.phase \in 0..3 /\ sender.id \in 1..MaxId
        /\ UNCHANGED <<toBridge, api, content, runtime, presentation, s3Vars, bounds>>
        /\ sender.url \in Seq(Pieces) /\ sender.offset \in Nat
    BY <1>0, <1>4 DEF SendUrl, SenderOK
  <2>2. ASSUME NEW f \in S3Frames, toS3' = Append(toS3, f), SenderOK'
        PROVE  IInv'
    <3>1. toS3' \in Seq(S3Frames)
      BY <1>0, <2>2
    <3> QED
      BY <1>0, <2>1, <2>2, <3>1 DEF IInv, s3Vars, stageVars, bounds, ReceiverOK, Counted, Displayed
  <2>3. CASE sender.phase = 1
    <3>1. /\ toS3' = Append(toS3, UrlBegin(sender.id, Len(sender.url)))
          /\ sender' = [sender EXCEPT !.phase = IF sender.url = <<>> THEN 3 ELSE 2]
      BY <1>4, <2>3 DEF SendUrl
    <3>2. UrlBegin(sender.id, Len(sender.url)) \in S3Frames
      BY <2>1 DEF UrlBegin, S3Frames, UrlBegins
    <3>3. SenderOK'
      <4> DEFINE p == IF sender.url = <<>> THEN 3 ELSE 2
      <4>1. p \in 2..3 /\ (p = 2 => Len(sender.url) > 0)
        BY <2>1, EmptySeq
      <4>2. sender' = [sender EXCEPT !.phase = p]
        BY <3>1
      <4> HIDE DEF p
      <4>3. /\ sender' \in [phase : 0..3, id : 0..MaxId, url : Seq(Pieces), offset : Nat,
                            waiting : BOOLEAN]
            /\ sender'.phase = p /\ sender'.id = sender.id /\ sender'.url = sender.url
            /\ sender'.offset = sender.offset /\ sender'.waiting = sender.waiting
        BY <2>0, <4>1, <4>2
      <4>4. sender.offset = 0
        BY <1>0, <2>3 DEF SenderOK
      <4> QED
        BY <1>0, <2>1, <4>1, <4>3, <4>4 DEF SenderOK
    <3> QED
      BY <2>2, <3>1, <3>2, <3>3
  <2>4. CASE sender.phase = 2
    <3>1. /\ toS3' = Append(toS3, UrlChunk(sender.id, sender.offset,
                                           sender.url[sender.offset + 1]))
          /\ sender' = [sender EXCEPT !.offset = @ + 1,
               !.phase = IF sender.offset + 1 = Len(sender.url) THEN 3 ELSE 2]
      BY <1>4, <2>4 DEF SendUrl
    <3>2. sender.offset + 1 \in 1..Len(sender.url)
      BY <1>0, <2>1, <2>4 DEF SenderOK
    <3>3. UrlChunk(sender.id, sender.offset, sender.url[sender.offset + 1]) \in S3Frames
      BY <2>1, <3>2 DEF UrlChunk, S3Frames, UrlChunks
    <3>4. SenderOK'
      <4> DEFINE p == IF sender.offset + 1 = Len(sender.url) THEN 3 ELSE 2
      <4>1. p \in 2..3 /\ (p = 2 => sender.offset + 1 # Len(sender.url))
        OBVIOUS
      <4>2. sender' = [sender EXCEPT !.offset = @ + 1, !.phase = p]
        BY <3>1
      <4> HIDE DEF p
      <4>3. /\ sender' \in [phase : 0..3, id : 0..MaxId, url : Seq(Pieces), offset : Nat,
                            waiting : BOOLEAN]
            /\ sender'.phase = p /\ sender'.id = sender.id /\ sender'.url = sender.url
            /\ sender'.offset = sender.offset + 1 /\ sender'.waiting = sender.waiting
        <5> DEFINE o == sender.offset + 1
        <5>1. o \in Nat /\ sender' = [sender EXCEPT !.offset = o, !.phase = p]
          BY <2>1, <4>2
        <5> HIDE DEF o
        <5>2. sender' = [phase |-> p, id |-> sender.id, url |-> sender.url, offset |-> o,
                         waiting |-> sender.waiting]
          BY <2>0, <5>1
        <5>3. p \in 0..3
          BY <4>1
        <5>4. sender' \in [phase : 0..3, id : 0..MaxId, url : Seq(Pieces), offset : Nat,
                           waiting : BOOLEAN]
          BY <2>0, <5>1, <5>2, <5>3
        <5> QED
          BY <5>2, <5>4 DEF o
      <4> QED
        BY <1>0, <2>1, <2>4, <3>2, <4>1, <4>3 DEF SenderOK
    <3> QED
      BY <2>2, <3>1, <3>3, <3>4
  <2>5. CASE sender.phase = 3
    <3>1. /\ toS3' = Append(toS3, UrlEnd(sender.id))
          /\ sender' = [NoSender EXCEPT !.id = sender.id, !.waiting = TRUE]
      BY <1>4, <2>5 DEF SendUrl
    <3>2. UrlEnd(sender.id) \in S3Frames
      BY <2>1 DEF UrlEnd, S3Frames, UrlEnds
    <3>3. SenderOK'
      <4>1. sender' = [phase |-> 0, id |-> sender.id, url |-> <<>>, offset |-> 0,
                       waiting |-> TRUE]
        BY <3>1 DEF NoSender
      <4>2. <<>> \in Seq(Pieces) /\ Len(<<>>) = 0
        OBVIOUS
      <4> QED
        BY <1>0, <2>1, <2>5, <4>1, <4>2 DEF SenderOK
    <3> QED
      BY <2>2, <3>1, <3>2, <3>3
  <2> QED
    BY <2>1, <2>3, <2>4, <2>5
<1>5. CASE ReceiveUrlAck
  <2>1. /\ toBridge # <<>> /\ toBridge' = Tail(toBridge)
        /\ UNCHANGED <<api, content, runtime, presentation, s3Vars, bounds>>
    BY <1>5 DEF ReceiveUrlAck
  <2>2. toBridge' \in Seq(Acks)
    BY <1>0, <2>1
  <2>3. sender' \in {sender, [sender EXCEPT !.waiting = FALSE]}
        /\ toS3' \in {toS3, Append(toS3, Commit(presentation))}
    BY <1>5 DEF ReceiveUrlAck
  <2>4. SenderOK'
    BY <1>0, <2>1, <2>3 DEF SenderOK
  <2>5. toS3' \in Seq(S3Frames)
    <3>1. Commit(presentation) \in S3Frames
      BY <1>0 DEF Commit, S3Frames, Commits
    <3> QED
      BY <1>0, <2>3, <3>1
  <2> QED
    BY <1>0, <2>1, <2>2, <2>4, <2>5 DEF IInv, s3Vars, stageVars, bounds, ReceiverOK, Counted, Displayed
<1>6. CASE ApiConnects
  BY <1>0, <1>6 DEF ApiConnects, IInv, linkVars, s3Vars, stageVars, bounds, SenderOK, ReceiverOK,
     Counted, Displayed
<1>7. CASE ApiDrops
  <2>1. /\ faults < MaxFaults /\ faults' = faults + 1 /\ api' = FALSE
        /\ UNCHANGED <<linkVars, content, runtime, presentation, sender, s3Vars,
                       contents, syncs, losses>>
    BY <1>7 DEF ApiDrops
  <2>2. Counted'
    BY <1>0, <2>1, PresentationBounds DEF Counted
  <2>3. SenderOK'
    BY <2>1, SenderStays
  <2> QED
    BY <1>0, <2>1, <2>2, <2>3 DEF IInv, linkVars, s3Vars, stageVars, ReceiverOK, Displayed
<1> QED
  BY <1>1, <1>2, <1>3, <1>4, <1>5, <1>6, <1>7 DEF Bridge

(* And after a step of the S3.                                              *)
LEMMA S3Typed ==
  ASSUME IInv, S3
  PROVE  IInv'
<1>0. ReceiverOK /\ SenderOK /\ Counted /\ Displayed
      /\ toS3 \in Seq(S3Frames) /\ toBridge \in Seq(Acks) /\ {runtime, presentation, last} \subseteq Stamps
  BY DEF IInv
<1>1. UNCHANGED <<api, content, runtime, presentation, sender, contents, syncs, losses, faults>>
  BY DEF S3, Rest, bridgeVars, bounds, ReceiveStatus, ReceiveBegin, ReceiveText,
     ReceiveUrlBegin, ReceiveUrlChunk, ReceiveUrlEnd, ReceiveCommit
<1>2. SenderOK' /\ Counted' /\ {runtime', presentation'} \subseteq Stamps
  BY <1>0, <1>1, SenderStays DEF Counted
<1>3. ASSUME NEW type, Take(type)
      PROVE  toS3' \in Seq(S3Frames) /\ Frame \in S3Frames /\ Frame.type = type
  BY <1>3, Taken
<1>4. CASE ReceiveStatus
  <2>1. /\ toS3' \in Seq(S3Frames) /\ Frame \in Statuses
        /\ atomic' = Frame.atomic /\ UNCHANGED <<toBridge, staged, last, receiver, shown, detour>>
        /\ \/ Frame.atomic = atomic /\ UNCHANGED <<staging, fields>>
           \/ staging' = FALSE /\ fields' = {}
    BY <1>3, <1>4, FrameKinds DEF ReceiveStatus
  <2>2. Displayed'
    <3>1. Frame.atomic \in BOOLEAN
      BY <2>1 DEF Statuses
    <3>2. CASE Frame.atomic = atomic /\ UNCHANGED <<staging, fields>>
      BY <1>0, <1>1, <2>1, <3>1, <3>2 DEF Displayed
    <3>3. CASE staging' = FALSE /\ fields' = {}
      BY <1>0, <1>1, <2>1, <3>1, <3>3 DEF Displayed
    <3> QED
      BY <2>1, <3>2, <3>3
  <2> QED
    BY <1>0, <1>1, <1>2, <2>1, <2>2 DEF IInv, ReceiverOK
<1>5. CASE ReceiveBegin
  <2>1. /\ toS3' \in Seq(S3Frames) /\ Frame \in Begins
        /\ UNCHANGED <<toBridge, atomic, last, receiver, shown>>
        /\ \/ /\ atomic /\ staging' = TRUE /\ fields' = {} /\ detour' = detour \ {"staged"}
              /\ staged' = [NoStage EXCEPT !.stamp = Frame.stamp]
           \/ UNCHANGED <<staging, staged, fields, detour>>
    BY <1>3, <1>5, FrameKinds DEF ReceiveBegin
  <2>2. [NoStage EXCEPT !.stamp = Frame.stamp] \in
          [stamp : Stamps, title : Contents, artist : Contents, cover : Contents]
    BY <2>1, PresentationBounds DEF NoStage, Begins, Contents
  <2>3. Displayed'
    <3>1. CASE /\ atomic /\ staging' = TRUE /\ fields' = {} /\ detour' = detour \ {"staged"}
               /\ staged' = [NoStage EXCEPT !.stamp = Frame.stamp]
      BY <1>0, <1>1, <2>1, <2>2, <3>1 DEF Displayed
    <3>2. CASE UNCHANGED <<staging, staged, fields, detour>>
      BY <1>0, <1>1, <2>1, <3>2 DEF Displayed
    <3> QED
      BY <2>1, <3>1, <3>2
  <2> QED
    BY <1>0, <1>1, <1>2, <2>1, <2>3 DEF IInv, ReceiverOK
<1>6. ASSUME NEW f \in AllFields, NEW n \in Contents
      PROVE  /\ [staged EXCEPT ![f] = n] \in
                  [stamp : Stamps, title : Contents, artist : Contents, cover : Contents]
             /\ [shown EXCEPT ![f] = n] \in [AllFields -> Contents]
             /\ fields \cup {f} \subseteq AllFields
  <2>1. f = "title" \/ f = "artist" \/ f = "cover"
    BY DEF AllFields
  <2>2. staged \in [stamp : Stamps, title : Contents, artist : Contents, cover : Contents]
    BY <1>0 DEF Displayed
  <2>3. [staged EXCEPT ![f] = n] \in
          [stamp : Stamps, title : Contents, artist : Contents, cover : Contents]
    BY <2>1, <2>2
  <2> QED
    BY <1>0, <2>3 DEF Displayed
<1>7. CASE ReceiveText
  <2>1. /\ toS3' \in Seq(S3Frames) /\ Frame \in Texts
        /\ UNCHANGED <<toBridge, atomic, staging, last, receiver>>
    BY <1>3, <1>7, FrameKinds DEF ReceiveText
  <2>2. Frame.field \in AllFields /\ Frame.value \in Contents
    BY <2>1 DEF Texts, AllFields
  <2>3. \/ Stage(Frame.field, Frame.value) /\ UNCHANGED detour
        \/ Show(Frame.field, Frame.value) /\ detour' = detour \cup {"direct"}
        \/ UNCHANGED <<staged, fields, shown, detour>>
    <3>1. (atomic /\ staging) \/ (atomic /\ ~ staging) \/ ~ atomic
      BY <1>0 DEF Displayed
    <3> QED
      BY <1>7, <3>1 DEF ReceiveText
  <2>4. Displayed'
    BY <1>0, <1>1, <1>6, <2>1, <2>2, <2>3 DEF Displayed, Stage, Show, Detours
  <2> QED
    BY <1>0, <1>1, <1>2, <2>1, <2>4 DEF IInv, ReceiverOK
<1>8. CASE ReceiveUrlBegin
  <2>1. /\ toS3' \in Seq(S3Frames) /\ Frame \in UrlBegins
        /\ UNCHANGED <<toBridge, atomic, stageVars, shown>>
        /\ receiver' = [active |-> TRUE, id |-> Frame.id, total |-> Frame.total, url |-> <<>>]
        /\ detour' = detour \ {"receiver"}
    BY <1>3, <1>8, FrameKinds DEF ReceiveUrlBegin
  <2>2. ReceiverOK'
    BY <2>1, PresentationBounds DEF ReceiverOK, UrlBegins
  <2>3. Displayed'
    BY <1>0, <1>1, <2>1 DEF Displayed, stageVars
  <2> QED
    BY <1>0, <1>1, <1>2, <2>1, <2>2, <2>3 DEF IInv, stageVars
<1>9. CASE ReceiveUrlChunk
  <2>1. /\ toS3' \in Seq(S3Frames) /\ Frame \in UrlChunks
        /\ UNCHANGED <<toBridge, atomic, stageVars, shown, detour>>
        /\ \/ receiver' = receiver \/ receiver' = NoReceiver
           \/ /\ Len(receiver.url) < receiver.total
              /\ receiver' = [receiver EXCEPT !.url = Append(@, Frame.data)]
    BY <1>3, <1>9, FrameKinds DEF ReceiveUrlChunk
  <2>2. ReceiverOK'
    <3>1. CASE receiver' = receiver
      BY <1>0, <3>1 DEF ReceiverOK
    <3>2. CASE receiver' = NoReceiver
      BY <3>2, PresentationBounds DEF ReceiverOK, NoReceiver
    <3>3. CASE /\ Len(receiver.url) < receiver.total
               /\ receiver' = [receiver EXCEPT !.url = Append(@, Frame.data)]
      <4> DEFINE u == Append(receiver.url, Frame.data)
      <4>1. receiver \in [active : BOOLEAN, id : 0..MaxId, total : Nat, url : Seq(Pieces)]
        BY <1>0 DEF ReceiverOK
      <4>2. u \in Seq(Pieces) /\ Len(u) = Len(receiver.url) + 1 /\ receiver.url \in Seq(Pieces)
        BY <2>1, <4>1 DEF UrlChunks
      <4>3. receiver' = [receiver EXCEPT !.url = u]
        BY <3>3
      <4> HIDE DEF u
      <4>4. /\ receiver' \in [active : BOOLEAN, id : 0..MaxId, total : Nat, url : Seq(Pieces)]
            /\ receiver'.url = u /\ receiver'.total = receiver.total
        BY <4>1, <4>2, <4>3
      <4> QED
        BY <3>3, <4>1, <4>2, <4>4 DEF ReceiverOK
    <3> QED
      BY <2>1, <3>1, <3>2, <3>3
  <2>3. Displayed'
    BY <1>0, <1>1, <2>1 DEF Displayed, stageVars
  <2> QED
    BY <1>0, <1>1, <1>2, <2>1, <2>2, <2>3 DEF IInv, stageVars
<1>10. CASE ReceiveUrlEnd
  <2> DEFINE r == IF Finished THEN 0 ELSE 1
             c == CoverOf(receiver.url)
  <2>1. /\ toS3' \in Seq(S3Frames) /\ Frame \in UrlEnds
        /\ toBridge' = Append(toBridge, UrlAck(Frame.id, r))
        /\ UNCHANGED <<atomic, staging, last>> /\ receiver' = NoReceiver
    BY <1>3, <1>10, FrameKinds DEF ReceiveUrlEnd
  <2>2. toBridge' \in Seq(Acks)
    <3>1. UrlAck(Frame.id, r) \in Acks
      BY <2>1 DEF UrlAck, UrlEnds, Acks
    <3> QED
      BY <1>0, <2>1, <3>1
  <2>3. ReceiverOK'
    BY <2>1, PresentationBounds DEF ReceiverOK, NoReceiver
  <2>4. c \in Contents /\ "cover" \in AllFields
    <3>1. receiver.url \in Seq(Pieces)
      BY <1>0 DEF ReceiverOK
    <3>2. CASE receiver.url = <<>>
      BY <3>2, PresentationBounds DEF CoverOf, Contents, AllFields
    <3>3. CASE receiver.url # <<>>
      <4>1. receiver.url[1] \in Pieces
        BY <3>1, <3>3
      <4> QED
        BY <3>3, <4>1 DEF CoverOf, Pieces, AllFields
    <3> QED
      BY <3>2, <3>3 DEF AllFields
  <2>5. \/ Stage("cover", c) /\ detour' \in {detour, detour \cup {"staged"}}
        \/ Show("cover", c) /\ detour' = detour \cup {"direct"}
        \/ UNCHANGED <<staged, fields, shown, detour>>
    <3>1. (Finished /\ atomic /\ staging) \/ (Finished /\ ~ (atomic /\ staging)) \/ ~ Finished
      OBVIOUS
    <3> QED
      BY <1>10, <3>1 DEF ReceiveUrlEnd
  <2>6. Displayed'
    <3> HIDE DEF c
    <3> QED
      BY <1>0, <1>1, <1>6, <2>1, <2>4, <2>5 DEF Displayed, Stage, Show, Detours
  <2> QED
    BY <1>0, <1>1, <1>2, <2>1, <2>2, <2>3, <2>6 DEF IInv
<1>11. CASE ReceiveCommit
  <2>1. /\ toS3' \in Seq(S3Frames) /\ Frame \in Commits
        /\ UNCHANGED <<toBridge, atomic, staged, receiver>>
        /\ \/ /\ shown' = [f \in AllFields |-> staged[f]]
              /\ detour' = (detour \ {"direct", "shown"})
                             \cup (IF "staged" \in detour THEN {"shown"} ELSE {})
              /\ last' = Frame.stamp /\ staging' = FALSE /\ fields' = {}
           \/ UNCHANGED <<shown, detour, last, staging, fields>>
    BY <1>3, <1>11, FrameKinds DEF ReceiveCommit
  <2>2. [f \in AllFields |-> staged[f]] \in [AllFields -> Contents]
    BY <1>0 DEF Displayed, AllFields
  <2>3. Frame.stamp \in Stamps
    BY <2>1 DEF Commits
  <2>4. Displayed'
    <3>1. CASE /\ shown' = [f \in AllFields |-> staged[f]]
               /\ detour' = (detour \ {"direct", "shown"})
                              \cup (IF "staged" \in detour THEN {"shown"} ELSE {})
               /\ staging' = FALSE /\ fields' = {}
      <4>1. detour' \subseteq Detours
        BY <1>0, <3>1 DEF Displayed, Detours
      <4> QED
        BY <1>0, <1>1, <2>1, <2>2, <3>1, <4>1 DEF Displayed
    <3>2. CASE UNCHANGED <<shown, detour, staging, fields>>
      BY <1>0, <1>1, <2>1, <3>2 DEF Displayed
    <3> QED
      BY <2>1, <3>1, <3>2
  <2>5. last' \in Stamps
    BY <1>0, <2>1, <2>3
  <2> QED
    BY <1>0, <1>1, <1>2, <2>1, <2>4, <2>5 DEF IInv, ReceiverOK
<1> QED
  BY <1>4, <1>5, <1>7, <1>8, <1>9, <1>10, <1>11 DEF S3

(* And after a loss, an outage or a restart.                                *)
LEMMA EnvironmentTyped ==
  ASSUME IInv, Environment
  PROVE  IInv'
<1>0. ReceiverOK /\ SenderOK /\ Counted /\ Displayed
      /\ toS3 \in Seq(S3Frames) /\ toBridge \in Seq(Acks) /\ {runtime, presentation, last} \subseteq Stamps
  BY DEF IInv
<1>1. CASE Lose
  <2>1. /\ losses < MaxLosses /\ losses' = losses + 1
        /\ UNCHANGED <<bridgeVars, s3Vars, contents, syncs, faults>>
    BY <1>1 DEF Lose
  <2>2. toS3' \in Seq(S3Frames) /\ toBridge' \in Seq(Acks)
    BY <1>0, <1>1, RemoveAtSeq DEF Lose
  <2>3. Counted' /\ SenderOK'
    BY <1>0, <2>1, PresentationBounds, SenderStays DEF Counted, bridgeVars
  <2> QED
    BY <1>0, <2>1, <2>2, <2>3 DEF IInv, bridgeVars, s3Vars, stageVars, ReceiverOK, Displayed
<1>2. ASSUME Fault PROVE /\ faults' \in 0..MaxFaults /\ faults' = faults + 1
                         /\ UNCHANGED <<contents, syncs, losses>>
  BY <1>0, <1>2, PresentationBounds DEF Fault, Counted
<1>3. <<>> \in Seq(S3Frames) /\ <<>> \in Seq(Acks) /\ <<>> \in Seq(Pieces) /\ Len(<<>>) = 0
  OBVIOUS
<1>4. CASE Outage
  <2>1. /\ Fault /\ toS3' = <<>> /\ atomic' = FALSE /\ staging' = FALSE /\ fields' = {}
        /\ UNCHANGED <<toBridge, bridgeVars, staged, last, receiver, shown, detour>>
    BY <1>4 DEF Outage
  <2>2. Counted' /\ SenderOK'
    BY <1>0, <1>2, <2>1, SenderStays DEF Counted, bridgeVars
  <2> QED
    BY <1>0, <1>3, <2>1, <2>2 DEF IInv, bridgeVars, ReceiverOK, Displayed
<1>5. CASE BridgeRestart
  <2>1. /\ Fault /\ toBridge' = <<>> /\ api' = FALSE /\ content' = 0
        /\ presentation' = Stamp(0, 0) /\ sender' = NoSender
        /\ toS3' = <<>> /\ atomic' = FALSE /\ staging' = FALSE /\ fields' = {}
        /\ detour' \in {detour, detour \cup {"receiver"}}
        /\ UNCHANGED <<runtime, staged, last, receiver, shown>>
    BY <1>5 DEF BridgeRestart
  <2>2. Counted'
    BY <1>0, <1>2, <2>1 DEF Counted
  <2>3. SenderOK'
    BY <1>3, <2>1, PresentationBounds DEF SenderOK, NoSender
  <2>4. Displayed'
    BY <1>0, <2>1 DEF Displayed, Detours
  <2>5. presentation' \in Stamps
    BY <2>1 DEF Stamp, Stamps
  <2> QED
    BY <1>0, <1>3, <2>1, <2>2, <2>3, <2>4, <2>5 DEF IInv, ReceiverOK
<1>6. CASE S3Restart
  <2>1. /\ Fault /\ toS3' = <<>> /\ UNCHANGED <<toBridge, bridgeVars>>
        /\ atomic' = FALSE /\ staging' = FALSE /\ staged' = NoStage /\ fields' = {}
        /\ last' = Stamp(0, 0) /\ receiver' = NoReceiver
        /\ shown' = Whole(0) /\ detour' = {}
    BY <1>6 DEF S3Restart
  <2>2. Counted' /\ SenderOK'
    BY <1>0, <1>2, <2>1, SenderStays DEF Counted, bridgeVars
  <2>3. ReceiverOK'
    BY <1>3, <2>1, PresentationBounds DEF ReceiverOK, NoReceiver
  <2>4. Stamp(0, 0) \in Stamps
    BY DEF Stamp, Stamps
  <2>5. Displayed'
    <3>1. 0 \in Contents /\ Cover(0) = 0
      BY PresentationBounds DEF Contents, Cover
    <3>2. Whole(0) \in [AllFields -> Contents]
      BY <3>1 DEF Whole, AllFields
    <3> QED
      BY <1>0, <2>1, <2>4, <3>1, <3>2 DEF Displayed, NoStage, bridgeVars
  <2> QED
    BY <1>0, <1>3, <2>1, <2>2, <2>3, <2>4, <2>5 DEF IInv, bridgeVars
<1> QED
  BY <1>1, <1>4, <1>5, <1>6 DEF Environment

(* A step that changes nothing.                                             *)
LEMMA StutterTyped == ASSUME IInv, UNCHANGED vars PROVE IInv'
  BY DEF IInv, vars, linkVars, bridgeVars, s3Vars, stageVars, bounds, SenderOK, ReceiverOK,
     Counted, Displayed

(* The types hold in every reachable state.                                 *)
LEMMA Typed == Spec => []IInv
<1>1. Init => IInv
  BY InitTyped
<1>2. IInv /\ [Next]_vars => IInv'
  BY BridgeTyped, S3Typed, EnvironmentTyped, StutterTyped DEF Next
<1> QED
  BY <1>1, <1>2, PTL DEF Spec

(* Every variable stays in its type: ids come round, texts and covers are   *)
(* those of contents, the sender stays inside its URL.                      *)
THEOREM PresentationTypeCorrect == Spec => []TypeOK
<1>1. IInv => TypeOK
  BY DEF IInv, TypeOK, SenderOK, ReceiverOK, Counted, Displayed, Contents
<1> QED
  BY <1>1, Typed, PTL

------------------------------------------------------------------------------
(* Ids of URL transfers *)

(* How many transfers were queued after transfer i, transfer now being the  *)
(* last, when fewer than MaxId.                                             *)
Age(i, now) == IF i <= now THEN now - i ELSE now + MaxId - i

IsUrl(f) == f.type \in {"URL_BEGIN", "URL_CHUNK", "URL_END"}

(* The BEGIN of the transfer queued last is still to reach the S3.          *)
Due == IF \/ sender.phase = 1
          \/ \E f \in ToSet(toS3) : f.type = "URL_BEGIN" /\ f.id = sender.id
       THEN 1 ELSE 0

(* The receiver holds a URL of the present life of the Bridge.              *)
Holds == receiver.active /\ "receiver" \notin detour

(* Every id in flight is one of the last, and so is that of the receiver:   *)
(* each transfer queued since then was given up for a runtime state, or its *)
(* BEGIN was lost, by itself or with an outage.                             *)
Young ==
  /\ \A f \in ToSet(toS3) : IsUrl(f) => Age(f.id, sender.id) < syncs
  /\ \A f \in ToSet(toBridge) : Age(f.id, sender.id) < syncs
  /\ Holds => receiver.id # 0 /\ Age(receiver.id, sender.id) < syncs + losses + faults + Due

IdsOutlast == MaxSyncs + MaxLosses + MaxFaults < MaxId

(* The ids in the queues are ids.                                           *)
LEMMA UrlIds ==
  ASSUME IInv
  PROVE  /\ \A f \in ToSet(toS3) : f \in S3Frames /\ (IsUrl(f) => f.id \in 1..MaxId)
         /\ \A f \in ToSet(toBridge) : f \in Acks /\ f.id \in 1..MaxId
<1>1. /\ \A f \in ToSet(toS3) : f \in S3Frames
      /\ \A f \in ToSet(toBridge) : f \in Acks
  BY DEF IInv, ToSet
<1>2. \A f \in S3Frames : IsUrl(f) => f.id \in 1..MaxId
  BY FrameKinds DEF IsUrl, UrlBegins, UrlChunks, UrlEnds
<1> QED
  BY <1>1, <1>2 DEF Acks

(* What the counters are.                                                   *)
LEMMA Counts ==
  ASSUME IInv
  PROVE  /\ sender.id \in 0..MaxId /\ receiver.id \in 0..MaxId /\ sender.phase \in 0..3
         /\ syncs \in Nat /\ losses \in Nat /\ faults \in Nat /\ MaxId \in Nat \ {0}
         /\ syncs <= MaxSyncs /\ losses <= MaxLosses /\ faults <= MaxFaults
         /\ {MaxSyncs, MaxLosses, MaxFaults} \subseteq Nat
         /\ content # 0 => syncs > 0
         /\ Due \in {0, 1}
  BY PresentationBounds DEF IInv, SenderOK, ReceiverOK, Counted, Due

(* A new transfer makes every other one older by one, and has its id alone. *)
LEMMA Ageing ==
  ASSUME IInv, NEW url, QueueUrl(url), NEW i \in 1..MaxId,
         Age(i, sender.id) + 1 < MaxId
  PROVE  Age(i, sender'.id) = Age(i, sender.id) + 1 /\ sender'.id # i /\ sender'.id \in 1..MaxId
<1>1. sender.id \in 0..MaxId /\ MaxId \in Nat \ {0}
  BY Counts
<1>2. sender'.id = IF sender.id = MaxId THEN 1 ELSE sender.id + 1
  BY DEF QueueUrl
<1>3. CASE sender.id = MaxId
  BY <1>1, <1>2, <1>3 DEF Age
<1>4. CASE sender.id # MaxId
  BY <1>1, <1>2, <1>4 DEF Age
<1> QED
  BY <1>3, <1>4

(* A BEGIN that is due stays due unless it is lost or taken.                *)
LEMMA DueStays ==
  ASSUME sender'.id = sender.id,
         sender.phase = 1 => \/ sender'.phase = 1
                             \/ \E f \in ToSet(toS3') : f.type = "URL_BEGIN" /\ f.id = sender.id,
         \A f \in ToSet(toS3) : f.type = "URL_BEGIN" => f \in ToSet(toS3')
  PROVE  Due <= Due'
<1>1. ASSUME sender.phase = 1 \/ \E f \in ToSet(toS3) : f.type = "URL_BEGIN" /\ f.id = sender.id
      PROVE  sender'.phase = 1 \/ \E f \in ToSet(toS3') : f.type = "URL_BEGIN" /\ f.id = sender'.id
  BY <1>1
<1> QED
  BY <1>1 DEF Due

(* A bound of four parts holds on when the parts grow.                      *)
LEMMA StaysBelow ==
  ASSUME NEW a \in Nat, NEW s \in Nat, NEW l \in Nat, NEW f \in Nat, NEW d \in {0, 1},
         NEW t \in Nat, NEW m \in Nat, NEW g \in Nat, NEW e \in {0, 1},
         a < s + l + f + d, s <= t, l + f + d <= m + g + e
  PROVE  a < t + m + g + e
  OBVIOUS

(* A sum grows with its parts.                                              *)
LEMMA SumGrows ==
  ASSUME NEW l \in Nat, NEW f \in Nat, NEW d \in {0, 1}, NEW m, NEW g, NEW e \in {0, 1},
         m \in {l, l + 1}, g \in {f, f + 1},
         d <= e \/ m = l + 1 \/ g = f + 1
  PROVE  l + f + d <= m + g + e
  OBVIOUS

(* Ids stay young while no transfer is queued.                              *)
LEMMA YoungStays ==
  ASSUME IInv, IInv', Young, sender'.id = sender.id, syncs' >= syncs,
         \A f \in ToSet(toS3') : IsUrl(f) => f \in ToSet(toS3) \/ (f.id = sender.id /\ content # 0),
         \A f \in ToSet(toBridge') : f \in ToSet(toBridge) \/ Age(f.id, sender.id) < syncs,
         Holds' => \/ /\ Holds /\ receiver'.id = receiver.id
                      /\ losses + faults + Due <= losses' + faults' + Due'
                   \/ receiver'.id # 0 /\ Age(receiver'.id, sender.id) < syncs
  PROVE  Young'
<1>1. /\ syncs \in Nat /\ syncs' \in Nat /\ losses \in Nat /\ losses' \in Nat
      /\ faults \in Nat /\ faults' \in Nat /\ Due \in {0, 1} /\ Due' \in {0, 1}
      /\ sender.id \in 0..MaxId /\ receiver.id \in 0..MaxId /\ receiver'.id \in 0..MaxId
      /\ MaxId \in Nat \ {0} /\ (content # 0 => syncs > 0)
  <2>1. /\ syncs' \in Nat /\ losses' \in Nat /\ faults' \in Nat /\ Due' \in {0, 1}
        /\ receiver'.id \in 0..MaxId
    BY PresentationBounds DEF IInv, ReceiverOK, Counted, Due
  <2> QED
    BY <2>1, Counts
<1>2. \A i \in 0..MaxId : Age(i, sender.id) \in Nat /\ Age(i, sender'.id) = Age(i, sender.id)
  BY <1>1 DEF Age
<1>3. \A f \in ToSet(toS3') : IsUrl(f) => Age(f.id, sender'.id) < syncs'
  <2> SUFFICES ASSUME NEW f \in ToSet(toS3'), IsUrl(f)
               PROVE  Age(f.id, sender.id) < syncs'
    OBVIOUS
  <2>1. CASE f \in ToSet(toS3)
    <3>1. Age(f.id, sender.id) < syncs /\ f.id \in 1..MaxId
      BY <2>1, UrlIds DEF Young
    <3> QED
      BY <1>1, <1>2, <3>1
  <2>2. CASE f.id = sender.id /\ content # 0
    <3>1. Age(f.id, sender.id) = 0
      BY <1>1, <2>2 DEF Age
    <3> QED
      BY <1>1, <2>2, <3>1
  <2> QED
    BY <2>1, <2>2
<1>4. \A f \in ToSet(toBridge') : Age(f.id, sender'.id) < syncs'
  <2> SUFFICES ASSUME NEW f \in ToSet(toBridge')
               PROVE  Age(f.id, sender.id) < syncs'
    OBVIOUS
  <2>1. Age(f.id, sender.id) < syncs
    BY DEF Young
  <2>2. toBridge' \in Seq(Acks)
    BY DEF IInv
  <2>3. f \in Acks
    BY <2>2, ElementOf
  <2>4. f.id \in 1..MaxId
    BY <2>3 DEF Acks
  <2> QED
    BY <1>1, <1>2, <2>1, <2>4
<1>5. Holds' => /\ receiver'.id # 0
                /\ Age(receiver'.id, sender'.id) < syncs' + losses' + faults' + Due'
  <2>1. CASE Holds /\ receiver'.id = receiver.id /\ losses + faults + Due <= losses' + faults' + Due'
    <3>1. receiver.id # 0 /\ Age(receiver.id, sender.id) < syncs + losses + faults + Due
      BY <2>1 DEF Young
    <3>2. /\ Age(receiver.id, sender.id) \in Nat
          /\ Age(receiver'.id, sender'.id) = Age(receiver.id, sender.id)
      BY <1>1, <1>2, <2>1
    <3>3. Age(receiver.id, sender.id) < syncs' + losses' + faults' + Due'
      BY <1>1, <2>1, <3>1, <3>2, StaysBelow
    <3> QED
      BY <2>1, <3>1, <3>2, <3>3
  <2>2. CASE receiver'.id # 0 /\ Age(receiver'.id, sender.id) < syncs
    BY <1>1, <1>2, <2>2
  <2> QED
    BY <2>1, <2>2
<1> QED
  BY <1>3, <1>4, <1>5 DEF Young

(* A bound of four parts grows by one with a runtime state, or when the     *)
(* part that is at most one was nothing and becomes one.                    *)
LEMMA MakesRoom ==
  ASSUME NEW a \in Nat, NEW s \in Nat, NEW l \in Nat, NEW f \in Nat, NEW d \in {0, 1},
         NEW t \in Nat, NEW g \in Nat, f <= g,
         a < s + l + f + d, t = s + 1 \/ (d = 0 /\ t = s)
  PROVE  a + 1 < t + l + g + 1
  OBVIOUS

(* They stay young when a transfer is queued: a runtime state makes room    *)
(* for it, and a snapshot finds nothing in flight.                          *)
LEMMA YoungQueued ==
  ASSUME IdsOutlast, IInv, IInv', Young, NEW url, QueueUrl(url),
         UNCHANGED <<toBridge, receiver, detour, losses>>, faults' >= faults,
         \A f \in ToSet(toS3') : IsUrl(f) => f \in ToSet(toS3),
         syncs' = syncs + 1 \/ (Quiet /\ syncs' = syncs)
  PROVE  Young'
<1>1. /\ syncs \in Nat /\ losses \in Nat /\ faults \in Nat /\ faults' \in Nat /\ syncs' \in Nat
      /\ losses' \in Nat /\ Due \in {0, 1} /\ MaxId \in Nat /\ sender.id \in 0..MaxId
      /\ receiver.id \in 0..MaxId
      /\ syncs' <= MaxSyncs /\ losses <= MaxLosses /\ faults <= MaxFaults
      /\ {MaxSyncs, MaxLosses, MaxFaults} \subseteq Nat
  <2>1. syncs' \in Nat /\ syncs' <= MaxSyncs /\ faults' \in Nat /\ losses' \in Nat
    BY PresentationBounds DEF IInv, Counted
  <2> QED
    BY <2>1, Counts
<1>2. MaxSyncs + MaxLosses + MaxFaults < MaxId
  BY DEF IdsOutlast
<1>3. sender'.phase = 1 /\ Due' = 1
  BY DEF QueueUrl, Due
<1>4. ASSUME NEW i \in 1..MaxId, Age(i, sender.id) < syncs, syncs' = syncs + 1
      PROVE  Age(i, sender'.id) < syncs'
  <2>1. Age(i, sender.id) \in Nat
    BY <1>1 DEF Age
  <2>2. Age(i, sender.id) + 1 < MaxId
    BY <1>1, <1>2, <1>4, <2>1
  <2>3. Age(i, sender'.id) = Age(i, sender.id) + 1
    BY <2>2, Ageing
  <2> QED
    BY <1>1, <1>4, <2>1, <2>3
<1>5. \A f \in ToSet(toS3') : IsUrl(f) => Age(f.id, sender'.id) < syncs'
  <2> SUFFICES ASSUME NEW f \in ToSet(toS3'), IsUrl(f)
               PROVE  Age(f.id, sender'.id) < syncs'
    OBVIOUS
  <2>1. f \in ToSet(toS3) /\ f.id \in 1..MaxId /\ Age(f.id, sender.id) < syncs
    BY UrlIds DEF Young
  <2>2. ~ Quiet
    BY <2>1 DEF Quiet, ToSet
  <2> QED
    BY <1>4, <2>1, <2>2
<1>6. \A f \in ToSet(toBridge') : Age(f.id, sender'.id) < syncs'
  <2> SUFFICES ASSUME NEW f \in ToSet(toBridge')
               PROVE  Age(f.id, sender'.id) < syncs'
    OBVIOUS
  <2>1. f \in ToSet(toBridge) /\ f.id \in 1..MaxId /\ Age(f.id, sender.id) < syncs
    BY UrlIds DEF Young
  <2>2. ~ Quiet
    BY <2>1 DEF Quiet, ToSet
  <2> QED
    BY <1>4, <2>1, <2>2
<1>7. ASSUME Holds'
      PROVE  receiver'.id # 0 /\ Age(receiver'.id, sender'.id) < syncs' + losses' + faults' + Due'
  <2>1. /\ receiver.id \in 1..MaxId /\ receiver'.id = receiver.id
        /\ Age(receiver.id, sender.id) < syncs + losses + faults + Due
    BY <1>1, <1>7 DEF Young, Holds
  <2>2. Age(receiver.id, sender.id) \in Nat
    BY <1>1, <2>1 DEF Age
  <2>3. Quiet => Due = 0
    BY DEF Quiet, Due, ToSet
  <2>4. syncs + losses + faults + Due <= MaxSyncs + MaxLosses + MaxFaults
    BY <1>1, <2>3
  <2>5. Age(receiver.id, sender.id) + 1 < MaxId
    BY <1>1, <1>2, <2>1, <2>2, <2>4
  <2>6. Age(receiver.id, sender'.id) = Age(receiver.id, sender.id) + 1
    BY <2>1, <2>5, Ageing
  <2>7. Age(receiver.id, sender.id) + 1 < syncs' + losses + faults' + 1
    BY <1>1, <2>1, <2>2, <2>3, MakesRoom
  <2>8. receiver'.id # 0
    BY <2>1
  <2>9. losses' = losses
    OBVIOUS
  <2> QED
    BY <1>3, <2>1, <2>6, <2>7, <2>8, <2>9
<1> QED
  BY <1>5, <1>6, <1>7 DEF Young

(* A presentation queues no frame of a URL.                                 *)
LEMMA NoUrlPresented ==
  ASSUME IInv, NEW n \in Contents, NEW stamp \in Stamps,
         NEW before \in Seq(Statuses), Present(before, n, stamp)
  PROVE  \A f \in ToSet(toS3') : IsUrl(f) => f \in ToSet(toS3)
<1> DEFINE news == Statuses \cup {Begin(stamp), Text("title", n), Text("artist", n)}
<1>1. ToSet(toS3') \subseteq ToSet(toS3) \cup news
  <2>1. toS3' \in Seq(S3Frames) /\ Grown(toS3', toS3, news) /\ toS3 \in Seq(S3Frames)
    BY PresentGrows DEF IInv
  <2> HIDE DEF news
  <2> QED
    BY <2>1, GrownHolds
<1>2. \A f \in news : ~ IsUrl(f)
  BY DEF IsUrl, Statuses, Begin, Text
<1> QED
  BY <1>1, <1>2

(* What the sender puts on the link, and what it is then about to do.       *)
LEMMA UrlSent ==
  ASSUME IInv, SendUrl
  PROVE  /\ UNCHANGED <<toBridge, api, content, runtime, presentation, s3Vars, bounds>>
         /\ sender'.id = sender.id /\ sender.id \in 1..MaxId /\ content # 0
         /\ ~ sender.waiting /\ sender.url = Url(content)
         /\ \E f : /\ toS3' = Append(toS3, f) /\ f.id = sender.id
                  /\ \/ /\ sender.phase = 1 /\ f = UrlBegin(sender.id, Len(sender.url))
                        /\ sender'.phase # 0 /\ ~ sender'.waiting
                     \/ /\ sender.phase = 2 /\ sender.offset < Len(sender.url)
                        /\ f = UrlChunk(sender.id, sender.offset, sender.url[sender.offset + 1])
                        /\ sender'.phase # 0 /\ ~ sender'.waiting
                     \/ /\ sender.phase = 3 /\ f = UrlEnd(sender.id)
                        /\ sender'.phase = 0 /\ sender'.waiting
<1>1. /\ sender \in [phase : 0..3, id : 0..MaxId, url : Seq(Pieces), offset : Nat,
                     waiting : BOOLEAN]
      /\ sender.phase # 0 /\ UNCHANGED <<toBridge, api, content, runtime, presentation, s3Vars, bounds>>
  BY DEF SendUrl, IInv, SenderOK
<1>2. /\ sender.id \in 1..MaxId /\ content # 0 /\ ~ sender.waiting /\ sender.url = Url(content)
      /\ (sender.phase = 2 => sender.offset < Len(sender.url)) /\ sender.phase \in 1..3
  BY <1>1 DEF IInv, SenderOK
<1>3. CASE sender.phase = 1
  <2> DEFINE p == IF sender.url = <<>> THEN 3 ELSE 2
             f == UrlBegin(sender.id, Len(sender.url))
  <2>1. toS3' = Append(toS3, f) /\ f.id = sender.id /\ sender' = [sender EXCEPT !.phase = p] /\ p # 0
    BY <1>3 DEF SendUrl, UrlBegin
  <2> HIDE DEF p, f
  <2>2. sender'.phase = p /\ sender'.id = sender.id /\ sender'.waiting = sender.waiting
    BY <1>1, <2>1
  <2> QED
    BY <1>1, <1>2, <1>3, <2>1, <2>2 DEF f
<1>4. CASE sender.phase = 2
  <2> DEFINE p == IF sender.offset + 1 = Len(sender.url) THEN 3 ELSE 2
             o == sender.offset + 1
             f == UrlChunk(sender.id, sender.offset, sender.url[sender.offset + 1])
  <2>1. /\ toS3' = Append(toS3, f) /\ f.id = sender.id /\ p # 0
        /\ sender' = [sender EXCEPT !.offset = o, !.phase = p]
    BY <1>4 DEF SendUrl, UrlChunk
  <2> HIDE DEF p, o, f
  <2>2. sender' = [phase |-> p, id |-> sender.id, url |-> sender.url, offset |-> o,
                   waiting |-> sender.waiting]
    BY <1>1, <2>1
  <2>3. sender'.phase = p /\ sender'.id = sender.id /\ sender'.waiting = sender.waiting
    BY <2>2
  <2> QED
    BY <1>1, <1>2, <1>4, <2>1, <2>3 DEF f
<1>5. CASE sender.phase = 3
  <2> DEFINE f == UrlEnd(sender.id)
  <2>1. /\ toS3' = Append(toS3, f) /\ f.id = sender.id
        /\ sender' = [NoSender EXCEPT !.id = sender.id, !.waiting = TRUE]
    BY <1>5 DEF SendUrl, UrlEnd
  <2> HIDE DEF f
  <2>2. sender' = [phase |-> 0, id |-> sender.id, url |-> <<>>, offset |-> 0, waiting |-> TRUE]
    BY <2>1 DEF NoSender
  <2>3. sender'.phase = 0 /\ sender'.id = sender.id /\ sender'.waiting
    BY <2>2
  <2> QED
    BY <1>1, <1>2, <1>5, <2>1, <2>3 DEF f
<1> QED
  BY <1>2, <1>3, <1>4, <1>5

(* The ids stay young with every step of the Bridge.                        *)
LEMMA BridgeYoung ==
  ASSUME IdsOutlast, IInv, IInv', Young, Bridge
  PROVE  Young'
<1>0. /\ toS3 \in Seq(S3Frames) /\ toBridge \in Seq(Acks) /\ SenderOK
      /\ syncs \in Nat /\ losses \in Nat /\ faults \in Nat /\ Due \in {0, 1}
      /\ content \in Contents /\ content' \in Contents
  <2>1. Counted /\ Counted' /\ toS3 \in Seq(S3Frames) /\ toBridge \in Seq(Acks) /\ SenderOK
    BY DEF IInv
  <2>2. content \in Contents /\ content' \in Contents
    <3>1. MaxSyncs \in Nat
      BY PresentationBounds
    <3>2. content \in Contents
      BY <2>1, <3>1 DEF Counted, Contents
    <3>3. content' \in Contents
      BY <2>1, <3>1 DEF Counted, Contents
    <3> QED
      BY <3>2, <3>3
  <2> QED
    BY <2>1, <2>2, Counts
<1>1. ASSUME sender'.id = sender.id, syncs' \in {syncs, syncs + 1}, faults' \in {faults, faults + 1},
             UNCHANGED <<toBridge, s3Vars, losses>>, sender.phase # 1 \/ sender'.phase = 1,
             ToSet(toS3) \subseteq ToSet(toS3'),
             \A f \in ToSet(toS3') : IsUrl(f) => f \in ToSet(toS3) \/ (f.id = sender.id /\ content # 0)
      PROVE  Young'
  <2>1. Due <= Due'
    BY <1>1, DueStays
  <2>2. Due' \in {0, 1} /\ losses' = losses
    BY <1>1 DEF Due
  <2>3. losses + faults + Due <= losses' + faults' + Due'
    BY <1>0, <1>1, <2>1, <2>2, SumGrows
  <2>4. Holds' => Holds /\ receiver'.id = receiver.id
    BY <1>1 DEF Holds, s3Vars
  <2>5. syncs' >= syncs /\ toBridge' = toBridge
    BY <1>0, <1>1
  <2>6. \A f \in ToSet(toBridge') : f \in ToSet(toBridge)
    BY <2>5
  <2> QED
    BY <1>1, <2>3, <2>4, <2>5, <2>6, YoungStays
<1>2. ASSUME NEW s \in 0..(MaxFaults + 1), NEW q \in 0..MaxSyncs, Sync(Stamp(s, q))
      PROVE  Young'
  <2>1. /\ syncs' = syncs + 1 /\ faults' \in {faults, faults + 1}
        /\ UNCHANGED <<toBridge, s3Vars, losses>>
    BY <1>2 DEF Sync
  <2>2. CASE /\ contents' = contents + 1 /\ content' = contents'
             /\ Present(<<>>, content', Stamp(s, q))
    <3>1. content' \in Contents /\ Stamp(s, q) \in Stamps /\ QueueUrl(Url(content'))
      BY <1>0, <2>2, PresentationBounds DEF Present, Stamp, Stamps
    <3>2. \A f \in ToSet(toS3') : IsUrl(f) => f \in ToSet(toS3)
      <4>1. <<>> \in Seq(Statuses)
        OBVIOUS
      <4> QED
        BY <2>2, <3>1, <4>1, NoUrlPresented
    <3>3. UNCHANGED <<receiver, detour>> /\ faults' >= faults
      BY <1>0, <2>1 DEF s3Vars
    <3> QED
      BY <2>1, <3>1, <3>2, <3>3, YoungQueued
  <2>3. CASE UNCHANGED <<content, contents, toS3, presentation, sender>>
    BY <1>1, <2>1, <2>3
  <2> QED
    BY <1>2, <2>2, <2>3 DEF Sync
<1>3. CASE SendStatus
  <2>1. /\ toS3' = Append(toS3, Status(api)) /\ ~ IsUrl(Status(api))
        /\ UNCHANGED <<toBridge, bridgeVars, s3Vars, bounds>>
    BY <1>3 DEF SendStatus, IsUrl, Status
  <2>2. ToSet(toS3') = ToSet(toS3) \cup {Status(api)}
    BY <1>0, <2>1, Appended
  <2> QED
    BY <1>1, <2>1, <2>2 DEF bridgeVars, bounds
<1>4. CASE Snapshot
  <2>1. /\ Quiet /\ Present(<<Status(api)>>, content, runtime)
        /\ UNCHANGED <<toBridge, api, content, runtime, s3Vars, bounds>>
    BY <1>4 DEF Snapshot
  <2>2. \A f \in ToSet(toS3') : IsUrl(f) => f \in ToSet(toS3)
    <3>1. <<Status(api)>> \in Seq(Statuses) /\ runtime \in Stamps
      BY DEF IInv, Displayed, Status, Statuses
    <3> QED
      BY <1>0, <2>1, <3>1, NoUrlPresented
  <2>3. QueueUrl(Url(content)) /\ UNCHANGED <<toBridge, receiver, detour, losses>>
        /\ faults' >= faults /\ syncs' = syncs
    BY <1>0, <2>1 DEF Present, s3Vars, bounds
  <2> QED
    BY <2>1, <2>2, <2>3, YoungQueued
<1>5. CASE SendUrl
  <2>1. /\ content # 0 /\ UNCHANGED <<toBridge, s3Vars, bounds>> /\ sender'.id = sender.id
    BY <1>5, UrlSent
  <2>2. PICK f : /\ toS3' = Append(toS3, f) /\ f.id = sender.id
                 /\ sender.phase = 1 => f.type = "URL_BEGIN"
    BY <1>5, UrlSent DEF UrlBegin
  <2>3. ToSet(toS3') = ToSet(toS3) \cup {f}
    BY <1>0, <2>2, Appended
  <2>4. CASE sender.phase = 1
    <3>1. Due' = 1
      BY <2>1, <2>2, <2>3, <2>4 DEF Due
    <3>2. losses + faults + Due <= losses' + faults' + Due'
      <4>1. Due <= Due' /\ Due' \in {0, 1} /\ losses' = losses /\ faults' = faults
        BY <1>0, <2>1, <3>1 DEF bounds
      <4> QED
        BY <1>0, <4>1, SumGrows
    <3>3. Holds' => Holds /\ receiver'.id = receiver.id
      BY <2>1 DEF Holds, s3Vars
    <3>4. syncs' >= syncs /\ \A g \in ToSet(toBridge') : g \in ToSet(toBridge)
      BY <1>0, <2>1 DEF bounds
    <3> QED
      BY <2>1, <2>2, <2>3, <3>2, <3>3, <3>4, YoungStays
  <2>5. CASE sender.phase # 1
    BY <1>1, <2>1, <2>2, <2>3, <2>5 DEF bounds
  <2> QED
    BY <2>4, <2>5
<1>6. CASE ReceiveUrlAck
  <2>1. /\ UNCHANGED <<api, content, runtime, presentation, s3Vars, bounds>>
        /\ toBridge # <<>> /\ toBridge' = Tail(toBridge)
        /\ sender'.id = sender.id /\ sender'.phase = sender.phase
        /\ toS3' = toS3 \/ toS3' = Append(toS3, Commit(presentation))
    BY <1>0, <1>6 DEF ReceiveUrlAck, SenderOK
  <2>2. /\ ToSet(toS3) \subseteq ToSet(toS3')
        /\ \A f \in ToSet(toS3') : IsUrl(f) => f \in ToSet(toS3)
    <3>1. ~ IsUrl(Commit(presentation))
      BY DEF IsUrl, Commit
    <3>2. CASE toS3' = toS3
      BY <3>2
    <3>3. CASE toS3' = Append(toS3, Commit(presentation))
      <4>1. ToSet(toS3') = ToSet(toS3) \cup {Commit(presentation)}
        BY <1>0, <3>3, Appended
      <4> QED
        BY <3>1, <4>1
    <3> QED
      BY <2>1, <3>2, <3>3
  <2>3. ToSet(toBridge') \subseteq ToSet(toBridge)
    BY <1>0, <2>1, TailThins
  <2>4. Due <= Due'
    BY <2>1, <2>2, DueStays
  <2>5. Due' \in {0, 1} /\ losses' = losses /\ faults' = faults /\ syncs' = syncs
    BY <2>1 DEF Due, bounds
  <2>6. losses + faults + Due <= losses' + faults' + Due' /\ syncs' >= syncs
    <3>1. syncs' >= syncs
      BY <1>0, <2>5
    <3> QED
      BY <1>0, <2>4, <2>5, <3>1, SumGrows
  <2>7. Holds' => Holds /\ receiver'.id = receiver.id
    BY <2>1 DEF Holds, s3Vars
  <2> QED
    BY <2>1, <2>2, <2>3, <2>6, <2>7, YoungStays
<1>7. CASE ApiConnects \/ ApiDrops
  <2>1. /\ UNCHANGED <<linkVars, sender, s3Vars, syncs, losses>>
        /\ faults' \in {faults, faults + 1}
    BY <1>7 DEF ApiConnects, ApiDrops, bounds
  <2> QED
    BY <1>1, <2>1 DEF linkVars
<1> QED
  BY <1>2, <1>3, <1>4, <1>5, <1>6, <1>7 DEF Bridge

(* And with every step of the S3.                                           *)
LEMMA S3Young ==
  ASSUME IInv, IInv', Young, S3
  PROVE  Young'
<1>0. /\ toBridge \in Seq(Acks) /\ ReceiverOK
      /\ syncs \in Nat /\ losses \in Nat /\ faults \in Nat /\ Due \in {0, 1}
      /\ sender.id \in 0..MaxId
  BY Counts DEF IInv
<1>1. ASSUME NEW type, Take(type), Rest,
             \A f \in ToSet(toBridge') : f \in ToSet(toBridge) \/ Age(f.id, sender.id) < syncs,
             Holds' => \/ type # "URL_BEGIN" /\ Holds /\ receiver'.id = receiver.id
                       \/ receiver'.id # 0 /\ Age(receiver'.id, sender.id) < syncs
      PROVE  Young'
  <2>1. /\ ToSet(toS3') \subseteq ToSet(toS3)
        /\ \A f \in ToSet(toS3) : f.type # type => f \in ToSet(toS3')
    BY <1>1, Taken
  <2>2. sender' = sender /\ syncs' = syncs /\ losses' = losses /\ faults' = faults
    BY <1>1 DEF Rest, bridgeVars, bounds
  <2>3. Due' \in {0, 1}
    BY DEF Due
  <2>4. type # "URL_BEGIN" => losses + faults + Due <= losses' + faults' + Due'
    <3>1. SUFFICES ASSUME type # "URL_BEGIN" PROVE losses + faults + Due <= losses' + faults' + Due'
      OBVIOUS
    <3>2. Due <= Due'
      <4>1. \A f \in ToSet(toS3) : f.type = "URL_BEGIN" => f \in ToSet(toS3')
        BY <2>1, <3>1
      <4> QED
        BY <2>2, <4>1, DueStays
    <3> QED
      BY <1>0, <2>2, <2>3, <3>2, SumGrows
  <2>5. syncs' >= syncs /\ sender'.id = sender.id
    BY <1>0, <2>2
  <2> QED
    BY <1>1, <2>1, <2>4, <2>5, YoungStays
<1>2. CASE ReceiveStatus \/ ReceiveBegin \/ ReceiveText \/ ReceiveCommit
  <2>1. PICK type : Take(type) /\ type # "URL_BEGIN"
    BY <1>2 DEF ReceiveStatus, ReceiveBegin, ReceiveText, ReceiveCommit
  <2>2. Rest /\ toBridge' = toBridge /\ receiver' = receiver
    BY <1>2 DEF ReceiveStatus, ReceiveBegin, ReceiveText, ReceiveCommit
  <2>3. "receiver" \in detour => "receiver" \in detour'
    <3>1. CASE ReceiveStatus
      BY <3>1 DEF ReceiveStatus
    <3>2. CASE ReceiveBegin
      BY <3>2 DEF ReceiveBegin
    <3>3. CASE ReceiveText
      BY <3>3 DEF ReceiveText
    <3>4. CASE ReceiveCommit
      BY <3>4 DEF ReceiveCommit
    <3> QED
      BY <1>2, <3>1, <3>2, <3>3, <3>4
  <2>4. Holds' => Holds /\ receiver'.id = receiver.id
    BY <2>2, <2>3 DEF Holds
  <2>5. \A f \in ToSet(toBridge') : f \in ToSet(toBridge)
    BY <2>2
  <2> QED
    BY <1>1, <2>1, <2>2, <2>4, <2>5
<1>3. CASE ReceiveUrlBegin
  <2>1. /\ Take("URL_BEGIN") /\ Rest /\ toBridge' = toBridge
        /\ receiver' = [active |-> TRUE, id |-> Frame.id, total |-> Frame.total, url |-> <<>>]
    BY <1>3 DEF ReceiveUrlBegin
  <2>2. Frame \in ToSet(toS3) /\ Frame.type = "URL_BEGIN"
    BY <2>1, Taken
  <2>3. IsUrl(Frame)
    BY <2>2 DEF IsUrl
  <2>4. Frame.id \in 1..MaxId /\ Age(Frame.id, sender.id) < syncs
    BY <2>2, <2>3, UrlIds DEF Young
  <2>5. receiver'.id # 0 /\ Age(receiver'.id, sender.id) < syncs
    BY <2>1, <2>4
  <2>6. \A f \in ToSet(toBridge') : f \in ToSet(toBridge)
    BY <2>1
  <2> QED
    BY <1>1, <2>1, <2>5, <2>6
<1>4. CASE ReceiveUrlChunk
  <2>1. /\ Take("URL_CHUNK") /\ Rest /\ toBridge' = toBridge /\ detour' = detour
        /\ \/ receiver' = receiver
           \/ receiver.active /\ receiver' = [receiver EXCEPT !.url = Append(@, Frame.data)]
           \/ receiver' = NoReceiver
    BY <1>4 DEF ReceiveUrlChunk
  <2>2. receiver'.active => receiver.active /\ receiver'.id = receiver.id
    <3>1. CASE receiver' = receiver
      BY <3>1
    <3>2. CASE receiver.active /\ receiver' = [receiver EXCEPT !.url = Append(@, Frame.data)]
      BY <1>0, <3>2 DEF ReceiverOK
    <3>3. CASE receiver' = NoReceiver
      BY <3>3 DEF NoReceiver
    <3> QED
      BY <2>1, <3>1, <3>2, <3>3
  <2>3. Holds' => Holds /\ receiver'.id = receiver.id
    BY <2>1, <2>2 DEF Holds
  <2>4. \A f \in ToSet(toBridge') : f \in ToSet(toBridge)
    BY <2>1
  <2> QED
    BY <1>1, <2>1, <2>3, <2>4
<1>5. CASE ReceiveUrlEnd
  <2> DEFINE f == UrlAck(Frame.id, IF Finished THEN 0 ELSE 1)
  <2>1. /\ Take("URL_END") /\ Rest /\ toBridge' = Append(toBridge, f) /\ f.id = Frame.id
        /\ receiver' = NoReceiver
    BY <1>5 DEF ReceiveUrlEnd, UrlAck
  <2> HIDE DEF f
  <2>2. ~ Holds'
    BY <2>1 DEF Holds, NoReceiver
  <2>3. Frame \in ToSet(toS3) /\ Frame.type = "URL_END"
    BY <2>1, Taken
  <2>4. Age(f.id, sender.id) < syncs
    BY <2>1, <2>3 DEF Young, IsUrl
  <2>5. ToSet(toBridge') = ToSet(toBridge) \cup {f}
    BY <1>0, <2>1, Appended
  <2>6. \A g \in ToSet(toBridge') : g \in ToSet(toBridge) \/ Age(g.id, sender.id) < syncs
    BY <2>4, <2>5
  <2> QED
    BY <1>1, <2>1, <2>2, <2>6
<1> QED
  BY <1>2, <1>3, <1>4, <1>5 DEF S3

(* A queue that loses a frame holds no other frame.                         *)
LEMMA LossThins ==
  ASSUME IInv, Lose
  PROVE  /\ toS3' \in Seq(S3Frames) /\ Thinned(toS3', toS3) /\ ToSet(toS3') \subseteq ToSet(toS3)
         /\ toBridge' \in Seq(Acks) /\ ToSet(toBridge') \subseteq ToSet(toBridge)
<1>1. toS3 \in Seq(S3Frames) /\ toBridge \in Seq(Acks)
  BY DEF IInv
<1>2. /\ toS3' = toS3 \/ \E i \in 1..Len(toS3) : toS3' = RemoveAt(toS3, i)
      /\ toBridge' = toBridge \/ \E i \in 1..Len(toBridge) : toBridge' = RemoveAt(toBridge, i)
  BY DEF Lose
<1>3. toS3' \in Seq(S3Frames) /\ Thinned(toS3', toS3) /\ ToSet(toS3') \subseteq ToSet(toS3)
  BY <1>1, <1>2, ThinnedBy
<1>4. toBridge' \in Seq(Acks) /\ ToSet(toBridge') \subseteq ToSet(toBridge)
  BY <1>1, <1>2, ThinnedBy
<1> QED
  BY <1>3, <1>4

(* And with losses, outages and restarts.                                   *)
LEMMA EnvironmentYoung ==
  ASSUME IInv, IInv', Young, Environment
  PROVE  Young'
<1>0. /\ syncs \in Nat /\ losses \in Nat /\ faults \in Nat /\ Due \in {0, 1}
      /\ Due' \in {0, 1} /\ sender.id \in 0..MaxId
  BY Counts DEF Due
<1>1. ASSUME sender' = sender, syncs' = syncs, ToSet(toS3') \subseteq ToSet(toS3),
             ToSet(toBridge') \subseteq ToSet(toBridge),
             \/ losses' = losses + 1 /\ faults' = faults
             \/ losses' = losses /\ faults' = faults + 1,
             Holds' => Holds /\ receiver'.id = receiver.id
      PROVE  Young'
  <2>1. losses + faults + Due <= losses' + faults' + Due'
    BY <1>0, <1>1, SumGrows
  <2>2. syncs' >= syncs /\ sender'.id = sender.id
    BY <1>0, <1>1
  <2> QED
    BY <1>1, <2>1, <2>2, YoungStays
<1>2. CASE Lose
  <2>1. /\ ToSet(toS3') \subseteq ToSet(toS3) /\ ToSet(toBridge') \subseteq ToSet(toBridge)
    BY <1>2, LossThins
  <2>2. /\ losses' = losses + 1 /\ UNCHANGED <<bridgeVars, s3Vars, contents, syncs, faults>>
    BY <1>2 DEF Lose
  <2> QED
    BY <1>1, <2>1, <2>2 DEF bridgeVars, s3Vars, Holds
<1>3. CASE Outage
  <2>1. /\ losses' = losses /\ faults' = faults + 1 /\ syncs' = syncs /\ toS3' = <<>>
        /\ UNCHANGED <<toBridge, bridgeVars, receiver, detour>>
    BY <1>3 DEF Outage, Fault
  <2>2. ToSet(toS3') \subseteq ToSet(toS3) /\ ToSet(toBridge') \subseteq ToSet(toBridge)
    BY <2>1 DEF ToSet
  <2> QED
    BY <1>1, <2>1, <2>2 DEF bridgeVars, Holds
<1>4. CASE BridgeRestart
  <2>1. ~ Holds' /\ toS3' = <<>> /\ toBridge' = <<>>
    BY <1>4 DEF BridgeRestart, Holds
  <2> QED
    BY <2>1 DEF Young, ToSet
<1>5. CASE S3Restart
  <2>1. /\ losses' = losses /\ faults' = faults + 1 /\ syncs' = syncs /\ toS3' = <<>>
        /\ UNCHANGED <<toBridge, bridgeVars>> /\ ~ Holds'
    BY <1>5 DEF S3Restart, Fault, Holds, NoReceiver
  <2>2. ToSet(toS3') \subseteq ToSet(toS3) /\ ToSet(toBridge') \subseteq ToSet(toBridge)
    BY <2>1 DEF ToSet
  <2> QED
    BY <1>1, <2>1, <2>2 DEF bridgeVars
<1> QED
  BY <1>2, <1>3, <1>4, <1>5 DEF Environment

(* No id comes round while a frame or the receiver still bears it.          *)
LEMMA StaysYoung == ASSUME IdsOutlast PROVE Spec => [](IInv /\ Young)
<1>1. Init => Young
  BY DEF Init, Young, Holds, NoReceiver, ToSet
<1>2. IInv /\ Young /\ IInv' /\ [Next]_vars => Young'
  <2>1. ASSUME IInv, IInv', Young, UNCHANGED vars PROVE Young'
    BY <2>1 DEF Young, Holds, Due, vars, linkVars, bridgeVars, s3Vars, bounds
  <2> QED
    BY <2>1, BridgeYoung, S3Young, EnvironmentYoung DEF Next
<1> QED
  BY <1>1, <1>2, Typed, PTL DEF Spec

(* The id of a new transfer is nowhere in flight, and not that of a URL     *)
(* that the receiver holds of the present life of the Bridge.               *)
LEMMA FreshId ==
  ASSUME IdsOutlast, IInv, Young, NEW url, QueueUrl(url), syncs < MaxSyncs \/ Quiet
  PROVE  /\ \A f \in ToSet(toS3) : IsUrl(f) => f.id # sender'.id
         /\ \A f \in ToSet(toBridge) : f.id # sender'.id
         /\ Holds => receiver.id # sender'.id
<1>1. /\ syncs \in Nat /\ losses \in Nat /\ faults \in Nat /\ Due \in {0, 1}
      /\ MaxId \in Nat /\ sender.id \in 0..MaxId /\ receiver.id \in 0..MaxId
      /\ syncs <= MaxSyncs /\ losses <= MaxLosses /\ faults <= MaxFaults
      /\ {MaxSyncs, MaxLosses, MaxFaults} \subseteq Nat
  BY Counts
<1>2. MaxSyncs + MaxLosses + MaxFaults < MaxId
  BY DEF IdsOutlast
<1>3. Quiet => ToSet(toS3) = {} /\ ToSet(toBridge) = {} /\ Due = 0
  BY DEF Quiet, ToSet, Due
<1>4. ASSUME NEW i \in 1..MaxId, Age(i, sender.id) < syncs, syncs < MaxSyncs
      PROVE  i # sender'.id
  <2>1. Age(i, sender.id) \in Nat
    BY <1>1 DEF Age
  <2>2. Age(i, sender.id) + 1 < MaxId
    BY <1>1, <1>2, <1>4, <2>1
  <2> QED
    BY <2>2, Ageing
<1>5. \A f \in ToSet(toS3) : IsUrl(f) => f.id # sender'.id
  BY <1>3, <1>4, UrlIds DEF Young
<1>6. \A f \in ToSet(toBridge) : f.id # sender'.id
  BY <1>3, <1>4, UrlIds DEF Young
<1>7. ASSUME Holds PROVE receiver.id # sender'.id
  <2>1. receiver.id \in 1..MaxId /\ Age(receiver.id, sender.id) < syncs + losses + faults + Due
    BY <1>1, <1>7 DEF Young
  <2>2. Age(receiver.id, sender.id) \in Nat
    BY <1>1, <2>1 DEF Age
  <2>3. syncs + losses + faults + Due <= MaxSyncs + MaxLosses + MaxFaults
    BY <1>1, <1>3
  <2>4. Age(receiver.id, sender.id) + 1 < MaxId
    BY <1>1, <1>2, <2>1, <2>2, <2>3
  <2> QED
    BY <2>1, <2>4, Ageing
<1> QED
  BY <1>5, <1>6, <1>7

------------------------------------------------------------------------------
(* The commit follows the cover *)

EndOf(f)      == f.type = "URL_END" /\ f.id = sender.id
AnswerOf(f)   == f.id = sender.id
Answered      == \E f \in ToSet(toBridge) : AnswerOf(f)
Accepted      == \E f \in ToSet(toBridge) : AnswerOf(f) /\ f.result = 0
Committing    == \E f \in ToSet(toS3) : f.type = "COMMIT"

(* A transfer under way has neither ended nor been answered.                *)
NotEnded ==
  sender.phase # 0 => (\A f \in ToSet(toS3) : ~ EndOf(f)) /\ ~ Answered

(* Behind the end of a URL that is waited for come only heartbeats, and so  *)
(* they do when the answer is on its way.                                   *)
EndIsLast ==
  sender.waiting =>
    /\ \A i, j \in 1..Len(toS3) : i < j /\ EndOf(toS3[i]) => toS3[j].type = "STATUS"
    /\ Answered => \A f \in ToSet(toS3) : f.type = "STATUS"

(* Before a commit come only heartbeats.                                    *)
CommitIsNext ==
  \A i, j \in 1..Len(toS3) : i < j /\ toS3[j].type = "COMMIT" => toS3[i].type = "STATUS"

(* The cover is staged when the commit that waits for it is released.       *)
CoverIsStaged ==
  (sender.waiting /\ Accepted) \/ Committing => (staging => "cover" \in fields)

Waiting == NotEnded /\ EndIsLast /\ CommitIsNext /\ CoverIsStaged

(* Frames taken or lost, and fields staged, leave the order as it is.       *)
LEMMA WaitingThins ==
  ASSUME IInv, IInv', Waiting, Thinned(toS3', toS3), ToSet(toBridge') \subseteq ToSet(toBridge),
         sender'.id = sender.id, sender'.phase = sender.phase, sender'.waiting => sender.waiting,
         \/ staging' => staging /\ ("cover" \in fields => "cover" \in fields')
         \/ ~ Committing /\ ~ (sender.waiting /\ Accepted)
  PROVE  Waiting'
<1>1. /\ toS3 \in Seq(S3Frames) /\ toS3' \in Seq(S3Frames)
  BY DEF IInv
<1>2. \A f \in ToSet(toS3') : f \in ToSet(toS3)
  <2> SUFFICES ASSUME NEW i \in 1..Len(toS3') PROVE toS3'[i] \in ToSet(toS3)
    BY <1>1 DEF ToSet
  <2>1. PICK m \in 1..Len(toS3) : toS3'[i] = toS3[m]
    BY DEF Thinned
  <2> QED
    BY <1>1, <2>1 DEF ToSet
<1>3. Answered' => Answered
  BY DEF Answered, AnswerOf
<1>4. Accepted' => Accepted
  BY DEF Accepted, AnswerOf
<1>5. Committing' => Committing
  BY <1>2 DEF Committing
<1>6. NotEnded'
  BY <1>2, <1>3 DEF Waiting, NotEnded, EndOf
<1>7. EndIsLast'
  <2>1. ASSUME sender.waiting, NEW i \in 1..Len(toS3'), NEW j \in 1..Len(toS3'), i < j,
               EndOf(toS3'[i])
        PROVE  toS3'[j].type = "STATUS"
    <3>1. PICK m \in 1..Len(toS3), n \in 1..Len(toS3) :
                 toS3'[j] = toS3[m] /\ toS3'[i] = toS3[n] /\ (i < j <=> n < m)
      BY DEF Thinned
    <3> QED
      BY <2>1, <3>1 DEF Waiting, EndIsLast
  <2>2. ASSUME sender'.waiting, NEW i \in 1..Len(toS3'), NEW j \in 1..Len(toS3'), i < j,
               EndOf(toS3[i])'
        PROVE  toS3'[j].type = "STATUS"
    BY <2>1, <2>2 DEF EndOf
  <2>3. sender'.waiting /\ Answered' => \A f \in ToSet(toS3') : f.type = "STATUS"
    BY <1>2, <1>3 DEF Waiting, EndIsLast
  <2> QED
    BY <2>2, <2>3 DEF EndIsLast
<1>8. CommitIsNext'
  <2> SUFFICES ASSUME NEW i \in 1..Len(toS3'), NEW j \in 1..Len(toS3'), i < j,
                      toS3'[j].type = "COMMIT"
               PROVE  toS3'[i].type = "STATUS"
    BY DEF CommitIsNext
  <2>1. PICK m \in 1..Len(toS3), n \in 1..Len(toS3) :
               toS3'[j] = toS3[m] /\ toS3'[i] = toS3[n] /\ (i < j <=> n < m)
    BY DEF Thinned
  <2> QED
    BY <2>1 DEF Waiting, CommitIsNext
<1>9. CoverIsStaged'
  BY <1>4, <1>5 DEF Waiting, CoverIsStaged
<1> QED
  BY <1>6, <1>7, <1>8, <1>9 DEF Waiting

(* Nor do frames behind it that are neither the end of a URL nor a commit.  *)
LEMMA WaitingGrows ==
  ASSUME IInv, IInv', Waiting, NEW F, Grown(toS3', toS3, F),
         \A f \in F : f.type # "URL_END" /\ f.type # "COMMIT",
         toBridge' = toBridge, staging' = staging, fields' = fields,
         NotEnded',
         sender'.waiting => /\ sender.waiting /\ sender'.id = sender.id
                            /\ \A f \in F : f.type = "STATUS"
  PROVE  Waiting'
<1>1. toS3 \in Seq(S3Frames) /\ toS3' \in Seq(S3Frames)
  BY DEF IInv
<1>2. ASSUME NEW j \in 1..Len(toS3')
      PROVE  IF j <= Len(toS3) THEN j \in 1..Len(toS3) /\ toS3'[j] = toS3[j] ELSE toS3'[j] \in F
  BY <1>1 DEF Grown
<1>3. ToSet(toS3') \subseteq ToSet(toS3) \cup F
  BY <1>1, GrownHolds
<1>4. sender'.waiting /\ Answered' => Answered /\ sender.waiting
  BY DEF Answered, AnswerOf
<1>5. sender'.waiting /\ Accepted' => Accepted /\ sender.waiting
  BY DEF Accepted, AnswerOf
<1>6. Committing' => Committing
  BY <1>3 DEF Committing
<1>7. EndIsLast'
  <2>1. ASSUME sender'.waiting, NEW i \in 1..Len(toS3'), NEW j \in 1..Len(toS3'), i < j,
               EndOf(toS3[i])'
        PROVE  toS3'[j].type = "STATUS"
    <3>1. EndOf(toS3'[i])
      BY <2>1 DEF EndOf
    <3>2. CASE j <= Len(toS3)
      <4>1. /\ i \in 1..Len(toS3) /\ j \in 1..Len(toS3)
            /\ toS3'[i] = toS3[i] /\ toS3'[j] = toS3[j]
        BY <1>1, <1>2, <2>1, <3>2
      <4> QED
        BY <2>1, <3>1, <4>1 DEF Waiting, EndIsLast
    <3>3. CASE ~ (j <= Len(toS3))
      BY <1>2, <2>1, <3>3
    <3> QED
      BY <3>2, <3>3
  <2>2. sender'.waiting /\ Answered' => \A f \in ToSet(toS3') : f.type = "STATUS"
    BY <1>3, <1>4 DEF Waiting, EndIsLast
  <2> QED
    BY <2>1, <2>2 DEF EndIsLast
<1>8. CommitIsNext'
  <2> SUFFICES ASSUME NEW i \in 1..Len(toS3'), NEW j \in 1..Len(toS3'), i < j,
                      toS3'[j].type = "COMMIT"
               PROVE  toS3'[i].type = "STATUS"
    BY DEF CommitIsNext
  <2>1. j <= Len(toS3)
    BY <1>2
  <2>2. /\ i \in 1..Len(toS3) /\ j \in 1..Len(toS3)
        /\ toS3'[i] = toS3[i] /\ toS3'[j] = toS3[j]
    BY <1>1, <1>2, <2>1
  <2> QED
    BY <2>2 DEF Waiting, CommitIsNext
<1>9. CoverIsStaged'
  BY <1>5, <1>6 DEF Waiting, CoverIsStaged
<1> QED
  BY <1>7, <1>8, <1>9 DEF Waiting

(* The order depends on the queues, the sender and the staging alone.       *)
LEMMA WaitingStays ==
  ASSUME Waiting, UNCHANGED <<toS3, toBridge, sender, staging, fields>>
  PROVE  Waiting'
  BY DEF Waiting, NotEnded, EndIsLast, CommitIsNext, CoverIsStaged, EndOf, AnswerOf,
     Answered, Accepted, Committing

(* A presentation starts a transfer with an id of its own.                  *)
LEMMA WaitingQueued ==
  ASSUME IdsOutlast, IInv, IInv', Young, Waiting, UNCHANGED <<toBridge, s3Vars>>,
         NEW n \in Contents, NEW stamp \in Stamps, NEW before \in Seq(Statuses),
         Present(before, n, stamp), syncs < MaxSyncs \/ Quiet
  PROVE  Waiting'
<1> DEFINE news == Statuses \cup {Begin(stamp), Text("title", n), Text("artist", n)}
<1>1. Grown(toS3', toS3, news)
  BY PresentGrows
<1>2. \A f \in news : f.type # "URL_END" /\ f.type # "COMMIT"
  BY DEF Statuses, Begin, Text
<1>3. QueueUrl(Url(n))
  BY DEF Present
<1>4. NotEnded'
  <2>1. /\ \A f \in ToSet(toS3) : IsUrl(f) => f.id # sender'.id
        /\ \A f \in ToSet(toBridge) : f.id # sender'.id
    BY <1>3, FreshId
  <2>2. \A f \in ToSet(toS3') : IsUrl(f) => f \in ToSet(toS3)
    BY NoUrlPresented
  <2>3. \A f \in ToSet(toS3') : f.type = "URL_END" => f.id # sender'.id
    BY <2>1, <2>2 DEF IsUrl
  <2> QED
    BY <2>1, <2>3 DEF NotEnded, EndOf, Answered, AnswerOf
<1>5. ~ sender'.waiting
  BY <1>3 DEF QueueUrl
<1>6. staging' = staging /\ fields' = fields /\ toBridge' = toBridge
  BY DEF s3Vars, stageVars
<1> HIDE DEF news
<1> QED
  BY <1>1, <1>2, <1>4, <1>5, <1>6, WaitingGrows

(* A URL goes out: its end is the first of its id.                          *)
LEMMA WaitingSent ==
  ASSUME IInv, IInv', Waiting, SendUrl
  PROVE  Waiting'
<1>1. /\ UNCHANGED <<toBridge, staging, fields>> /\ sender'.id = sender.id
      /\ ~ sender.waiting /\ toS3 \in Seq(S3Frames) /\ toS3' \in Seq(S3Frames)
  BY UrlSent DEF s3Vars, stageVars, IInv
<1>2. PICK f :
        /\ toS3' = Append(toS3, f) /\ f.id = sender.id
        /\ \/ sender.phase # 0 /\ ~ sender'.waiting /\ f.type \in {"URL_BEGIN", "URL_CHUNK"}
           \/ sender.phase # 0 /\ sender'.phase = 0 /\ sender'.waiting /\ f.type = "URL_END"
  BY UrlSent DEF UrlBegin, UrlChunk, UrlEnd
<1>3. /\ Len(toS3') = Len(toS3) + 1 /\ toS3'[Len(toS3) + 1] = f
      /\ \A i \in 1..Len(toS3) : toS3'[i] = toS3[i]
      /\ ToSet(toS3') = ToSet(toS3) \cup {f}
  BY <1>1, <1>2, Appended
<1>4. CASE ~ sender'.waiting
  <2>1. f.type \in {"URL_BEGIN", "URL_CHUNK"} /\ sender.phase # 0
    BY <1>2, <1>4
  <2>2. NotEnded'
    <3>1. \A g \in ToSet(toS3') : ~ EndOf(g)
      BY <1>3, <2>1 DEF Waiting, NotEnded, EndOf
    <3> QED
      BY <1>1, <2>1, <3>1 DEF Waiting, NotEnded, EndOf, Answered, AnswerOf
  <2>3. Grown(toS3', toS3, {f})
    BY <1>1, <1>3 DEF Grown
  <2> QED
    BY <1>1, <1>4, <2>1, <2>2, <2>3, WaitingGrows
<1>5. CASE sender'.waiting
  <2>1. sender.phase # 0 /\ sender'.phase = 0 /\ f.type = "URL_END"
    BY <1>2, <1>5
  <2>2. (\A g \in ToSet(toS3) : ~ EndOf(g)) /\ ~ Answered
    BY <2>1 DEF Waiting, NotEnded
  <2>3. ~ Answered' /\ ~ Accepted'
    BY <1>1, <2>2 DEF Answered, Accepted, AnswerOf
  <2>4. EndIsLast'
    <3>1. SUFFICES ASSUME NEW i \in 1..Len(toS3'), NEW j \in 1..Len(toS3'), i < j,
                          EndOf(toS3[i])'
                   PROVE  FALSE
      BY <2>3 DEF EndIsLast
    <3>2. i \in 1..Len(toS3) /\ toS3'[i] = toS3[i]
      BY <1>1, <1>3, <3>1
    <3>3. toS3[i] \in ToSet(toS3)
      BY <1>1, <3>2 DEF ToSet
    <3> QED
      BY <1>1, <2>2, <3>1, <3>2, <3>3 DEF EndOf
  <2>5. CommitIsNext'
    <3>1. SUFFICES ASSUME NEW i \in 1..Len(toS3'), NEW j \in 1..Len(toS3'), i < j,
                          toS3'[j].type = "COMMIT"
                   PROVE  toS3'[i].type = "STATUS"
      BY DEF CommitIsNext
    <3>2. j # Len(toS3) + 1
      BY <1>3, <2>1, <3>1
    <3>3. i \in 1..Len(toS3) /\ j \in 1..Len(toS3) /\ toS3'[i] = toS3[i] /\ toS3'[j] = toS3[j]
      BY <1>1, <1>3, <3>1, <3>2
    <3> QED
      BY <3>1, <3>3 DEF Waiting, CommitIsNext
  <2>6. CoverIsStaged'
    <3>1. Committing' => Committing
      BY <1>3, <2>1 DEF Committing
    <3> QED
      BY <1>1, <2>3, <3>1 DEF Waiting, CoverIsStaged
  <2> QED
    BY <2>1, <2>4, <2>5, <2>6 DEF Waiting, NotEnded
<1> QED
  BY <1>4, <1>5

(* An answer that is waited for releases the commit.                        *)
LEMMA WaitingAnswered ==
  ASSUME IInv, IInv', Waiting, ReceiveUrlAck
  PROVE  Waiting'
<1> DEFINE a == Head(toBridge)
<1>1. /\ UNCHANGED <<staging, fields>> /\ toBridge # <<>> /\ toBridge' = Tail(toBridge)
      /\ IF AckMatches(a)
         THEN /\ sender' = [sender EXCEPT !.waiting = FALSE]
              /\ toS3' = IF a.result = 0 THEN Append(toS3, Commit(presentation)) ELSE toS3
         ELSE UNCHANGED <<sender, toS3>>
  BY DEF ReceiveUrlAck, s3Vars, stageVars
<1>2. /\ toS3 \in Seq(S3Frames) /\ toS3' \in Seq(S3Frames) /\ toBridge \in Seq(Acks)
      /\ sender \in [phase : 0..3, id : 0..MaxId, url : Seq(Pieces), offset : Nat, waiting : BOOLEAN]
      /\ (sender.phase # 0 => ~ sender.waiting)
  BY DEF IInv, SenderOK
<1>3. ToSet(toBridge') \subseteq ToSet(toBridge) /\ a \in ToSet(toBridge)
  BY <1>1, <1>2, TailThins
<1> HIDE DEF a
<1>4. sender'.id = sender.id /\ sender'.phase = sender.phase /\ (sender'.waiting => sender.waiting)
  BY <1>1, <1>2
<1>5. CASE toS3' = toS3
  <2>1. Thinned(toS3', toS3)
    BY <1>5 DEF Thinned
  <2> QED
    BY <1>1, <1>3, <1>4, <2>1, WaitingThins
<1>6. CASE AckMatches(a) /\ a.result = 0 /\ toS3' = Append(toS3, Commit(presentation))
  <2>1. sender.waiting /\ a.id = sender.id /\ sender.phase = 0
    BY <1>2, <1>6 DEF AckMatches
  <2>2. ~ sender'.waiting /\ sender'.phase = 0
    BY <1>1, <1>2, <1>6, <2>1
  <2>3. Answered /\ Accepted
    BY <1>3, <1>6, <2>1 DEF Answered, Accepted, AnswerOf
  <2>4. /\ \A f \in ToSet(toS3) : f.type = "STATUS"
        /\ staging => "cover" \in fields
    BY <2>1, <2>3 DEF Waiting, EndIsLast, CoverIsStaged
  <2>5. CommitIsNext'
    <3>1. SUFFICES ASSUME NEW i \in 1..Len(toS3'), NEW j \in 1..Len(toS3'), i < j
                   PROVE  toS3'[i].type = "STATUS"
      BY DEF CommitIsNext
    <3>2. Len(toS3') = Len(toS3) + 1 /\ \A k \in 1..Len(toS3) : toS3'[k] = toS3[k]
      BY <1>2, <1>6, Appended
    <3>3. i \in 1..Len(toS3) /\ toS3'[i] = toS3[i]
      BY <1>2, <3>1, <3>2
    <3> QED
      BY <1>2, <2>4, <3>3 DEF ToSet
  <2> QED
    BY <1>1, <2>2, <2>4, <2>5 DEF Waiting, NotEnded, EndIsLast, CoverIsStaged
<1> QED
  BY <1>1, <1>5, <1>6

(* The order holds after every step of the Bridge.                          *)
LEMMA BridgeWaiting ==
  ASSUME IdsOutlast, IInv, IInv', Young, Waiting, Bridge
  PROVE  Waiting'
<1>0. /\ toS3 \in Seq(S3Frames) /\ runtime \in Stamps /\ content \in Contents
      /\ content' \in Contents /\ api \in BOOLEAN
  <2>1. MaxSyncs \in Nat
    BY PresentationBounds
  <2>2. Counted /\ Counted' /\ api \in BOOLEAN
    BY DEF IInv, Displayed
  <2>3. content \in Contents
    BY <2>1, <2>2 DEF Counted, Contents
  <2>4. content' \in Contents
    BY <2>1, <2>2 DEF Counted, Contents
  <2> QED
    BY <2>2, <2>3, <2>4 DEF IInv
<1>1. ASSUME NEW s \in 0..(MaxFaults + 1), NEW q \in 0..MaxSyncs, Sync(Stamp(s, q))
      PROVE  Waiting'
  <2>1. CASE /\ contents' = contents + 1 /\ content' = contents'
             /\ Present(<<>>, content', Stamp(s, q))
    <3>1. Stamp(s, q) \in Stamps /\ <<>> \in Seq(Statuses)
      BY PresentationBounds DEF Stamp, Stamps
    <3>2. syncs < MaxSyncs /\ UNCHANGED <<toBridge, s3Vars>>
      BY <1>1 DEF Sync
    <3> QED
      BY <1>0, <2>1, <3>1, <3>2, WaitingQueued
  <2>2. CASE UNCHANGED <<content, contents, toS3, presentation, sender>>
    <3>1. UNCHANGED <<toBridge, staging, fields>>
      BY <1>1 DEF Sync, s3Vars, stageVars
    <3> QED
      BY <2>2, <3>1, WaitingStays
  <2> QED
    BY <1>1, <2>1, <2>2 DEF Sync
<1>2. CASE SendStatus
  <2>1. /\ toS3' = Append(toS3, Status(api)) /\ Status(api).type = "STATUS"
        /\ UNCHANGED <<toBridge, sender, staging, fields>> /\ Status(api) \in S3Frames
    BY <1>0, <1>2 DEF SendStatus, Status, bridgeVars, s3Vars, stageVars, S3Frames, Statuses
  <2>2. Grown(toS3', toS3, {Status(api)}) /\ ToSet(toS3') = ToSet(toS3) \cup {Status(api)}
    BY <1>0, <2>1, AppendGrows, Appended
  <2>3. NotEnded'
    BY <2>1, <2>2 DEF Waiting, NotEnded, EndOf, Answered, AnswerOf
  <2> QED
    BY <2>1, <2>2, <2>3, WaitingGrows
<1>3. CASE Snapshot
  <2>1. /\ Quiet /\ Present(<<Status(api)>>, content, runtime) /\ UNCHANGED <<toBridge, s3Vars>>
        /\ <<Status(api)>> \in Seq(Statuses)
    BY <1>0, <1>3 DEF Snapshot, Status, Statuses
  <2> QED
    BY <1>0, <2>1, WaitingQueued
<1>4. CASE ApiConnects \/ ApiDrops
  <2>1. UNCHANGED <<toS3, toBridge, sender, staging, fields>>
    BY <1>4 DEF ApiConnects, ApiDrops, linkVars, s3Vars, stageVars
  <2> QED
    BY <2>1, WaitingStays
<1> QED
  BY <1>1, <1>2, <1>3, <1>4, WaitingSent, WaitingAnswered DEF Bridge

(* While a frame other than a heartbeat is to be taken, no commit stands    *)
(* behind it and no answer that is waited for is on its way.                *)
LEMMA NothingReleased ==
  ASSUME IInv, Waiting, NEW type, Take(type), type # "STATUS"
  PROVE  /\ sender.waiting => ~ Answered
         /\ \A f \in ToSet(toS3') : f.type # "COMMIT"
         /\ type # "COMMIT" => ~ Committing
<1>1. /\ 1 \in 1..Len(toS3) /\ Frame = toS3[1] /\ Frame \in ToSet(toS3) /\ Frame.type = type
      /\ \A f \in ToSet(toS3') : \E j \in 1..Len(toS3) : 1 < j /\ toS3[j] = f
      /\ toS3 \in Seq(S3Frames)
      /\ \A f \in ToSet(toS3) : f.type # type => f \in ToSet(toS3')
  BY Taken DEF IInv
<1>2. sender.waiting => ~ Answered
  BY <1>1 DEF Waiting, EndIsLast
<1>3. \A f \in ToSet(toS3') : f.type # "COMMIT"
  BY <1>1 DEF Waiting, CommitIsNext
<1> QED
  BY <1>1, <1>2, <1>3 DEF Committing

(* The end of the URL that is waited for is answered; a URL that is         *)
(* accepted has been staged.                                                *)
LEMMA WaitingEnded ==
  ASSUME IInv, IInv', Waiting, ReceiveUrlEnd
  PROVE  Waiting'
<1> DEFINE a == UrlAck(Frame.id, IF Finished THEN 0 ELSE 1)
<1>1. /\ Take("URL_END") /\ Rest /\ toBridge' = Append(toBridge, a) /\ a.id = Frame.id
      /\ (a.result = 0 => Finished) /\ staging' = staging
      /\ fields' = fields \/ fields' = fields \cup {"cover"}
      /\ Finished /\ atomic /\ staging => "cover" \in fields'
  BY DEF ReceiveUrlEnd, UrlAck, Stage, Show
<1> HIDE DEF a
<1>2. /\ toS3' \in Seq(S3Frames) /\ Thinned(toS3', toS3) /\ ToSet(toS3') \subseteq ToSet(toS3)
      /\ 1 \in 1..Len(toS3) /\ Frame = toS3[1] /\ Frame \in ToSet(toS3)
      /\ Frame.type = "URL_END" /\ toS3 \in Seq(S3Frames)
      /\ \A f \in ToSet(toS3') : \E j \in 1..Len(toS3) : 1 < j /\ toS3[j] = f
  BY <1>1, Taken DEF IInv
<1>3. sender' = sender /\ toBridge \in Seq(Acks) /\ (staging => atomic)
  BY <1>1 DEF Rest, bridgeVars, IInv, Displayed
<1>4. /\ sender.waiting => ~ Answered
      /\ \A f \in ToSet(toS3') : f.type # "COMMIT"
  BY <1>1, NothingReleased
<1>5. ToSet(toBridge') = ToSet(toBridge) \cup {a}
  BY <1>1, <1>3, Appended
<1>6. sender.phase # 0 => a.id # sender.id
  BY <1>1, <1>2 DEF Waiting, NotEnded, EndOf
<1>7. NotEnded'
  BY <1>2, <1>3, <1>5, <1>6 DEF Waiting, NotEnded, EndOf, Answered, AnswerOf
<1>8. EndIsLast'
  <2>1. SUFFICES ASSUME sender.waiting PROVE EndIsLast'
    BY <1>3 DEF EndIsLast
  <2>2. ASSUME NEW i \in 1..Len(toS3'), NEW j \in 1..Len(toS3'), i < j, EndOf(toS3[i])'
        PROVE  toS3'[j].type = "STATUS"
    <3>1. EndOf(toS3'[i])
      BY <1>3, <2>2 DEF EndOf
    <3>2. PICK m \in 1..Len(toS3), n \in 1..Len(toS3) :
                 toS3'[j] = toS3[m] /\ toS3'[i] = toS3[n] /\ (i < j <=> n < m)
      BY <1>2 DEF Thinned
    <3> QED
      BY <2>1, <2>2, <3>1, <3>2 DEF Waiting, EndIsLast
  <2>3. Answered' => a.id = sender.id
    BY <1>3, <1>4, <1>5, <2>1 DEF Answered, AnswerOf
  <2>4. ASSUME a.id = sender.id, NEW f \in ToSet(toS3')
        PROVE  f.type = "STATUS"
    <3>1. EndOf(toS3[1])
      BY <1>1, <1>2, <2>4 DEF EndOf
    <3> QED
      BY <1>2, <2>1, <2>4, <3>1 DEF Waiting, EndIsLast
  <2> QED
    BY <2>2, <2>3, <2>4 DEF EndIsLast
<1>9. CommitIsNext'
  <2>1. \A j \in 1..Len(toS3') : toS3'[j].type # "COMMIT"
    BY <1>2, <1>4 DEF ToSet
  <2> QED
    BY <2>1 DEF CommitIsNext
<1>10. CoverIsStaged'
  <2>1. ASSUME sender.waiting, Accepted', staging PROVE "cover" \in fields'
    <3>1. a.result = 0
      BY <1>3, <1>4, <1>5, <2>1 DEF Answered, Accepted, AnswerOf
    <3> QED
      BY <1>1, <1>3, <2>1, <3>1
  <2> QED
    BY <1>1, <1>3, <1>4, <2>1 DEF CoverIsStaged, Committing
<1> QED
  BY <1>7, <1>8, <1>9, <1>10 DEF Waiting

(* The order holds after every step of the S3.                              *)
LEMMA S3Waiting ==
  ASSUME IInv, IInv', Waiting, S3
  PROVE  Waiting'
<1>1. ASSUME NEW type, Take(type), Rest, toBridge' = toBridge,
             \/ staging' => staging /\ ("cover" \in fields => "cover" \in fields')
             \/ ~ Committing /\ ~ (sender.waiting /\ Accepted)
      PROVE  Waiting'
  <2>1. Thinned(toS3', toS3)
    BY <1>1, Taken
  <2>2. sender' = sender /\ ToSet(toBridge') \subseteq ToSet(toBridge)
    BY <1>1 DEF Rest, bridgeVars
  <2> QED
    BY <1>1, <2>1, <2>2, WaitingThins
<1>2. CASE ReceiveStatus
  BY <1>1, <1>2 DEF ReceiveStatus
<1>3. CASE ReceiveBegin
  <2>1. Take("BEGIN") /\ Rest /\ toBridge' = toBridge
    BY <1>3 DEF ReceiveBegin
  <2>2. ~ Committing /\ ~ (sender.waiting /\ Accepted)
    BY <2>1, NothingReleased DEF Answered, Accepted
  <2> QED
    BY <1>1, <2>1, <2>2
<1>4. CASE ReceiveText
  <2>1. /\ Take("TEXT") /\ Rest /\ toBridge' = toBridge /\ staging' = staging
        /\ ("cover" \in fields => "cover" \in fields')
    BY <1>4 DEF ReceiveText, Stage, Show
  <2> QED
    BY <1>1, <2>1
<1>5. CASE ReceiveUrlBegin
  BY <1>1, <1>5 DEF ReceiveUrlBegin, stageVars
<1>6. CASE ReceiveUrlChunk
  BY <1>1, <1>6 DEF ReceiveUrlChunk, stageVars
<1>7. CASE ReceiveCommit
  BY <1>1, <1>7 DEF ReceiveCommit
<1> QED
  BY <1>2, <1>3, <1>4, <1>5, <1>6, <1>7, WaitingEnded DEF S3

(* And after losses, outages and restarts.                                  *)
LEMMA EnvironmentWaiting ==
  ASSUME IInv, IInv', Waiting, Environment
  PROVE  Waiting'
<1>1. CASE Lose
  <2>1. Thinned(toS3', toS3) /\ ToSet(toBridge') \subseteq ToSet(toBridge)
    BY <1>1, LossThins
  <2>2. UNCHANGED <<sender, staging, fields>>
    BY <1>1 DEF Lose, bridgeVars, s3Vars, stageVars
  <2> QED
    BY <2>1, <2>2, WaitingThins
<1>2. CASE Outage \/ S3Restart
  <2>1. UNCHANGED <<sender, toBridge>> /\ toS3' = <<>> /\ ~ staging'
    BY <1>2 DEF Outage, S3Restart, bridgeVars
  <2>2. Thinned(toS3', toS3) /\ ToSet(toBridge') \subseteq ToSet(toBridge)
    BY <2>1 DEF Thinned
  <2> QED
    BY <2>1, <2>2, WaitingThins
<1>3. CASE BridgeRestart
  <2>1. sender' = NoSender /\ toS3' = <<>> /\ toBridge' = <<>> /\ ~ staging'
    BY <1>3 DEF BridgeRestart
  <2> QED
    BY <2>1 DEF Waiting, NotEnded, EndIsLast, CommitIsNext, CoverIsStaged, NoSender
<1> QED
  BY <1>1, <1>2, <1>3 DEF Environment

(* The order holds in every reachable state.                                *)
LEMMA InOrder == ASSUME IdsOutlast PROVE Spec => [](IInv /\ Young /\ Waiting)
<1>1. Init => Waiting
  BY DEF Init, Waiting, NotEnded, EndIsLast, CommitIsNext, CoverIsStaged, NoSender
<1>2. IInv /\ Young /\ Waiting /\ IInv' /\ [Next]_vars => Waiting'
  <2>1. ASSUME Waiting, UNCHANGED vars PROVE Waiting'
    BY <2>1, WaitingStays DEF vars, linkVars, bridgeVars, s3Vars, stageVars
  <2> QED
    BY <2>1, BridgeWaiting, S3Waiting, EnvironmentWaiting DEF Next
<1> QED
  BY <1>1, <1>2, StaysYoung, PTL DEF Spec

(* The commit never overtakes the cover it is waiting for: with ids that    *)
(* outlast the runtime states, losses and faults, the acknowledgement that  *)
(* the Bridge waits for is that of the URL the commit belongs to.           *)
THEOREM CommitComesAfterCover == ASSUME IdsOutlast PROVE Spec => []CommitFollowsCover
<1>1. IInv /\ Waiting => CommitFollowsCover
  <2> SUFFICES ASSUME IInv, Waiting, NEW i \in 1..Len(toS3), toS3[i].type = "COMMIT", staging
               PROVE  "cover" \in fields
    BY DEF CommitFollowsCover
  <2>1. toS3[i] \in ToSet(toS3)
    BY DEF IInv, ToSet
  <2> QED
    BY <2>1 DEF Waiting, CoverIsStaged, Committing
<1> QED
  BY <1>1, InOrder, PTL

------------------------------------------------------------------------------
(* What is shown belongs together *)

(* The order in which the stamps of presentations are given out: by session *)
(* of the integration, then by sequence.                                    *)
Precedes(a, b) ==
  a.session < b.session \/ (a.session = b.session /\ a.sequence <= b.sequence)

(* A text or a URL frame of the present content.                            *)
Current(f) ==
  /\ f.type = "TEXT" => f.value = content
  /\ IsUrl(f) => f.id = sender.id

(* A URL frame of the transfer queued last carries the present cover URL.   *)
Carries(f) ==
  IsUrl(f) /\ f.id = sender.id =>
    /\ f.type = "URL_BEGIN" => f.total = Len(Url(content))
    /\ f.type = "URL_CHUNK" => f.data = Url(content)[f.off + 1]

(* What is staged is of content n, but for a cover that is not what it says.*)
StagedOf(n) ==
  /\ "title" \in fields => staged.title = n
  /\ "artist" \in fields => staged.artist = n
  /\ "cover" \in fields /\ "staged" \notin detour => staged.cover = Cover(n)

(* Stamps only grow in the life of a Bridge, and behind the BEGIN of the    *)
(* presentation queued last comes only what belongs to it.                  *)
Announced ==
  /\ Precedes(presentation, runtime)
  /\ \A f \in ToSet(toS3) :
       (f.type = "BEGIN" => Precedes(f.stamp, presentation)) /\ Carries(f)
  /\ \A i, j \in 1..Len(toS3) :
       i < j /\ toS3[i] = Begin(presentation) => Current(toS3[j])

(* So it is once that BEGIN is taken; and what a commit in flight names is  *)
(* of one content.                                                          *)
StageMatches ==
  /\ staging => Precedes(staged.stamp, presentation)
  /\ staging /\ staged.stamp = presentation =>
       StagedOf(content) /\ \A f \in ToSet(toS3) : Current(f)
  /\ \A f \in ToSet(toS3) : f.type = "COMMIT" /\ staging /\ staged.stamp = f.stamp =>
       \E n \in 0..contents : StagedOf(n)

(* What the receiver holds of the transfer queued last begins its URL.      *)
UrlMatches ==
  Holds /\ receiver.id = sender.id =>
    /\ receiver.total = Len(Url(content))
    /\ \A k \in 1..Len(receiver.url) : receiver.url[k] = Url(content)[k]

Coherent == Announced /\ StageMatches /\ UrlMatches /\ Untorn

(* Stamps are ordered.                                                      *)
LEMMA StampOrder ==
  ASSUME NEW a \in Stamps, NEW b \in Stamps, NEW c \in Stamps
  PROVE  /\ Precedes(a, a)
         /\ Precedes(a, b) /\ Precedes(b, c) => Precedes(a, c)
         /\ Precedes(a, b) /\ Precedes(b, a) => a = b
<1>1. /\ a.session \in Nat /\ a.sequence \in Nat /\ b.session \in Nat /\ b.sequence \in Nat
      /\ c.session \in Nat /\ c.sequence \in Nat
      /\ (a.session = b.session /\ a.sequence = b.sequence => a = b)
  BY DEF Stamps
<1> QED
  BY <1>1 DEF Precedes

(* The next runtime state has a later stamp.                                *)
LEMMA NextIsLater ==
  ASSUME IInv, NEW st \in NextStamp
  PROVE  st \in Stamps /\ Precedes(runtime, st) /\ ~ Precedes(st, runtime)
<1>1. runtime \in Stamps
  BY DEF IInv
<1>2. runtime.session \in Nat /\ runtime.sequence \in Nat
  BY <1>1 DEF Stamps
<1>3. st = Stamp(runtime.session, runtime.sequence + 1) \/ st = Stamp(runtime.session + 1, 1)
  BY DEF NextStamp
<1>4. CASE st = Stamp(runtime.session, runtime.sequence + 1)
  BY <1>2, <1>4 DEF Stamp, Stamps, Precedes
<1>5. CASE st = Stamp(runtime.session + 1, 1)
  BY <1>2, <1>5 DEF Stamp, Stamps, Precedes
<1> QED
  BY <1>3, <1>4, <1>5

(* Frames taken or lost leave the announcements as they are.                *)
LEMMA AnnouncedThins ==
  ASSUME IInv, IInv', Announced, Thinned(toS3', toS3), ToSet(toS3') \subseteq ToSet(toS3),
         UNCHANGED <<content, runtime, presentation>>, sender'.id = sender.id
  PROVE  Announced'
<1>1. \A f \in ToSet(toS3') : (f.type = "BEGIN" => Precedes(f.stamp, presentation)) /\ Carries(f)'
  BY DEF Announced, Carries
<1>2. ASSUME NEW i \in 1..Len(toS3'), NEW j \in 1..Len(toS3'), i < j,
             toS3'[i] = Begin(presentation)
      PROVE  Current(toS3'[j])
  <2>1. PICK m \in 1..Len(toS3), n \in 1..Len(toS3) :
               toS3'[j] = toS3[m] /\ toS3'[i] = toS3[n] /\ (i < j <=> n < m)
    BY DEF Thinned
  <2> QED
    BY <1>2, <2>1 DEF Announced
<1>3. \A i, j \in 1..Len(toS3') :
        i < j /\ toS3'[i] = Begin(presentation) => Current(toS3[j])'
  BY <1>2 DEF Current
<1> QED
  BY <1>1, <1>3 DEF Announced, Precedes, Begin

(* So does a frame behind them that is current and no BEGIN.                *)
LEMMA AnnouncedGrows ==
  ASSUME IInv, IInv', Announced, NEW f, toS3' = Append(toS3, f), f.type # "BEGIN",
         Current(f), Carries(f),
         UNCHANGED <<content, runtime, presentation>>, sender'.id = sender.id
  PROVE  Announced'
<1>0. toS3 \in Seq(S3Frames)
  BY DEF IInv
<1>1. /\ Len(toS3') = Len(toS3) + 1 /\ toS3'[Len(toS3) + 1] = f
      /\ \A i \in 1..Len(toS3) : toS3'[i] = toS3[i]
      /\ ToSet(toS3') = ToSet(toS3) \cup {f}
  BY <1>0, Appended
<1>2. \A g \in ToSet(toS3') : (g.type = "BEGIN" => Precedes(g.stamp, presentation)) /\ Carries(g)'
  BY <1>1 DEF Announced, Carries
<1>3. ASSUME NEW i \in 1..Len(toS3'), NEW j \in 1..Len(toS3'), i < j,
             toS3'[i] = Begin(presentation)
      PROVE  Current(toS3'[j])
  <2>1. i \in 1..Len(toS3) /\ toS3'[i] = toS3[i]
    BY <1>0, <1>1, <1>3
  <2>2. CASE j = Len(toS3) + 1
    BY <1>1, <2>2
  <2>3. CASE j # Len(toS3) + 1
    <3>1. j \in 1..Len(toS3) /\ toS3'[j] = toS3[j]
      BY <1>0, <1>1, <2>3
    <3> QED
      BY <1>3, <2>1, <3>1 DEF Announced
  <2> QED
    BY <2>2, <2>3
<1>4. \A i, j \in 1..Len(toS3') :
        i < j /\ toS3'[i] = Begin(presentation) => Current(toS3[j])'
  BY <1>3 DEF Current
<1> QED
  BY <1>2, <1>4 DEF Announced, Precedes, Begin

(* What is staged stays so while it is not added to.                        *)
LEMMA StageStays ==
  ASSUME StageMatches, ToSet(toS3') \subseteq ToSet(toS3),
         UNCHANGED <<content, presentation, contents>>, sender'.id = sender.id,
         staging' => /\ staging /\ staged' = staged /\ fields' = fields
                     /\ ("staged" \in detour => "staged" \in detour')
  PROVE  StageMatches'
<1>1. ASSUME staging'
      PROVE  staging /\ staged' = staged /\ \A n : StagedOf(n) => StagedOf(n)'
  BY <1>1 DEF StagedOf
<1>2. \A f : Current(f) => Current(f)'
  BY DEF Current
<1>3. staging' => Precedes(staged'.stamp, presentation')
  BY <1>1 DEF StageMatches
<1>4. staging' /\ staged'.stamp = presentation' =>
        StagedOf(content)' /\ \A f \in ToSet(toS3') : Current(f)'
  BY <1>1, <1>2 DEF StageMatches, StagedOf
<1>5. \A f \in ToSet(toS3') : f.type = "COMMIT" /\ staging' /\ staged'.stamp = f.stamp =>
        \E n \in 0..contents' : StagedOf(n)'
  BY <1>1 DEF StageMatches
<1> QED
  BY <1>3, <1>4, <1>5 DEF StageMatches, Precedes

(* What the receiver holds stays so when neither end of the transfer moves. *)
LEMMA UrlStays ==
  ASSUME UrlMatches, content' = content, sender'.id = sender.id,
         Holds' => Holds /\ receiver' = receiver
  PROVE  UrlMatches'
  BY DEF UrlMatches

(* What is shown stays so, too.                                             *)
LEMMA UntornStays ==
  ASSUME IInv, IInv', Untorn, contents' \in {contents, contents + 1}, shown' = shown,
         detour \cap {"direct", "shown"} \subseteq detour'
  PROVE  Untorn'
<1>1. contents \in Nat
  BY DEF IInv, Counted
<1>2. 0..contents \subseteq 0..contents'
  BY <1>1
<1> QED
  BY <1>2 DEF Untorn

(* A presentation is announced by a stamp later than all before it, or, by  *)
(* a snapshot, with nothing in flight.                                      *)
LEMMA CoherentQueued ==
  ASSUME IdsOutlast, IInv, IInv', Young, Coherent, UNCHANGED <<toBridge, s3Vars>>,
         NEW stamp \in Stamps, NEW before \in Seq(Statuses), content' \in Contents,
         Present(before, content', stamp), runtime' = stamp,
         contents' \in {contents, contents + 1},
         \/ syncs < MaxSyncs /\ Precedes(runtime, stamp) /\ ~ Precedes(stamp, runtime)
         \/ Quiet /\ content' = content /\ runtime = stamp
  PROVE  Coherent'
<1> DEFINE n == content'
           news == Statuses \cup {Begin(stamp), Text("title", n), Text("artist", n)}
<1>1. toS3' \in Seq(S3Frames) /\ Grown(toS3', toS3, news)
  BY PresentGrows
<1>2. /\ \A f \in news : ~ IsUrl(f) /\ Current(f)' /\ f.type # "COMMIT"
      /\ \A f \in news : f.type = "BEGIN" => f.stamp = stamp
  BY DEF IsUrl, Current, Statuses, Begin, Text
<1> HIDE DEF news
<1>3. /\ toS3 \in Seq(S3Frames) /\ runtime \in Stamps /\ presentation \in Stamps
      /\ (staging => staged.stamp \in Stamps)
  BY DEF IInv, Displayed
<1>4. presentation' = stamp /\ QueueUrl(Url(n))
  BY DEF Present
<1>5. /\ \A f \in ToSet(toS3) : IsUrl(f) => f.id # sender'.id
      /\ Holds => receiver.id # sender'.id
  BY <1>4, FreshId
<1>6. ToSet(toS3') \subseteq ToSet(toS3) \cup news
  BY <1>1, <1>3, GrownHolds
<1>7. \A f \in ToSet(toS3') : IsUrl(f) => f.id # sender'.id
  BY <1>2, <1>5, <1>6
<1>8. Precedes(presentation, runtime) /\ Precedes(runtime, stamp)
  BY <1>3, StampOrder DEF Coherent, Announced
<1>9. ASSUME NEW st \in Stamps, Precedes(st, presentation)
      PROVE  Precedes(st, stamp) /\ (st = stamp => Quiet /\ st = presentation /\ content' = content)
  <2>1. Precedes(st, runtime)
    BY <1>3, <1>8, <1>9, StampOrder
  <2>2. Precedes(st, stamp)
    BY <1>3, <1>8, <2>1, StampOrder
  <2>3. ASSUME st = stamp
        PROVE  Quiet /\ st = presentation /\ content' = content
    <3>1. Quiet /\ content' = content /\ runtime = stamp
      BY <2>1, <2>3
    <3>2. st = presentation
      BY <1>3, <1>8, <1>9, <2>3, <3>1, StampOrder
    <3> QED
      BY <3>1, <3>2
  <2> QED
    BY <2>2, <2>3
<1>10. ASSUME NEW f \in ToSet(toS3), f.type = "BEGIN"
       PROVE  Precedes(f.stamp, stamp) /\ f.stamp # stamp
  <2>1. f.stamp \in Stamps
    <3>1. f \in S3Frames
      BY <1>3, ElementOf
    <3> QED
      BY <1>10, <3>1, FrameKinds DEF Begins
  <2>2. Precedes(f.stamp, presentation)
    BY <1>10 DEF Coherent, Announced
  <2>3. ~ Quiet
    BY <1>10 DEF Quiet, ToSet
  <2> QED
    BY <1>9, <2>1, <2>2, <2>3
<1>11. Announced'
  <2>1. \A f \in ToSet(toS3') : (f.type = "BEGIN" => Precedes(f.stamp, stamp)) /\ Carries(f)'
    <3>1. \A f \in ToSet(toS3') : f.type = "BEGIN" => Precedes(f.stamp, stamp)
      <4>1. Precedes(stamp, stamp)
        BY StampOrder
      <4> QED
        BY <1>2, <1>6, <1>10, <4>1
    <3> QED
      BY <1>7, <3>1 DEF Carries
  <2>2. ASSUME NEW i \in 1..Len(toS3'), NEW j \in 1..Len(toS3'), i < j,
               toS3'[i] = Begin(stamp)
        PROVE  Current(toS3[j])'
    <3>1. ~ (i <= Len(toS3))
      <4>1. SUFFICES ASSUME i <= Len(toS3) PROVE FALSE
        OBVIOUS
      <4>2. i \in 1..Len(toS3) /\ toS3[i] = Begin(stamp)
        BY <1>1, <1>3, <2>2, <4>1 DEF Grown
      <4>3. toS3[i] \in ToSet(toS3) /\ toS3[i].type = "BEGIN" /\ toS3[i].stamp = stamp
        BY <1>3, <4>2 DEF ToSet, Begin
      <4> QED
        BY <1>10, <4>3
    <3>2. ~ (j <= Len(toS3))
      BY <1>3, <2>2, <3>1
    <3>3. toS3'[j] \in news
      BY <1>1, <3>2 DEF Grown
    <3> QED
      BY <1>2, <3>3 DEF Current
  <2>3. Precedes(presentation, runtime)'
    BY <1>4, <1>8, StampOrder DEF Precedes
  <2> QED
    BY <1>4, <2>1, <2>2, <2>3 DEF Announced, Precedes, Begin
<1>12. UNCHANGED <<staging, staged, fields, detour, shown, receiver>>
  BY DEF s3Vars, stageVars
<1>13. StageMatches'
  <2>1. staging => Precedes(staged.stamp, stamp)
    BY <1>3, <1>9 DEF Coherent, StageMatches
  <2>2. ASSUME staging, staged.stamp = stamp
        PROVE  StagedOf(content)' /\ \A f \in ToSet(toS3') : Current(f)'
    <3>1. Quiet /\ staged.stamp = presentation /\ content' = content
      BY <1>3, <1>9, <2>2 DEF Coherent, StageMatches
    <3>2. StagedOf(content)
      BY <2>2, <3>1 DEF Coherent, StageMatches
    <3>3. StagedOf(content)'
      BY <1>12, <3>1, <3>2 DEF StagedOf
    <3>4. ToSet(toS3) = {}
      BY <3>1 DEF Quiet, ToSet
    <3> QED
      BY <1>2, <1>6, <3>3, <3>4
  <2>3. ASSUME NEW f \in ToSet(toS3'), f.type = "COMMIT", staging, staged.stamp = f.stamp
        PROVE  \E m \in 0..contents' : StagedOf(m)'
    <3>1. f \in ToSet(toS3)
      BY <1>2, <1>6, <2>3
    <3>2. PICK m \in 0..contents : StagedOf(m)
      BY <2>3, <3>1 DEF Coherent, StageMatches
    <3>3. m \in 0..contents'
      BY DEF IInv, Counted
    <3> QED
      BY <1>12, <3>2, <3>3 DEF StagedOf
  <2> QED
    BY <1>4, <1>12, <2>1, <2>2, <2>3 DEF StageMatches, Precedes
<1>14. UrlMatches'
  BY <1>5, <1>12 DEF UrlMatches, Holds
<1>15. Untorn'
  BY <1>12, UntornStays DEF Coherent
<1> QED
  BY <1>11, <1>13, <1>14, <1>15 DEF Coherent

(* One more frame of the present transfer, or a heartbeat.                  *)
LEMMA CoherentAppended ==
  ASSUME IInv, IInv', Coherent, NEW f, toS3' = Append(toS3, f),
         f.type \notin {"BEGIN", "COMMIT"}, Current(f), Carries(f),
         UNCHANGED <<content, runtime, presentation, contents, s3Vars>>, sender'.id = sender.id
  PROVE  Coherent'
<1>1. toS3 \in Seq(S3Frames)
  BY DEF IInv
<1>2. ToSet(toS3') = ToSet(toS3) \cup {f}
  BY <1>1, Appended
<1>3. Announced'
  BY AnnouncedGrows DEF Coherent
<1>4. UNCHANGED <<staging, staged, fields, detour, shown, receiver>>
  BY DEF s3Vars, stageVars
<1>5. StageMatches'
  <2>1. \A g : Current(g) => Current(g)'
    BY DEF Current
  <2>2. \A m : StagedOf(m) => StagedOf(m)'
    BY <1>4 DEF StagedOf
  <2>3. staging' => Precedes(staged'.stamp, presentation')
    BY <1>4 DEF Coherent, StageMatches
  <2>4. staging' /\ staged'.stamp = presentation' =>
          StagedOf(content)' /\ \A g \in ToSet(toS3') : Current(g)'
    <3>1. ASSUME staging, staged.stamp = presentation
          PROVE  StagedOf(content) /\ \A g \in ToSet(toS3') : Current(g)'
      BY <1>2, <2>1, <3>1 DEF Coherent, StageMatches
    <3> QED
      BY <1>4, <3>1 DEF StagedOf
  <2>5. \A g \in ToSet(toS3') : g.type = "COMMIT" /\ staging' /\ staged'.stamp = g.stamp =>
          \E m \in 0..contents' : StagedOf(m)'
    BY <1>2, <1>4, <2>2 DEF Coherent, StageMatches
  <2> QED
    BY <2>3, <2>4, <2>5 DEF StageMatches, Precedes
<1>6. UrlMatches'
  BY <1>4, UrlStays DEF Coherent, Holds
<1>7. Untorn'
  BY <1>4, UntornStays DEF Coherent
<1> QED
  BY <1>3, <1>5, <1>6, <1>7 DEF Coherent

(* The commit names the presentation queued last, and when that is staged,  *)
(* what is staged is of the present content.                                *)
LEMMA CoherentAnswered ==
  ASSUME IInv, IInv', Coherent, ReceiveUrlAck
  PROVE  Coherent'
<1>1. /\ UNCHANGED <<content, runtime, presentation, contents>>
      /\ UNCHANGED <<staging, staged, fields, detour, shown, receiver>>
      /\ sender' = sender \/ sender' = [sender EXCEPT !.waiting = FALSE]
      /\ toS3' = toS3 \/ toS3' = Append(toS3, Commit(presentation))
  BY DEF ReceiveUrlAck, s3Vars, stageVars, bounds
<1>2. sender'.id = sender.id
  BY <1>1 DEF IInv, SenderOK
<1>3. UrlMatches' /\ Untorn'
  BY <1>1, <1>2, UrlStays, UntornStays DEF Coherent, Holds
<1>4. CASE toS3' = toS3
  <2>1. Thinned(toS3', toS3) /\ ToSet(toS3') \subseteq ToSet(toS3)
    BY <1>4 DEF Thinned
  <2> QED
    BY <1>1, <1>2, <1>3, <2>1, AnnouncedThins, StageStays DEF Coherent
<1>5. CASE toS3' = Append(toS3, Commit(presentation))
  <2> DEFINE f == Commit(presentation)
  <2>1. f.type = "COMMIT" /\ f.stamp = presentation /\ ~ IsUrl(f)
    BY DEF Commit, IsUrl
  <2>2. toS3' = Append(toS3, f)
    BY <1>5
  <2> HIDE DEF f
  <2>3. Current(f) /\ Carries(f)
    BY <2>1 DEF Current, Carries
  <2>4. Announced'
    BY <1>1, <1>2, <2>1, <2>2, <2>3, AnnouncedGrows DEF Coherent
  <2>5. ToSet(toS3') = ToSet(toS3) \cup {f}
    <3>1. toS3 \in Seq(S3Frames)
      BY DEF IInv
    <3> QED
      BY <2>2, <3>1, Appended
  <2>6. \A m : StagedOf(m) => StagedOf(m)'
    BY <1>1 DEF StagedOf
  <2>7. ASSUME staging, staged.stamp = presentation
        PROVE  StagedOf(content)' /\ (\A g \in ToSet(toS3') : Current(g)') /\ StagedOf(content)
    <3>1. StagedOf(content) /\ \A g \in ToSet(toS3') : Current(g)
      BY <2>3, <2>5, <2>7 DEF Coherent, StageMatches
    <3> QED
      BY <1>1, <1>2, <3>1 DEF StagedOf, Current
  <2>8. ASSUME NEW g \in ToSet(toS3'), g.type = "COMMIT", staging, staged.stamp = g.stamp
        PROVE  \E m \in 0..contents : StagedOf(m)'
    <3>1. CASE g = f
      <4>1. content \in 0..contents
        BY DEF IInv, Counted
      <4>2. StagedOf(content)
        BY <2>1, <2>7, <2>8, <3>1
      <4> QED
        BY <2>6, <4>1, <4>2
    <3>2. CASE g \in ToSet(toS3)
      BY <2>6, <2>8, <3>2 DEF Coherent, StageMatches
    <3> QED
      BY <2>5, <3>1, <3>2
  <2>9. StageMatches'
    BY <1>1, <2>7, <2>8 DEF Coherent, StageMatches, Precedes
  <2> QED
    BY <1>3, <2>4, <2>9 DEF Coherent
<1> QED
  BY <1>1, <1>4, <1>5

(* What belongs together stays so with every step of the Bridge.            *)
LEMMA BridgeCoherent ==
  ASSUME IdsOutlast, IInv, IInv', Young, Coherent, Bridge
  PROVE  Coherent'
<1>0. /\ toS3 \in Seq(S3Frames) /\ runtime \in Stamps /\ presentation \in Stamps
      /\ content \in Contents /\ content' \in Contents /\ api \in BOOLEAN
  <2>1. MaxSyncs \in Nat
    BY PresentationBounds
  <2>2. Counted /\ Counted' /\ api \in BOOLEAN
    BY DEF IInv, Displayed
  <2>3. content \in Contents
    BY <2>1, <2>2 DEF Counted, Contents
  <2>4. content' \in Contents
    BY <2>1, <2>2 DEF Counted, Contents
  <2> QED
    BY <2>2, <2>3, <2>4 DEF IInv
<1>1. ASSUME UNCHANGED <<toS3, content, presentation, sender, contents, s3Vars>>,
             runtime' \in Stamps, Precedes(runtime, runtime')
      PROVE  Coherent'
  <2>1. UNCHANGED <<staging, staged, fields, detour, shown, receiver>>
    BY <1>1 DEF s3Vars, stageVars
  <2>2. Precedes(presentation, runtime')
    BY <1>0, <1>1, StampOrder DEF Coherent, Announced
  <2>3. Announced'
    BY <1>1, <2>2 DEF Coherent, Announced, Precedes, Carries, Current, Begin
  <2>4. StageMatches'
    BY <1>1, <2>1, StageStays DEF Coherent
  <2>5. UrlMatches' /\ Untorn'
    BY <1>1, <2>1, UrlStays, UntornStays DEF Coherent, Holds
  <2> QED
    BY <2>3, <2>4, <2>5 DEF Coherent
<1>2. ASSUME NEW s \in 0..(MaxFaults + 1), NEW q \in 0..MaxSyncs, Sync(Stamp(s, q))
      PROVE  Coherent'
  <2> DEFINE stamp == Stamp(s, q)
  <2>1. /\ syncs < MaxSyncs /\ stamp \in NextStamp /\ runtime' = stamp
        /\ UNCHANGED <<toBridge, s3Vars>>
    BY <1>2 DEF Sync
  <2>2. stamp \in Stamps /\ Precedes(runtime, stamp) /\ ~ Precedes(stamp, runtime)
    BY <2>1, NextIsLater
  <2>3. CASE /\ contents' = contents + 1 /\ content' = contents'
             /\ Present(<<>>, content', stamp)
    <3>1. <<>> \in Seq(Statuses)
      OBVIOUS
    <3> HIDE DEF stamp
    <3> QED
      BY <1>0, <2>1, <2>2, <2>3, <3>1, CoherentQueued
  <2>4. CASE UNCHANGED <<content, contents, toS3, presentation, sender>>
    BY <1>1, <2>1, <2>2, <2>4
  <2> QED
    BY <1>2, <2>3, <2>4 DEF Sync
<1>3. CASE SendStatus
  <2>1. /\ toS3' = Append(toS3, Status(api)) /\ Status(api).type = "STATUS"
        /\ UNCHANGED <<content, runtime, presentation, sender, contents, s3Vars>>
    BY <1>3 DEF SendStatus, Status, bridgeVars, bounds
  <2>2. Current(Status(api)) /\ Carries(Status(api))
    BY <2>1 DEF Current, Carries, IsUrl
  <2> QED
    BY <2>1, <2>2, CoherentAppended
<1>4. CASE Snapshot
  <2>1. /\ Quiet /\ Present(<<Status(api)>>, content', runtime) /\ UNCHANGED <<toBridge, s3Vars>>
        /\ content' = content /\ runtime' = runtime /\ contents' = contents
        /\ <<Status(api)>> \in Seq(Statuses)
    BY <1>0, <1>4 DEF Snapshot, Status, Statuses, bounds
  <2> QED
    BY <1>0, <2>1, CoherentQueued
<1>5. CASE SendUrl
  <2>1. /\ UNCHANGED <<content, runtime, presentation, contents, s3Vars>>
        /\ sender'.id = sender.id /\ sender.url = Url(content)
    BY <1>5, UrlSent DEF bounds
  <2>2. PICK f :
          /\ toS3' = Append(toS3, f) /\ f.id = sender.id
          /\ \/ f = UrlBegin(sender.id, Len(sender.url))
             \/ f = UrlChunk(sender.id, sender.offset, sender.url[sender.offset + 1])
             \/ f = UrlEnd(sender.id)
    BY <1>5, UrlSent
  <2>3. /\ f.type \in {"URL_BEGIN", "URL_CHUNK", "URL_END"}
        /\ f.type = "URL_BEGIN" => f.total = Len(Url(content))
        /\ f.type = "URL_CHUNK" => f.data = Url(content)[f.off + 1]
    <3>1. CASE f = UrlBegin(sender.id, Len(sender.url))
      BY <2>1, <3>1 DEF UrlBegin
    <3>2. CASE f = UrlChunk(sender.id, sender.offset, sender.url[sender.offset + 1])
      BY <2>1, <3>2 DEF UrlChunk
    <3>3. CASE f = UrlEnd(sender.id)
      BY <3>3 DEF UrlEnd
    <3> QED
      BY <2>2, <3>1, <3>2, <3>3
  <2>4. Current(f) /\ Carries(f) /\ f.type \notin {"BEGIN", "COMMIT"}
    BY <2>2, <2>3 DEF Current, Carries
  <2> QED
    BY <2>1, <2>2, <2>4, CoherentAppended
<1>6. CASE ApiConnects \/ ApiDrops
  <2>1. UNCHANGED <<toS3, content, runtime, presentation, sender, contents, s3Vars>>
    BY <1>6 DEF ApiConnects, ApiDrops, linkVars, bounds
  <2>2. runtime' \in Stamps /\ Precedes(runtime, runtime')
    BY <1>0, <2>1, StampOrder
  <2> QED
    BY <1>1, <2>1, <2>2
<1> QED
  BY <1>2, <1>3, <1>4, <1>5, <1>6, CoherentAnswered DEF Bridge

(* The BEGIN that is taken is that of the presentation queued last, or of   *)
(* one before it.                                                           *)
LEMMA CoherentBegun ==
  ASSUME IInv, IInv', Waiting, Coherent, ReceiveBegin
  PROVE  Coherent'
<1>1. /\ Take("BEGIN") /\ Rest /\ UNCHANGED <<receiver, shown>>
      /\ IF atomic THEN /\ staging' = TRUE /\ fields' = {} /\ staged'.stamp = Frame.stamp
                        /\ detour' = detour \ {"staged"}
                   ELSE UNCHANGED <<staging, staged, fields, detour>>
  BY DEF ReceiveBegin, NoStage
<1>2. /\ Thinned(toS3', toS3) /\ ToSet(toS3') \subseteq ToSet(toS3)
      /\ 1 \in 1..Len(toS3) /\ Frame = toS3[1] /\ Frame \in ToSet(toS3)
      /\ Frame \in S3Frames /\ Frame.type = "BEGIN"
      /\ \A f \in ToSet(toS3') : \E j \in 1..Len(toS3) : 1 < j /\ toS3[j] = f
  BY <1>1, Taken
<1>3. UNCHANGED <<content, runtime, presentation, sender, contents>> /\ sender'.id = sender.id
  BY <1>1 DEF Rest, bridgeVars, bounds
<1>4. Announced'
  BY <1>2, <1>3, AnnouncedThins DEF Coherent
<1>5. UrlMatches' /\ Untorn'
  <2>1. Holds' => Holds
    BY <1>1 DEF Holds
  <2>2. UrlMatches'
    BY <1>1, <1>3, <2>1, UrlStays DEF Coherent
  <2>3. detour \cap {"direct", "shown"} \subseteq detour'
    BY <1>1
  <2> QED
    BY <1>1, <1>3, <2>2, <2>3, UntornStays DEF Coherent
<1>6. CASE atomic
  <2>1. Frame \in Begins
    BY <1>2, FrameKinds
  <2>2. Precedes(Frame.stamp, presentation)
    BY <1>2 DEF Coherent, Announced
  <2>3. Frame.stamp = presentation => \A f \in ToSet(toS3') : Current(f)
    <3>1. Frame.stamp = presentation => Frame = Begin(presentation)
      BY <2>1 DEF Begins, Begin
    <3> QED
      BY <1>2, <3>1 DEF Coherent, Announced
  <2>4. \A m : StagedOf(m)'
    BY <1>1, <1>6 DEF StagedOf
  <2>5. \A f \in ToSet(toS3') : f.type # "COMMIT"
    BY <1>1, NothingReleased
  <2> QED
    BY <1>1, <1>3, <1>4, <1>5, <1>6, <2>2, <2>3, <2>4, <2>5
       DEF Coherent, StageMatches, Precedes, Current
<1>7. CASE ~ atomic
  <2>1. StageMatches'
    BY <1>1, <1>2, <1>3, <1>7, StageStays DEF Coherent
  <2> QED
    BY <1>4, <1>5, <2>1 DEF Coherent
<1> QED
  BY <1>6, <1>7

(* A field that is staged under the present stamp is of the present content.*)
LEMMA CoherentStaged ==
  ASSUME IInv, IInv', Waiting, Coherent, NEW type, type \notin {"STATUS", "COMMIT"}, Take(type),
         Rest, UNCHANGED <<shown, staging>>, UrlMatches',
         NEW f \in AllFields, NEW v, Stage(f, v),
         detour \subseteq detour', detour' \subseteq detour \cup {"staged"},
         staged.stamp = presentation =>
           v = (IF f = "cover" THEN Cover(content) ELSE content) \/ (f = "cover" /\ "staged" \in detour')
  PROVE  Coherent'
<1>1. /\ Thinned(toS3', toS3) /\ ToSet(toS3') \subseteq ToSet(toS3)
  BY Taken
<1>2. UNCHANGED <<content, runtime, presentation, sender, contents>> /\ sender'.id = sender.id
  BY DEF Rest, bridgeVars, bounds
<1>3. Announced' /\ Untorn'
  BY <1>1, <1>2, AnnouncedThins, UntornStays DEF Coherent
<1>4. /\ staged' = [staged EXCEPT ![f] = v] /\ fields' = fields \cup {f}
      /\ staged \in [stamp : Stamps, title : Contents, artist : Contents, cover : Contents]
      /\ f \in {"title", "artist", "cover"}
  BY DEF Stage, IInv, Displayed, AllFields
<1>5. /\ staged'.stamp = staged.stamp /\ staged'[f] = v
      /\ \A g \in AllFields \ {f} : staged'[g] = staged[g]
  BY <1>4 DEF AllFields
<1>6. ASSUME staging, staged.stamp = presentation
      PROVE  StagedOf(content)' /\ \A g \in ToSet(toS3') : Current(g)'
  <2>1. StagedOf(content) /\ \A g \in ToSet(toS3) : Current(g)
    BY <1>6 DEF Coherent, StageMatches
  <2>2. v = (IF f = "cover" THEN Cover(content) ELSE content) \/ (f = "cover" /\ "staged" \in detour')
    BY <1>6
  <2>3. /\ "title" \in fields' => staged'.title = content
        /\ "artist" \in fields' => staged'.artist = content
        /\ "cover" \in fields' /\ "staged" \notin detour' => staged'.cover = Cover(content)
    BY <1>4, <1>5, <2>1, <2>2 DEF StagedOf, AllFields
  <2> QED
    BY <1>1, <1>2, <2>1, <2>3 DEF StagedOf, Current
<1>7. \A g \in ToSet(toS3') : g.type # "COMMIT"
  BY NothingReleased
<1>8. StageMatches'
  BY <1>2, <1>5, <1>6, <1>7 DEF Coherent, StageMatches, Precedes
<1> QED
  BY <1>3, <1>8 DEF Coherent

(* A step that touches neither what is staged nor what is shown, unless it  *)
(* is recorded in detour.                                                   *)
LEMMA CoherentTaken ==
  ASSUME IInv, IInv', Coherent, NEW type, Take(type), Rest, UrlMatches',
         staging' => staging /\ UNCHANGED <<staged, fields>>,
         "staged" \in detour => "staged" \in detour',
         "direct" \in detour' \/ (shown' = shown /\ detour \cap {"direct", "shown"} \subseteq detour')
  PROVE  Coherent'
<1>1. /\ Thinned(toS3', toS3) /\ ToSet(toS3') \subseteq ToSet(toS3)
  BY Taken
<1>2. UNCHANGED <<content, runtime, presentation, sender, contents>> /\ sender'.id = sender.id
  BY DEF Rest, bridgeVars, bounds
<1>3. Announced' /\ StageMatches'
  BY <1>1, <1>2, AnnouncedThins, StageStays DEF Coherent
<1>4. Untorn'
  <2>1. CASE "direct" \in detour'
    BY <2>1 DEF Untorn
  <2>2. CASE shown' = shown /\ detour \cap {"direct", "shown"} \subseteq detour'
    BY <1>2, <2>2, UntornStays DEF Coherent
  <2> QED
    BY <2>1, <2>2
<1> QED
  BY <1>3, <1>4 DEF Coherent

(* The receiver holds the beginning of the URL it was told of last.         *)
LEMMA UrlReceived ==
  ASSUME IInv, Coherent, ReceiveUrlBegin \/ ReceiveUrlChunk \/ ReceiveUrlEnd
  PROVE  UrlMatches'
<1>1. Rest
  BY DEF ReceiveUrlBegin, ReceiveUrlChunk, ReceiveUrlEnd
<1>2. content' = content /\ sender' = sender
  BY <1>1 DEF Rest, bridgeVars
<1>3. receiver \in [active : BOOLEAN, id : 0..MaxId, total : Nat, url : Seq(Pieces)]
  BY DEF IInv, ReceiverOK
<1>4. CASE ReceiveUrlBegin
  <2>1. /\ Take("URL_BEGIN")
        /\ receiver' = [active |-> TRUE, id |-> Frame.id, total |-> Frame.total, url |-> <<>>]
    BY <1>4 DEF ReceiveUrlBegin
  <2>2. Frame \in ToSet(toS3) /\ Frame.type = "URL_BEGIN"
    BY <2>1, Taken
  <2>3. Carries(Frame)
    BY <2>2 DEF Coherent, Announced
  <2>4. Frame.id = sender.id => Frame.total = Len(Url(content))
    BY <2>2, <2>3 DEF Carries, IsUrl
  <2>5. receiver'.id = Frame.id /\ receiver'.total = Frame.total /\ Len(receiver'.url) = 0
    BY <2>1
  <2> QED
    BY <1>2, <2>4, <2>5 DEF UrlMatches
<1>5. CASE ReceiveUrlChunk
  <2>1. /\ Take("URL_CHUNK") /\ detour' = detour
    BY <1>5 DEF ReceiveUrlChunk
  <2>2. Frame \in ToSet(toS3) /\ Frame.type = "URL_CHUNK" /\ Frame \in S3Frames
    BY <2>1, Taken
  <2>3. Carries(Frame) /\ Frame.data \in Pieces
    <3>1. Frame.data \in Pieces
      BY <2>2, FrameKinds DEF UrlChunks
    <3> QED
      BY <2>2, <3>1 DEF Coherent, Announced
  <2>4. CASE receiver' = receiver
    BY <1>2, <2>1, <2>4, UrlStays DEF Coherent, Holds
  <2>5. CASE receiver' = NoReceiver
    BY <2>5 DEF UrlMatches, Holds, NoReceiver
  <2>6. CASE /\ receiver.active /\ Frame.id = receiver.id /\ Frame.off = Len(receiver.url)
             /\ receiver' = [receiver EXCEPT !.url = Append(@, Frame.data)]
    <3>1. /\ receiver'.url = Append(receiver.url, Frame.data) /\ receiver'.id = receiver.id
          /\ receiver'.total = receiver.total
      BY <1>3, <2>6
    <3>2. SUFFICES ASSUME Holds, receiver.id = sender.id
                   PROVE  /\ receiver'.total = Len(Url(content))
                          /\ \A k \in 1..Len(receiver'.url) : receiver'.url[k] = Url(content)[k]
      BY <1>2, <2>1, <2>6, <3>1 DEF UrlMatches, Holds
    <3>3. /\ receiver.total = Len(Url(content))
          /\ \A k \in 1..Len(receiver.url) : receiver.url[k] = Url(content)[k]
      BY <3>2 DEF Coherent, UrlMatches
    <3>4. Frame.data = Url(content)[Len(receiver.url) + 1]
      BY <2>2, <2>3, <2>6, <3>2 DEF Carries, IsUrl
    <3>5. /\ Len(receiver'.url) = Len(receiver.url) + 1
          /\ receiver'.url[Len(receiver.url) + 1] = Frame.data
          /\ \A k \in 1..Len(receiver.url) : receiver'.url[k] = receiver.url[k]
          /\ Len(receiver.url) \in Nat
      BY <1>3, <3>1, Appended
    <3>6. \A k \in 1..Len(receiver'.url) :
             k \in 1..Len(receiver.url) \/ k = Len(receiver.url) + 1
      BY <3>5
    <3> QED
      BY <3>1, <3>3, <3>4, <3>5, <3>6
  <2> QED
    BY <1>5, <2>4, <2>5, <2>6 DEF ReceiveUrlChunk
<1>6. CASE ReceiveUrlEnd
  BY <1>6 DEF ReceiveUrlEnd, UrlMatches, Holds, NoReceiver
<1> QED
  BY <1>4, <1>5, <1>6

(* A text of the present content is staged as that; one that is not staged  *)
(* takes the path kept for older firmware.                                  *)
LEMMA CoherentText ==
  ASSUME IInv, IInv', Waiting, Coherent, ReceiveText
  PROVE  Coherent'
<1>1. /\ Take("TEXT") /\ Rest /\ UNCHANGED <<toBridge, atomic, staging, last, receiver>>
      /\ \/ atomic /\ staging /\ Stage(Frame.field, Frame.value) /\ detour' = detour
         \/ /\ ~ staging /\ Show(Frame.field, Frame.value)
            /\ detour' = detour \cup {"direct"}
         \/ UNCHANGED <<staged, fields, shown, detour>>
  BY DEF ReceiveText
<1>2. Frame \in ToSet(toS3) /\ Frame.type = "TEXT" /\ Frame.field \in {"title", "artist"}
  <2>1. Frame \in ToSet(toS3) /\ Frame \in S3Frames /\ Frame.type = "TEXT"
    BY <1>1, Taken
  <2> QED
    BY <2>1, FrameKinds DEF Texts
<1>3. UrlMatches'
  <2>1. content' = content /\ sender' = sender
    BY <1>1 DEF Rest, bridgeVars
  <2>2. Holds' => Holds
    BY <1>1 DEF Holds
  <2> QED
    BY <1>1, <2>1, <2>2, UrlStays DEF Coherent
<1>4. CASE staging /\ Stage(Frame.field, Frame.value) /\ detour' = detour
  <2>1. staged.stamp = presentation => Frame.value = content
    BY <1>2, <1>4 DEF Coherent, StageMatches, Current
  <2>2. Frame.field \in AllFields /\ Frame.field # "cover" /\ shown' = shown
    BY <1>2, <1>4 DEF AllFields, Stage
  <2> QED
    BY <1>1, <1>3, <1>4, <2>1, <2>2, CoherentStaged
<1>5. CASE ~ staging /\ detour' = detour \cup {"direct"}
  BY <1>1, <1>3, <1>5, CoherentTaken
<1>6. CASE UNCHANGED <<staged, fields, shown, detour>>
  BY <1>1, <1>3, <1>6, CoherentTaken
<1> QED
  BY <1>1, <1>4, <1>5, <1>6

(* The whole of a URL that is staged under the present stamp is that of the *)
(* present content, or it is recorded that the receiver held another.       *)
LEMMA CoherentEnded ==
  ASSUME IInv, IInv', Waiting, Coherent, ReceiveUrlEnd
  PROVE  Coherent'
<1>1. /\ Take("URL_END") /\ Rest /\ staging' = staging
      /\ \/ /\ Finished /\ staging /\ Stage("cover", CoverOf(receiver.url))
            /\ detour' = IF "receiver" \in detour THEN detour \cup {"staged"} ELSE detour
         \/ /\ ~ (atomic /\ staging) /\ Show("cover", CoverOf(receiver.url))
            /\ detour' = detour \cup {"direct"}
         \/ UNCHANGED <<staged, fields, shown, detour>>
  BY DEF ReceiveUrlEnd
<1>2. UrlMatches'
  BY UrlReceived
<1>3. CASE /\ Finished /\ staging /\ Stage("cover", CoverOf(receiver.url))
           /\ detour' = IF "receiver" \in detour THEN detour \cup {"staged"} ELSE detour
  <2>1. ASSUME staged.stamp = presentation, "staged" \notin detour'
        PROVE  CoverOf(receiver.url) = Cover(content)
    <3>1. Frame \in ToSet(toS3) /\ Frame.type = "URL_END"
      BY <1>1, Taken
    <3>2. Frame.id = sender.id
      BY <1>3, <2>1, <3>1 DEF Coherent, StageMatches, Current, IsUrl
    <3>3. /\ receiver.active /\ receiver.id = sender.id /\ Len(receiver.url) = receiver.total
          /\ "receiver" \notin detour
      BY <1>3, <2>1, <3>2 DEF Finished
    <3>4. /\ Len(receiver.url) = Len(Url(content))
          /\ \A k \in 1..Len(receiver.url) : receiver.url[k] = Url(content)[k]
      BY <3>3 DEF Coherent, UrlMatches, Holds
    <3>5. content \in Contents /\ receiver.url \in Seq(Pieces)
      <4>1. MaxSyncs \in Nat
        BY PresentationBounds
      <4>2. Counted /\ ReceiverOK
        BY DEF IInv
      <4>3. content \in Contents
        BY <4>1, <4>2 DEF Counted, Contents
      <4> QED
        BY <4>2, <4>3 DEF ReceiverOK
    <3> QED
      BY <3>4, <3>5, CoverOfUrl
  <2>2. "cover" \in AllFields /\ shown' = shown
    BY <1>3 DEF AllFields, Stage
  <2>3. detour \subseteq detour' /\ detour' \subseteq detour \cup {"staged"}
    BY <1>3
  <2> QED
    BY <1>1, <1>2, <1>3, <2>1, <2>2, <2>3, CoherentStaged
<1>4. CASE ~ (atomic /\ staging) /\ detour' = detour \cup {"direct"}
  <2>1. ~ staging
    BY <1>4 DEF IInv, Displayed
  <2> QED
    BY <1>1, <1>2, <1>4, <2>1, CoherentTaken
<1>5. CASE UNCHANGED <<staged, fields, shown, detour>>
  BY <1>1, <1>2, <1>5, CoherentTaken
<1> QED
  BY <1>1, <1>3, <1>4, <1>5

(* A commit shows what is staged, which is of one content.                  *)
LEMMA CoherentCommitted ==
  ASSUME IInv, IInv', Coherent, ReceiveCommit
  PROVE  Coherent'
<1>1. /\ Take("COMMIT") /\ Rest /\ UNCHANGED <<receiver, staged>>
      /\ ("receiver" \in detour => "receiver" \in detour')
      /\ ("staged" \in detour => "staged" \in detour')
      /\ \/ /\ staging /\ Acceptable(Frame.stamp) /\ shown' = [f \in AllFields |-> staged[f]]
            /\ ("staged" \in detour => "shown" \in detour')
            /\ staging' = FALSE
         \/ UNCHANGED <<shown, detour, staging, fields>>
  BY DEF ReceiveCommit
<1>2. UNCHANGED <<content, runtime, presentation, sender, contents>> /\ sender'.id = sender.id
  BY <1>1 DEF Rest, bridgeVars, bounds
<1>3. UrlMatches'
  <2>1. Holds' => Holds
    BY <1>1 DEF Holds
  <2> QED
    BY <1>1, <1>2, <2>1, UrlStays DEF Coherent
<1>4. CASE UNCHANGED <<shown, detour, staging, fields>>
  BY <1>1, <1>3, <1>4, CoherentTaken
<1>5. CASE /\ staging /\ Acceptable(Frame.stamp) /\ shown' = [f \in AllFields |-> staged[f]]
           /\ ("staged" \in detour => "shown" \in detour') /\ staging' = FALSE
  <2>1. /\ Thinned(toS3', toS3) /\ ToSet(toS3') \subseteq ToSet(toS3)
        /\ Frame \in ToSet(toS3) /\ Frame.type = "COMMIT"
    BY <1>1, Taken
  <2>2. Announced' /\ StageMatches'
    BY <1>2, <1>5, <2>1, AnnouncedThins, StageStays DEF Coherent
  <2>3. PICK n \in 0..contents : StagedOf(n)
    BY <1>5, <2>1 DEF Coherent, StageMatches, Acceptable
  <2>4. "staged" \notin detour => shown' = Whole(n)
    <3>1. SUFFICES ASSUME "staged" \notin detour PROVE shown' = Whole(n)
      OBVIOUS
    <3>2. fields = AllFields
      BY <1>5 DEF Acceptable
    <3>3. staged.title = n /\ staged.artist = n /\ staged.cover = Cover(n)
      BY <2>3, <3>1, <3>2 DEF StagedOf, AllFields
    <3> QED
      BY <1>5, <3>3 DEF Whole, AllFields
  <2>5. Untorn'
    BY <1>2, <1>5, <2>3, <2>4 DEF Untorn, Whole, Cover, Url
  <2> QED
    BY <1>3, <2>2, <2>5 DEF Coherent
<1> QED
  BY <1>1, <1>4, <1>5

(* What belongs together stays so with every step of the S3.                *)
LEMMA S3Coherent ==
  ASSUME IInv, IInv', Waiting, Coherent, S3
  PROVE  Coherent'
<1>1. CASE ReceiveStatus
  <2>1. /\ Take("STATUS") /\ Rest /\ UNCHANGED <<staged, receiver, shown, detour>>
        /\ (staging' => staging /\ fields' = fields)
    BY <1>1 DEF ReceiveStatus
  <2>2. UrlMatches'
    <3>1. content' = content /\ sender'.id = sender.id
      BY <2>1 DEF Rest, bridgeVars
    <3> QED
      BY <2>1, <3>1, UrlStays DEF Coherent, Holds
  <2> QED
    BY <2>1, <2>2, CoherentTaken
<1>2. CASE ReceiveUrlBegin \/ ReceiveUrlChunk
  <2>1. PICK type : Take(type)
    BY <1>2 DEF ReceiveUrlBegin, ReceiveUrlChunk
  <2>2. /\ Rest /\ UNCHANGED <<staging, staged, fields, shown>>
        /\ ("staged" \in detour => "staged" \in detour')
        /\ detour \cap {"direct", "shown"} \subseteq detour'
    BY <1>2 DEF ReceiveUrlBegin, ReceiveUrlChunk, stageVars
  <2>3. UrlMatches'
    BY <1>2, UrlReceived
  <2> QED
    BY <2>1, <2>2, <2>3, CoherentTaken
<1> QED
  BY <1>1, <1>2, CoherentBegun, CoherentText, CoherentEnded, CoherentCommitted DEF S3

(* And with losses, outages and restarts.                                   *)
LEMMA EnvironmentCoherent ==
  ASSUME IInv, IInv', Coherent, Environment
  PROVE  Coherent'
<1>1. CASE Lose
  <2>1. Thinned(toS3', toS3) /\ ToSet(toS3') \subseteq ToSet(toS3)
    BY <1>1, LossThins
  <2>2. /\ UNCHANGED <<content, runtime, presentation, sender, contents>> /\ sender'.id = sender.id
        /\ UNCHANGED <<staging, staged, fields, receiver, shown, detour>>
    BY <1>1 DEF Lose, bridgeVars, s3Vars, stageVars
  <2>3. Announced' /\ StageMatches'
    BY <2>1, <2>2, AnnouncedThins, StageStays DEF Coherent
  <2>4. UrlMatches' /\ Untorn'
    BY <2>2, UrlStays, UntornStays DEF Coherent, Holds
  <2> QED
    BY <2>3, <2>4 DEF Coherent
<1>2. ASSUME toS3' = <<>>, ~ staging', contents' = contents, Precedes(presentation', runtime')
      PROVE  Announced' /\ StageMatches'
  <2>1. ToSet(toS3') = {}
    BY <1>2 DEF ToSet
  <2>2. Announced'
    BY <1>2, <2>1 DEF Announced, Precedes
  <2>3. StageMatches'
    BY <1>2, <2>1 DEF StageMatches
  <2> QED
    BY <2>2, <2>3
<1>3. CASE Outage
  <2>1. /\ toS3' = <<>> /\ ~ staging' /\ contents' = contents
        /\ UNCHANGED <<bridgeVars, receiver, shown, detour>>
    BY <1>3 DEF Outage, Fault
  <2>2. Precedes(presentation', runtime')
    BY <2>1 DEF Coherent, Announced, bridgeVars
  <2>3. UrlMatches' /\ Untorn'
    BY <2>1, UrlStays, UntornStays DEF Coherent, Holds, bridgeVars
  <2> QED
    BY <1>2, <2>1, <2>2, <2>3 DEF Coherent
<1>4. CASE BridgeRestart
  <2>1. /\ toS3' = <<>> /\ ~ staging' /\ contents' = contents /\ shown' = shown
        /\ presentation' = Stamp(0, 0) /\ runtime' = runtime /\ ~ Holds'
        /\ detour \subseteq detour'
    BY <1>4 DEF BridgeRestart, Fault, Holds
  <2>2. Precedes(presentation', runtime')
    <3>1. runtime.session \in Nat /\ runtime.sequence \in Nat
      BY DEF IInv, Stamps
    <3> QED
      BY <2>1, <3>1 DEF Precedes, Stamp
  <2>3. UrlMatches' /\ Untorn'
    BY <2>1, UntornStays DEF Coherent, UrlMatches
  <2> QED
    BY <1>2, <2>1, <2>2, <2>3 DEF Coherent
<1>5. CASE S3Restart
  <2>1. /\ toS3' = <<>> /\ ~ staging' /\ contents' = contents /\ shown' = Whole(0)
        /\ UNCHANGED bridgeVars /\ ~ Holds'
    BY <1>5 DEF S3Restart, Fault, Holds, NoReceiver
  <2>2. Precedes(presentation', runtime')
    BY <2>1 DEF Coherent, Announced, bridgeVars
  <2>3. 0 \in 0..contents'
    BY <2>1 DEF IInv, Counted
  <2>4. UrlMatches' /\ Untorn'
    BY <2>1, <2>3 DEF UrlMatches, Untorn, Whole, Cover, Url
  <2> QED
    BY <1>2, <2>1, <2>2, <2>4 DEF Coherent
<1> QED
  BY <1>1, <1>3, <1>4, <1>5 DEF Environment

(* Title, artist and cover on the display belong to one track: for every    *)
(* number of tracks, losses and faults that the ids of URL transfers        *)
(* outlast, with the exceptions that detour records.                        *)
THEOREM ShownTogether == ASSUME IdsOutlast PROVE Spec => []Untorn
<1>1. Init => Coherent
  <2> SUFFICES ASSUME Init PROVE Coherent
    OBVIOUS
  <2>1. Announced
    BY DEF Init, Announced, Precedes, Stamp, ToSet
  <2>2. StageMatches
    BY DEF Init, StageMatches, ToSet
  <2>3. UrlMatches
    BY DEF Init, UrlMatches, Holds, NoReceiver
  <2>4. Untorn
    BY DEF Init, Untorn
  <2> QED
    BY <2>1, <2>2, <2>3, <2>4 DEF Coherent
<1>2. IInv /\ Young /\ Waiting /\ Coherent /\ IInv' /\ [Next]_vars => Coherent'
  <2>1. ASSUME IInv, IInv', Coherent, UNCHANGED vars PROVE Coherent'
    <3>1. /\ UNCHANGED <<toS3, content, runtime, presentation, sender, contents>>
          /\ UNCHANGED <<staging, staged, fields, receiver, shown, detour>>
      BY <2>1 DEF vars, linkVars, bridgeVars, s3Vars, stageVars, bounds
    <3>2. Thinned(toS3', toS3) /\ ToSet(toS3') \subseteq ToSet(toS3) /\ sender'.id = sender.id
      BY <3>1 DEF Thinned
    <3>3. Announced' /\ StageMatches'
      BY <2>1, <3>1, <3>2, AnnouncedThins, StageStays DEF Coherent
    <3>4. UrlMatches' /\ Untorn'
      BY <2>1, <3>1, <3>2, UrlStays, UntornStays DEF Coherent, Holds
    <3> QED
      BY <3>3, <3>4 DEF Coherent
  <2> QED
    BY <2>1, BridgeCoherent, S3Coherent, EnvironmentCoherent DEF Next
<1>3. Coherent => Untorn
  BY DEF Coherent
<1> QED
  BY <1>1, <1>2, <1>3, InOrder, PTL DEF Spec

------------------------------------------------------------------------------
(* The display never goes back *)

(* What a frame names was pushed.                                           *)
Pushed(g) ==
  /\ g.type = "TEXT" => g.value <= contents
  /\ g.type = "URL_CHUNK" => g.data[1] <= contents

AllPushed ==
  /\ content \in {0, contents}
  /\ \A f \in AllFields : shown[f] <= contents /\ staged[f] <= contents
  /\ \A g \in ToSet(toS3) : Pushed(g)
  /\ \A k \in 1..Len(receiver.url) : receiver.url[k][1] <= contents

SameText(g, h) == g.type = "TEXT" /\ h.type = "TEXT" /\ g.field = h.field

(* The texts of a field are in flight in the order of their tracks,         *)
InTurn ==
  \A i, j \in 1..Len(toS3) :
    i < j /\ SameText(toS3[i], toS3[j]) => toS3[i].value <= toS3[j].value

(* behind what is staged and what is shown of that field, and what is       *)
(* staged is behind what is shown.                                          *)
Ahead(f, n) == shown[f] <= n /\ (staging /\ f \in fields => staged[f] <= n)
TextsAhead == \A g \in ToSet(toS3) : g.type = "TEXT" => Ahead(g.field, g.value)
StageAhead == \A f \in {"title", "artist"} : staging /\ f \in fields => shown[f] <= staged[f]

Forward == AllPushed /\ InTurn /\ TextsAhead /\ StageAhead

(* Frames taken or lost leave the order as it is.                           *)
LEMMA InTurnThins ==
  ASSUME InTurn, Thinned(toS3', toS3)
  PROVE  InTurn'
<1> SUFFICES ASSUME NEW i \in 1..Len(toS3'), NEW j \in 1..Len(toS3'), i < j,
                    SameText(toS3'[i], toS3'[j])
             PROVE  toS3'[i].value <= toS3'[j].value
  BY DEF InTurn, SameText
<1>1. PICK m \in 1..Len(toS3), n \in 1..Len(toS3) :
             toS3'[j] = toS3[m] /\ toS3'[i] = toS3[n] /\ (i < j <=> n < m)
  BY DEF Thinned
<1> QED
  BY <1>1 DEF InTurn

(* So do frames behind them whose texts are of a track as late as any.      *)
LEMMA InTurnGrows ==
  ASSUME IInv, InTurn, NEW n \in Nat, NEW F, Grown(toS3', toS3, F),
         \A g \in ToSet(toS3) : g.type = "TEXT" => g.value <= n,
         \A g \in F : g.type = "TEXT" => g.value = n
  PROVE  InTurn'
<1>0. toS3 \in Seq(S3Frames)
  BY DEF IInv
<1> SUFFICES ASSUME NEW i \in 1..Len(toS3'), NEW j \in 1..Len(toS3'), i < j,
                    SameText(toS3'[i], toS3'[j])
             PROVE  toS3'[i].value <= toS3'[j].value
  BY DEF InTurn, SameText
<1>1. ASSUME NEW k \in 1..Len(toS3')
      PROVE  IF k <= Len(toS3)
             THEN k \in 1..Len(toS3) /\ toS3'[k] = toS3[k] /\ toS3[k] \in ToSet(toS3)
             ELSE toS3'[k] \in F
  <2>1. k <= Len(toS3) => k \in 1..Len(toS3)
    BY <1>0
  <2> QED
    BY <2>1 DEF Grown, ToSet
<1>2. CASE j <= Len(toS3)
  <2>1. i <= Len(toS3)
    BY <1>0, <1>2
  <2> QED
    BY <1>1, <1>2, <2>1 DEF InTurn
<1>3. CASE ~ (j <= Len(toS3))
  <2>1. toS3'[j].value = n
    BY <1>1, <1>3 DEF SameText
  <2>2. toS3'[i].type = "TEXT" => toS3'[i].value <= n
    BY <1>1
  <2> QED
    BY <2>1, <2>2 DEF SameText
<1> QED
  BY <1>2, <1>3

(* The fields hold tracks.                                                  *)
LEMMA FieldsTyped ==
  ASSUME IInv
  PROVE  \A f \in AllFields : shown[f] \in Nat /\ staged[f] \in Nat
<1>1. Contents \subseteq Nat
  BY PresentationBounds DEF Contents
<1>2. \A f \in AllFields : shown[f] \in Contents
  BY DEF IInv, Displayed
<1>3. staged.title \in Contents /\ staged.artist \in Contents /\ staged.cover \in Contents
  BY DEF IInv, Displayed
<1>4. \A f \in AllFields : staged[f] \in Contents
  BY <1>3 DEF AllFields
<1> QED
  BY <1>1, <1>2, <1>4

(* Frames of the Bridge name the track pushed last, or none: the display    *)
(* stays where it is.                                                       *)
LEMMA ForwardQueued ==
  ASSUME IInv, IInv', Forward, UNCHANGED s3Vars, NEW F, Grown(toS3', toS3, F),
         contents' \in {contents, contents + 1}, content' \in {0, contents'},
         \A g \in F : /\ g.type = "TEXT" => g.value = contents' /\ g.field \in AllFields
                      /\ g.type = "URL_CHUNK" => g.data[1] <= contents'
  PROVE  Forward'
<1>1. /\ contents \in Nat /\ contents' \in Nat /\ contents <= contents'
      /\ toS3 \in Seq(S3Frames) /\ toS3' \in Seq(S3Frames)
  BY DEF IInv, Counted
<1>2. UNCHANGED <<staging, staged, fields, receiver, shown>>
  BY DEF s3Vars, stageVars
<1>3. ToSet(toS3') \subseteq ToSet(toS3) \cup F
  BY <1>1, GrownHolds
<1>4. \A f \in AllFields : shown[f] \in Nat /\ staged[f] \in Nat
  BY FieldsTyped
<1>5. \A g \in ToSet(toS3) : /\ g.type = "TEXT" => g.value \in Nat
                             /\ g.type = "URL_CHUNK" => g.data[1] \in Nat
  <2> SUFFICES ASSUME NEW g \in ToSet(toS3)
               PROVE  /\ g.type = "TEXT" => g.value \in Nat
                      /\ g.type = "URL_CHUNK" => g.data[1] \in Nat
    OBVIOUS
  <2>1. g \in S3Frames
    BY <1>1, ElementOf
  <2>2. (g.type = "TEXT" => g \in Texts) /\ (g.type = "URL_CHUNK" => g \in UrlChunks)
    BY <2>1, FrameKinds
  <2> QED
    BY <2>2, PresentationBounds DEF Texts, UrlChunks, Pieces, Contents
<1>6. /\ \A g \in ToSet(toS3) : g.type = "TEXT" => g.value <= contents'
      /\ \A g \in ToSet(toS3) : g.type = "URL_CHUNK" => g.data[1] <= contents'
  BY <1>1, <1>5 DEF Forward, AllPushed, Pushed
<1>7. AllPushed'
  <2>1. \A f \in AllFields : shown[f] <= contents' /\ staged[f] <= contents'
    BY <1>1, <1>4 DEF Forward, AllPushed
  <2>2. \A g \in ToSet(toS3') : Pushed(g)'
    BY <1>1, <1>3, <1>6 DEF Pushed
  <2>3. \A k \in 1..Len(receiver.url) : receiver.url[k][1] <= contents'
    <3> SUFFICES ASSUME NEW k \in 1..Len(receiver.url) PROVE receiver.url[k][1] <= contents'
      OBVIOUS
    <3>1. receiver.url[k] \in Pieces
      BY DEF IInv, ReceiverOK
    <3>2. receiver.url[k][1] \in Nat /\ receiver.url[k][1] <= contents
      BY <3>1, PresentationBounds DEF Pieces, Contents, Forward, AllPushed
    <3> QED
      BY <1>1, <3>2
  <2> QED
    BY <1>2, <2>1, <2>2, <2>3 DEF AllPushed
<1>8. InTurn'
  BY <1>1, <1>6, InTurnGrows DEF Forward
<1>9. TextsAhead'
  <2> SUFFICES ASSUME NEW g \in ToSet(toS3'), g.type = "TEXT"
               PROVE  Ahead(g.field, g.value)
    BY <1>2 DEF TextsAhead, Ahead
  <2>1. CASE g \in ToSet(toS3)
    BY <2>1 DEF Forward, TextsAhead
  <2>2. CASE g \in F
    <3>1. g.value = contents' /\ g.field \in AllFields
      BY <2>2
    <3>2. shown[g.field] <= contents' /\ staged[g.field] <= contents'
      BY <1>1, <1>4, <3>1 DEF Forward, AllPushed
    <3> QED
      BY <3>1, <3>2 DEF Ahead
  <2> QED
    BY <1>3, <2>1, <2>2
<1>10. StageAhead'
  BY <1>2 DEF Forward, StageAhead
<1> QED
  BY <1>7, <1>8, <1>9, <1>10 DEF Forward

(* So it goes forward with every step of the Bridge.                        *)
LEMMA BridgeForward ==
  ASSUME IInv, IInv', Forward, Bridge
  PROVE  Forward'
<1>0. /\ toS3 \in Seq(S3Frames) /\ contents \in Nat /\ content \in Contents
      /\ content' \in Contents /\ content \in {0, contents} /\ api \in BOOLEAN
  <2>1. Counted /\ Counted' /\ api \in BOOLEAN /\ MaxSyncs \in Nat
    BY PresentationBounds DEF IInv, Displayed
  <2>2. content \in Contents /\ content' \in Contents /\ contents \in Nat
    BY <2>1 DEF Counted, Contents
  <2> QED
    BY <2>1, <2>2 DEF IInv, Forward, AllPushed
<1>1. ASSUME UNCHANGED <<toS3, content, contents, s3Vars>>
      PROVE  Forward'
  <2>1. Grown(toS3', toS3, {})
    BY <1>0, <1>1 DEF Grown
  <2> QED
    BY <1>0, <1>1, <2>1, ForwardQueued
<1>2. ASSUME UNCHANGED <<content, contents, s3Vars>>, NEW f \in S3Frames, toS3' = Append(toS3, f),
             f.type # "TEXT", f.type = "URL_CHUNK" => f.data[1] <= contents
      PROVE  Forward'
  <2>1. Grown(toS3', toS3, {f})
    BY <1>0, <1>2, AppendGrows
  <2> QED
    BY <1>0, <1>2, <2>1, ForwardQueued
<1>3. ASSUME UNCHANGED s3Vars, content' = contents', contents' \in {contents, contents + 1},
             NEW stamp \in Stamps, NEW before \in Seq(Statuses),
             Present(before, content', stamp)
      PROVE  Forward'
  <2> DEFINE n == content'
             F == Statuses \cup {Begin(stamp), Text("title", n), Text("artist", n)}
  <2>1. Grown(toS3', toS3, F)
    BY <1>0, <1>3, PresentGrows
  <2>2. \A g \in F : /\ g.type = "TEXT" => g.value = n /\ g.field \in AllFields
                     /\ g.type # "URL_CHUNK"
    BY DEF Statuses, Begin, Text, AllFields
  <2> HIDE DEF F
  <2> QED
    BY <1>3, <2>1, <2>2, ForwardQueued
<1>4. ASSUME NEW s \in 0..(MaxFaults + 1), NEW q \in 0..MaxSyncs, Sync(Stamp(s, q))
      PROVE  Forward'
  <2> DEFINE stamp == Stamp(s, q)
  <2>1. stamp \in NextStamp /\ UNCHANGED s3Vars
    BY <1>4 DEF Sync
  <2>2. stamp \in Stamps
    BY <2>1, NextIsLater
  <2>3. CASE /\ contents' = contents + 1 /\ content' = contents'
             /\ Present(<<>>, content', stamp)
    <3>1. <<>> \in Seq(Statuses)
      OBVIOUS
    <3> HIDE DEF stamp
    <3> QED
      BY <1>3, <2>1, <2>2, <2>3, <3>1
  <2>4. CASE UNCHANGED <<content, contents, toS3, presentation, sender>>
    BY <1>1, <2>1, <2>4
  <2> QED
    BY <1>4, <2>3, <2>4 DEF Sync
<1>5. CASE SendStatus
  <2>1. /\ toS3' = Append(toS3, Status(api)) /\ UNCHANGED <<content, contents, s3Vars>>
    BY <1>5 DEF SendStatus, bridgeVars, bounds
  <2>2. Status(api) \in S3Frames /\ Status(api).type = "STATUS"
    BY <1>0 DEF Status, S3Frames, Statuses
  <2> QED
    BY <1>2, <2>1, <2>2
<1>6. CASE Snapshot
  <2>1. /\ Present(<<Status(api)>>, content', runtime) /\ UNCHANGED s3Vars
        /\ content' = content /\ contents' = contents /\ content # 0
    BY <1>6 DEF Snapshot, bounds
  <2>2. runtime \in Stamps /\ <<Status(api)>> \in Seq(Statuses)
    BY <1>0 DEF IInv, Status, Statuses
  <2> QED
    BY <1>0, <1>3, <2>1, <2>2
<1>7. CASE SendUrl
  <2>1. /\ UNCHANGED <<content, contents, s3Vars>>
        /\ sender.url = Url(content) /\ sender.id \in 1..MaxId /\ content # 0
    BY <1>7, UrlSent DEF bounds
  <2>2. PICK f :
          /\ toS3' = Append(toS3, f)
          /\ \/ f = UrlBegin(sender.id, Len(sender.url))
             \/ /\ f = UrlChunk(sender.id, sender.offset, sender.url[sender.offset + 1])
                /\ sender.offset < Len(sender.url)
             \/ f = UrlEnd(sender.id)
    BY <1>7, UrlSent
  <2>3. /\ Url(content) \in Seq(Pieces) /\ Len(Url(content)) \in Nat
        /\ \A i \in 1..Len(Url(content)) : Url(content)[i] = <<content, i>>
    BY <1>0, UrlTyped
  <2>4. sender.offset \in Nat
    BY DEF IInv, SenderOK
  <2>5. f \in S3Frames /\ f.type # "TEXT" /\ (f.type = "URL_CHUNK" => f.data[1] <= contents)
    <3>1. CASE f = UrlBegin(sender.id, Len(sender.url))
      BY <2>1, <2>3, <3>1 DEF UrlBegin, S3Frames, UrlBegins
    <3>2. CASE /\ f = UrlChunk(sender.id, sender.offset, sender.url[sender.offset + 1])
               /\ sender.offset < Len(sender.url)
      <4>1. sender.offset + 1 \in 1..Len(Url(content))
        BY <2>1, <2>3, <2>4, <3>2
      <4>2. sender.url[sender.offset + 1] = <<content, sender.offset + 1>>
        BY <2>1, <2>3, <4>1
      <4>3. <<content, sender.offset + 1>> \in Pieces
        BY <1>0, <2>4 DEF Pieces
      <4>4. f = [type |-> "URL_CHUNK", id |-> sender.id, off |-> sender.offset,
                 data |-> <<content, sender.offset + 1>>]
        BY <3>2, <4>2 DEF UrlChunk
      <4>5. f \in UrlChunks
        BY <2>1, <2>4, <4>3, <4>4 DEF UrlChunks
      <4>6. f.data[1] = content /\ content <= contents
        BY <1>0, <2>1, <4>4
      <4> QED
        BY <4>4, <4>5, <4>6 DEF S3Frames
    <3>3. CASE f = UrlEnd(sender.id)
      BY <2>1, <3>3 DEF UrlEnd, S3Frames, UrlEnds
    <3> QED
      BY <2>2, <3>1, <3>2, <3>3
  <2> QED
    BY <1>2, <2>1, <2>2, <2>5
<1>8. CASE ReceiveUrlAck
  <2>1. /\ UNCHANGED <<content, contents, s3Vars>>
        /\ toS3' = toS3 \/ toS3' = Append(toS3, Commit(presentation))
    BY <1>8 DEF ReceiveUrlAck, bounds
  <2>2. Commit(presentation) \in S3Frames /\ Commit(presentation).type = "COMMIT"
    BY DEF IInv, Commit, S3Frames, Commits
  <2> QED
    BY <1>1, <1>2, <2>1, <2>2
<1>9. CASE ApiConnects \/ ApiDrops
  <2>1. UNCHANGED <<toS3, content, contents, s3Vars>>
    BY <1>9 DEF ApiConnects, ApiDrops, linkVars, bounds
  <2> QED
    BY <1>1, <2>1
<1> QED
  BY <1>4, <1>5, <1>6, <1>7, <1>8, <1>9 DEF Bridge

(* What is left of the queue keeps it going forward, once the texts are     *)
(* ahead of what is staged and shown, and what these hold was pushed.       *)
LEMMA ForwardThins ==
  ASSUME Forward, Thinned(toS3', toS3), ToSet(toS3') \subseteq ToSet(toS3),
         contents' = contents, content' \in {0, content},
         \A f \in AllFields : shown'[f] <= contents /\ staged'[f] <= contents,
         \A k \in 1..Len(receiver'.url) : receiver'.url[k][1] <= contents,
         TextsAhead', StageAhead'
  PROVE  Forward'
<1>1. InTurn'
  BY InTurnThins DEF Forward
<1>2. AllPushed'
  BY DEF Forward, AllPushed, Pushed
<1> QED
  BY <1>1, <1>2 DEF Forward

(* With a frame that changes neither what is staged nor what is shown.      *)
LEMMA ForwardRests ==
  ASSUME Forward, Thinned(toS3', toS3), ToSet(toS3') \subseteq ToSet(toS3),
         contents' = contents, content' \in {0, content}, staged' = staged, shown' = shown,
         \A k \in 1..Len(receiver'.url) : receiver'.url[k][1] <= contents,
         staging' => staging /\ fields' = fields
  PROVE  Forward'
<1>1. \A f \in AllFields : shown'[f] <= contents /\ staged'[f] <= contents
  BY DEF Forward, AllPushed
<1>2. TextsAhead'
  BY DEF Forward, TextsAhead, Ahead
<1>3. StageAhead'
  BY DEF Forward, StageAhead
<1> QED
  BY <1>1, <1>2, <1>3, ForwardThins

(* Texts are taken in turn.                                                 *)
LEMMA TakenInTurn ==
  ASSUME IInv, Forward, Take("TEXT")
  PROVE  /\ Frame.field \in {"title", "artist"} /\ Frame.value \in Nat /\ Frame.value <= contents
         /\ Ahead(Frame.field, Frame.value)
         /\ \A g \in ToSet(toS3') : g.type = "TEXT" /\ g.field = Frame.field =>
              Frame.value <= g.value
<1>1. /\ Frame = toS3[1] /\ 1 \in 1..Len(toS3) /\ Frame \in ToSet(toS3) /\ Frame \in S3Frames
      /\ Frame.type = "TEXT"
      /\ \A g \in ToSet(toS3') : \E j \in 1..Len(toS3) : 1 < j /\ toS3[j] = g
  BY Taken
<1>2. Frame \in Texts
  BY <1>1, FrameKinds
<1>3. Frame.field \in {"title", "artist"} /\ Frame.value \in Nat
  BY <1>2, PresentationBounds DEF Texts, Contents
<1>4. Frame.value <= contents /\ Ahead(Frame.field, Frame.value)
  BY <1>1 DEF Forward, AllPushed, Pushed, TextsAhead
<1>5. ASSUME NEW g \in ToSet(toS3'), g.type = "TEXT", g.field = Frame.field
      PROVE  Frame.value <= g.value
  <2>1. PICK j \in 1..Len(toS3) : 1 < j /\ toS3[j] = g
    BY <1>1
  <2> QED
    BY <1>1, <1>5, <2>1 DEF Forward, InTurn, SameText
<1> QED
  BY <1>3, <1>4, <1>5

(* One field of a record of fields.                                         *)
LEMMA OneField ==
  ASSUME IInv, NEW f \in AllFields, NEW n
  PROVE  /\ [staged EXCEPT ![f] = n][f] = n /\ [shown EXCEPT ![f] = n][f] = n
         /\ \A g \in AllFields \ {f} : /\ [staged EXCEPT ![f] = n][g] = staged[g]
                                       /\ [shown EXCEPT ![f] = n][g] = shown[g]
<1>1. shown \in [AllFields -> Contents]
  BY DEF IInv, Displayed
<1>2. staged \in [stamp : Stamps, title : Contents, artist : Contents, cover : Contents]
  BY DEF IInv, Displayed
<1>3. DOMAIN staged = {"stamp", "title", "artist", "cover"}
  BY <1>2
<1> QED
  BY <1>1, <1>3 DEF AllFields

(* A text is staged, or shown at once.                                      *)
LEMMA ForwardText ==
  ASSUME IInv, IInv', Forward, ReceiveText
  PROVE  Forward'
<1>1. /\ Take("TEXT") /\ UNCHANGED <<contents, content, receiver, staging>>
      /\ \/ staging /\ Stage(Frame.field, Frame.value)
         \/ ~ staging /\ Show(Frame.field, Frame.value)
         \/ UNCHANGED <<staged, fields, shown>>
  BY DEF ReceiveText, Rest, bridgeVars, bounds
<1>2. /\ Thinned(toS3', toS3) /\ ToSet(toS3') \subseteq ToSet(toS3)
  BY <1>1, Taken
<1>3. /\ Frame.field \in {"title", "artist"} /\ Frame.value \in Nat /\ Frame.value <= contents
      /\ Ahead(Frame.field, Frame.value)
      /\ \A g \in ToSet(toS3') : g.type = "TEXT" /\ g.field = Frame.field =>
           Frame.value <= g.value
  BY <1>1, TakenInTurn
<1> DEFINE f == Frame.field
           n == Frame.value
<1>4. f \in AllFields
  BY <1>3 DEF AllFields
<1>5. /\ [staged EXCEPT ![f] = n][f] = n /\ [shown EXCEPT ![f] = n][f] = n
      /\ \A g \in AllFields \ {f} : /\ [staged EXCEPT ![f] = n][g] = staged[g]
                                    /\ [shown EXCEPT ![f] = n][g] = shown[g]
  BY <1>4, OneField
<1>6. /\ \A k \in 1..Len(receiver'.url) : receiver'.url[k][1] <= contents
      /\ \A g \in AllFields : shown[g] <= contents /\ staged[g] <= contents
  BY <1>1 DEF Forward, AllPushed
<1>7. \A g \in ToSet(toS3') : g.type = "TEXT" => g.field \in AllFields
  <2> SUFFICES ASSUME NEW g \in ToSet(toS3'), g.type = "TEXT" PROVE g.field \in AllFields
    OBVIOUS
  <2>1. g \in S3Frames
    BY <1>2, ElementOf DEF IInv
  <2> QED
    BY <2>1, FrameKinds DEF Texts, AllFields
<1>8. \A g \in ToSet(toS3') : g.type = "TEXT" => Ahead(g.field, g.value)
  BY <1>2 DEF Forward, TextsAhead
<1>9. CASE staging /\ Stage(f, n)
  <2>1. /\ staged' = [staged EXCEPT ![f] = n] /\ fields' = fields \cup {f} /\ shown' = shown
        /\ staging' = staging
    BY <1>1, <1>9 DEF Stage
  <2> DEFINE S == staged'
  <2>2. S[f] = n /\ \A g \in AllFields \ {f} : S[g] = staged[g]
    BY <1>5, <2>1
  <2> HIDE DEF S, f, n
  <2>3. \A g \in AllFields : shown'[g] <= contents /\ S[g] <= contents
    BY <1>3, <1>4, <1>6, <2>1, <2>2 DEF n
  <2>4. ASSUME NEW g \in ToSet(toS3'), g.type = "TEXT"
        PROVE  shown[g.field] <= g.value /\ (staging /\ g.field \in fields' => S[g.field] <= g.value)
    <3>1. CASE g.field = f
      BY <1>3, <1>8, <2>2, <2>4, <3>1 DEF Ahead, f, n
    <3>2. CASE g.field # f
      BY <1>7, <1>8, <2>1, <2>2, <2>4, <3>2 DEF Ahead
    <3> QED
      BY <3>1, <3>2
  <2>5. TextsAhead'
    BY <2>1, <2>4 DEF TextsAhead, Ahead, S
  <2>6. \A g \in {"title", "artist"} : staging /\ g \in fields' => shown[g] <= S[g]
    BY <1>3, <2>1, <2>2 DEF Forward, StageAhead, Ahead, AllFields, f, n
  <2>7. StageAhead'
    BY <2>1, <2>6 DEF StageAhead, S
  <2> QED
    BY <1>1, <1>2, <1>6, <2>3, <2>5, <2>7, ForwardThins DEF S
<1>10. CASE ~ staging /\ Show(f, n)
  <2>1. shown' = [shown EXCEPT ![f] = n] /\ staged' = staged /\ ~ staging'
    BY <1>1, <1>10 DEF Show
  <2> DEFINE S == shown'
  <2>2. S[f] = n /\ \A g \in AllFields \ {f} : S[g] = shown[g]
    BY <1>5, <2>1
  <2> HIDE DEF S, f, n
  <2>3. \A g \in AllFields : S[g] <= contents /\ staged'[g] <= contents
    BY <1>3, <1>4, <1>6, <2>1, <2>2 DEF n
  <2>4. ASSUME NEW g \in ToSet(toS3'), g.type = "TEXT"
        PROVE  S[g.field] <= g.value
    <3>1. CASE g.field = f
      BY <1>3, <2>2, <2>4, <3>1 DEF f, n
    <3>2. CASE g.field # f
      BY <1>7, <1>8, <2>2, <2>4, <3>2 DEF Ahead
    <3> QED
      BY <3>1, <3>2
  <2>5. TextsAhead' /\ StageAhead'
    BY <2>1, <2>4 DEF TextsAhead, StageAhead, Ahead, S
  <2> QED
    BY <1>1, <1>2, <1>6, <2>3, <2>5, ForwardThins DEF S
<1>11. CASE UNCHANGED <<staged, fields, shown>>
  BY <1>1, <1>2, <1>6, <1>11, ForwardRests
<1> QED
  BY <1>1, <1>9, <1>10, <1>11

(* The cover of a URL that came in was pushed.                              *)
LEMMA CoverPushed ==
  ASSUME IInv, Forward
  PROVE  CoverOf(receiver.url) <= contents
<1>1. receiver.url \in Seq(Pieces) /\ contents \in Nat
  BY DEF IInv, ReceiverOK, Counted
<1>2. CASE receiver.url = <<>>
  BY <1>1, <1>2 DEF CoverOf
<1>3. CASE receiver.url # <<>>
  <2>1. 1 \in 1..Len(receiver.url)
    BY <1>1, <1>3
  <2> QED
    BY <1>3, <2>1 DEF CoverOf, Forward, AllPushed
<1> QED
  BY <1>2, <1>3

(* A cover is staged, or shown at once.                                     *)
LEMMA ForwardEnded ==
  ASSUME IInv, IInv', Forward, ReceiveUrlEnd
  PROVE  Forward'
<1> DEFINE n == CoverOf(receiver.url)
<1>1. /\ Take("URL_END") /\ UNCHANGED <<contents, content, staging>> /\ receiver' = NoReceiver
      /\ \/ Stage("cover", n)
         \/ Show("cover", n)
         \/ UNCHANGED <<staged, fields, shown>>
  BY DEF ReceiveUrlEnd, Rest, bridgeVars, bounds
<1>2. Thinned(toS3', toS3) /\ ToSet(toS3') \subseteq ToSet(toS3)
  BY <1>1, Taken
<1>3. n <= contents /\ "cover" \in AllFields
  BY CoverPushed DEF AllFields
<1>4. /\ [staged EXCEPT !["cover"] = n]["cover"] = n /\ [shown EXCEPT !["cover"] = n]["cover"] = n
      /\ \A g \in AllFields \ {"cover"} : /\ [staged EXCEPT !["cover"] = n][g] = staged[g]
                                          /\ [shown EXCEPT !["cover"] = n][g] = shown[g]
  BY <1>3, OneField
<1> HIDE DEF n
<1>5. /\ \A k \in 1..Len(receiver'.url) : receiver'.url[k][1] <= contents
      /\ \A g \in AllFields : shown[g] <= contents /\ staged[g] <= contents
  BY <1>1 DEF Forward, AllPushed, NoReceiver
<1>6. ASSUME NEW g \in ToSet(toS3'), g.type = "TEXT"
      PROVE  g.field \in {"title", "artist"} /\ Ahead(g.field, g.value)
  <2>1. g \in S3Frames /\ g \in ToSet(toS3)
    BY <1>2, ElementOf DEF IInv
  <2>2. g.field \in {"title", "artist"}
    BY <1>6, <2>1, FrameKinds DEF Texts
  <2> QED
    BY <1>6, <2>1, <2>2 DEF Forward, TextsAhead
<1>7. CASE UNCHANGED <<staged, fields, shown>>
  BY <1>1, <1>2, <1>5, <1>7, ForwardRests
<1>8. CASE Stage("cover", n) \/ Show("cover", n)
  <2>1. /\ \A g \in AllFields : shown'[g] <= contents /\ staged'[g] <= contents
        /\ \A g \in {"title", "artist"} : /\ shown'[g] = shown[g] /\ staged'[g] = staged[g]
                                          /\ (g \in fields' <=> g \in fields)
    <3>1. CASE Stage("cover", n)
      BY <1>3, <1>4, <1>5, <3>1 DEF Stage, AllFields
    <3>2. CASE Show("cover", n)
      BY <1>3, <1>4, <1>5, <3>2 DEF Show, AllFields
    <3> QED
      BY <1>8, <3>1, <3>2
  <2>2. \A g \in ToSet(toS3') : g.type = "TEXT" =>
          shown'[g.field] <= g.value /\ (staging' /\ g.field \in fields' => staged'[g.field] <= g.value)
    BY <1>1, <1>6, <2>1 DEF Ahead
  <2>3. \A g \in {"title", "artist"} : staging' /\ g \in fields' => shown'[g] <= staged'[g]
    BY <1>1, <2>1 DEF Forward, StageAhead
  <2>4. TextsAhead' /\ StageAhead'
    BY <2>2, <2>3 DEF TextsAhead, StageAhead, Ahead
  <2> QED
    BY <1>1, <1>2, <1>5, <2>1, <2>4, ForwardThins
<1> QED
  BY <1>1, <1>7, <1>8

(* A piece of a URL is of a track that was pushed.                          *)
LEMMA ForwardPiece ==
  ASSUME IInv, Forward, ReceiveUrlChunk
  PROVE  Forward'
<1>1. /\ Take("URL_CHUNK")
      /\ UNCHANGED <<contents, content, staged, shown, staging, fields>>
      /\ \/ receiver' = receiver \/ receiver' = NoReceiver
         \/ receiver' = [receiver EXCEPT !.url = Append(@, Frame.data)]
  BY DEF ReceiveUrlChunk, Rest, bridgeVars, bounds, stageVars
<1>2. /\ Thinned(toS3', toS3) /\ ToSet(toS3') \subseteq ToSet(toS3)
      /\ Frame \in ToSet(toS3) /\ Frame \in S3Frames /\ Frame.type = "URL_CHUNK"
  BY <1>1, Taken
<1>3. Frame.data \in Pieces /\ Frame.data[1] <= contents
  <2>1. Frame \in UrlChunks
    BY <1>2, FrameKinds
  <2> QED
    BY <1>2, <2>1 DEF UrlChunks, Forward, AllPushed, Pushed
<1>4. /\ receiver \in [active : BOOLEAN, id : 0..MaxId, total : Nat, url : Seq(Pieces)]
      /\ \A k \in 1..Len(receiver.url) : receiver.url[k][1] <= contents
  BY DEF IInv, ReceiverOK, Forward, AllPushed
<1>5. \A k \in 1..Len(receiver'.url) : receiver'.url[k][1] <= contents
  <2>1. CASE receiver' = [receiver EXCEPT !.url = Append(@, Frame.data)]
    <3>1. receiver'.url = Append(receiver.url, Frame.data)
      BY <1>4, <2>1
    <3>2. receiver.url \in Seq(Pieces)
      BY <1>4
    <3>3. /\ Len(receiver'.url) = Len(receiver.url) + 1
          /\ receiver'.url[Len(receiver.url) + 1] = Frame.data
          /\ \A k \in 1..Len(receiver.url) : receiver'.url[k] = receiver.url[k]
      BY <3>1, <3>2, Appended
    <3>4. \A k \in 1..(Len(receiver.url) + 1) :
            k \in 1..Len(receiver.url) \/ k = Len(receiver.url) + 1
      BY <3>2
    <3> QED
      BY <1>3, <1>4, <3>3, <3>4
  <2> QED
    BY <1>1, <1>4, <2>1 DEF NoReceiver
<1> QED
  BY <1>1, <1>2, <1>5, ForwardRests

(* A BEGIN stages nothing yet.                                              *)
LEMMA ForwardBegun ==
  ASSUME IInv, Forward, ReceiveBegin
  PROVE  Forward'
<1>1. /\ Take("BEGIN") /\ UNCHANGED <<contents, content, receiver, shown>>
      /\ \/ fields' = {} /\ staged' = [NoStage EXCEPT !.stamp = Frame.stamp]
         \/ UNCHANGED <<staging, staged, fields>>
  BY DEF ReceiveBegin, Rest, bridgeVars, bounds
<1>2. Thinned(toS3', toS3) /\ ToSet(toS3') \subseteq ToSet(toS3)
  BY <1>1, Taken
<1>3. /\ \A k \in 1..Len(receiver'.url) : receiver'.url[k][1] <= contents
      /\ \A f \in AllFields : shown[f] <= contents
  BY <1>1 DEF Forward, AllPushed
<1>4. CASE fields' = {} /\ staged' = [NoStage EXCEPT !.stamp = Frame.stamp]
  <2>1. \A f \in AllFields : staged'[f] <= contents
    <3>1. staged'.title = 0 /\ staged'.artist = 0 /\ staged'.cover = 0
      BY <1>4 DEF NoStage
    <3>2. 0 <= contents
      BY DEF IInv, Counted
    <3> QED
      BY <3>1, <3>2 DEF AllFields
  <2>2. TextsAhead'
    BY <1>1, <1>2, <1>4 DEF Forward, TextsAhead, Ahead
  <2>3. StageAhead'
    BY <1>4 DEF StageAhead
  <2> QED
    BY <1>1, <1>2, <1>3, <2>1, <2>2, <2>3, ForwardThins
<1>5. CASE UNCHANGED <<staging, staged, fields>>
  BY <1>1, <1>2, <1>3, <1>5, ForwardRests
<1> QED
  BY <1>1, <1>4, <1>5

(* A commit shows what is staged, which the texts in flight are ahead of.   *)
LEMMA ForwardCommitted ==
  ASSUME IInv, Forward, ReceiveCommit
  PROVE  Forward'
<1>1. /\ Take("COMMIT") /\ UNCHANGED <<contents, content, receiver, staged>>
      /\ \/ /\ staging /\ Acceptable(Frame.stamp) /\ shown' = [f \in AllFields |-> staged[f]]
            /\ staging' = FALSE
         \/ UNCHANGED <<shown, staging, fields>>
  BY DEF ReceiveCommit, Rest, bridgeVars, bounds
<1>2. Thinned(toS3', toS3) /\ ToSet(toS3') \subseteq ToSet(toS3)
  BY <1>1, Taken
<1>3. /\ \A k \in 1..Len(receiver'.url) : receiver'.url[k][1] <= contents
      /\ \A f \in AllFields : staged[f] <= contents
  BY <1>1 DEF Forward, AllPushed
<1>4. CASE /\ staging /\ Acceptable(Frame.stamp) /\ shown' = [f \in AllFields |-> staged[f]]
           /\ staging' = FALSE
  <2>1. \A f \in AllFields : shown'[f] = staged[f] /\ f \in fields
    BY <1>4 DEF Acceptable
  <2>2. ASSUME NEW g \in ToSet(toS3'), g.type = "TEXT"
        PROVE  shown'[g.field] <= g.value
    <3>1. g \in S3Frames /\ g \in ToSet(toS3)
      BY <1>2, ElementOf DEF IInv
    <3>2. g.field \in AllFields
      BY <2>2, <3>1, FrameKinds DEF Texts, AllFields
    <3>3. staged[g.field] <= g.value
      BY <1>4, <2>1, <2>2, <3>1, <3>2 DEF Forward, TextsAhead, Ahead
    <3> QED
      BY <2>1, <3>2, <3>3
  <2>3. TextsAhead' /\ StageAhead'
    BY <1>4, <2>2 DEF TextsAhead, StageAhead, Ahead
  <2> QED
    BY <1>1, <1>2, <1>3, <2>1, <2>3, ForwardThins
<1>5. CASE UNCHANGED <<shown, staging, fields>>
  BY <1>1, <1>2, <1>3, <1>5, ForwardRests
<1> QED
  BY <1>1, <1>4, <1>5

(* So it goes forward with every step of the S3.                            *)
LEMMA S3Forward ==
  ASSUME IInv, IInv', Forward, S3
  PROVE  Forward'
<1>1. CASE ReceiveStatus \/ ReceiveUrlBegin
  <2>1. PICK type : Take(type)
    BY <1>1 DEF ReceiveStatus, ReceiveUrlBegin
  <2>2. /\ UNCHANGED <<contents, content, staged, shown>>
        /\ (staging' => staging /\ fields' = fields)
        /\ receiver' = receiver \/ receiver'.url = <<>>
    BY <1>1 DEF ReceiveStatus, ReceiveUrlBegin, Rest, bridgeVars, bounds, stageVars
  <2>3. Thinned(toS3', toS3) /\ ToSet(toS3') \subseteq ToSet(toS3)
    BY <2>1, Taken
  <2>4. \A k \in 1..Len(receiver'.url) : receiver'.url[k][1] <= contents
    BY <2>2 DEF Forward, AllPushed
  <2> QED
    BY <2>2, <2>3, <2>4, ForwardRests
<1> QED
  BY <1>1, ForwardBegun, ForwardText, ForwardPiece, ForwardEnded, ForwardCommitted DEF S3

(* And with losses, outages and restarts.                                   *)
LEMMA EnvironmentForward ==
  ASSUME IInv, IInv', Forward, Environment
  PROVE  Forward'
<1>0. \A k \in 1..Len(receiver.url) : receiver.url[k][1] <= contents
  BY DEF Forward, AllPushed
<1>1. CASE Lose
  <2>1. Thinned(toS3', toS3) /\ ToSet(toS3') \subseteq ToSet(toS3)
    BY <1>1, LossThins
  <2>2. UNCHANGED <<contents, content, staging, staged, fields, receiver, shown>>
    BY <1>1 DEF Lose, bridgeVars, s3Vars, stageVars
  <2> QED
    BY <1>0, <2>1, <2>2, ForwardRests
<1>2. toS3' = <<>> => Thinned(toS3', toS3) /\ ToSet(toS3') = {}
  BY DEF Thinned, ToSet
<1>3. CASE Outage \/ BridgeRestart
  <2>1. /\ toS3' = <<>> /\ contents' = contents /\ content' \in {0, content}
        /\ ~ staging' /\ UNCHANGED <<staged, shown, receiver>>
    BY <1>3 DEF Outage, BridgeRestart, Fault, bridgeVars
  <2> QED
    BY <1>0, <1>2, <2>1, ForwardRests
<1>4. CASE S3Restart
  <2>1. /\ toS3' = <<>> /\ contents' = contents /\ content' = content /\ ~ staging'
        /\ staged' = NoStage /\ shown' = Whole(0) /\ receiver' = NoReceiver
    BY <1>4 DEF S3Restart, Fault, bridgeVars
  <2>2. contents \in Nat
    BY DEF IInv, Counted
  <2>3. \A f \in AllFields : shown'[f] <= contents /\ staged'[f] <= contents
    BY <2>1, <2>2 DEF Whole, Cover, NoStage, AllFields
  <2>4. \A k \in 1..Len(receiver'.url) : receiver'.url[k][1] <= contents
    BY <2>1 DEF NoReceiver
  <2>5. TextsAhead' /\ StageAhead'
    BY <1>2, <2>1 DEF TextsAhead, StageAhead
  <2> QED
    BY <1>2, <2>1, <2>3, <2>4, <2>5, ForwardThins
<1> QED
  BY <1>1, <1>3, <1>4 DEF Environment

LEMMA InitForward == ASSUME Init PROVE Forward
<1>1. toS3 = <<>> /\ ToSet(toS3) = {}
  BY DEF Init, ToSet
<1>2. AllPushed
  BY <1>1 DEF Init, AllPushed, Whole, Cover, NoStage, NoReceiver, AllFields
<1>3. InTurn /\ TextsAhead /\ StageAhead
  BY <1>1 DEF Init, InTurn, TextsAhead, StageAhead
<1> QED
  BY <1>2, <1>3 DEF Forward

(* No track that was overtaken comes back: not on the display, not to what  *)
(* is staged, not on the link.                                              *)
LEMMA GoesForward == Spec => [](IInv /\ Forward)
<1>1. Init => Forward
  BY InitForward
<1>2. IInv /\ Forward /\ IInv' /\ [Next]_vars => Forward'
  <2>1. ASSUME IInv, Forward, UNCHANGED vars PROVE Forward'
    <3>1. /\ UNCHANGED <<toS3, contents, content, staging, staged, fields, receiver, shown>>
      BY <2>1 DEF vars, linkVars, bridgeVars, s3Vars, stageVars, bounds
    <3>2. Thinned(toS3', toS3) /\ ToSet(toS3') \subseteq ToSet(toS3)
      BY <3>1 DEF Thinned
    <3> QED
      BY <2>1, <3>1, <3>2, ForwardRests DEF Forward, AllPushed
  <2> QED
    BY <2>1, BridgeForward, S3Forward, EnvironmentForward DEF Next
<1> QED
  BY <1>1, <1>2, Typed, PTL DEF Spec

------------------------------------------------------------------------------
(* The display does what it promises *)

Torn == detour \cap {"direct", "shown"} # {}

(* A step of the display, or none.                                          *)
DisplayStep ==
  Display!Next \/ UNCHANGED <<contents, shown, detour \cap {"direct", "shown"} # {}>>

LEMMA DisplayRests ==
  ASSUME contents' = contents, shown' = shown,
         detour' \cap {"direct", "shown"} = detour \cap {"direct", "shown"}
  PROVE  DisplayStep
  BY DEF DisplayStep

(* What is on the display is a record of its three fields.                  *)
LEMMA ShownFields ==
  ASSUME NEW s \in [AllFields -> Contents], NEW T, NEW A, NEW C,
         s["title"] \in T, s["artist"] \in A, s["cover"] \in C
  PROVE  s \in [title : T, artist : A, cover : C]
<1>1. s = [f \in {"title", "artist", "cover"} |-> s[f]]
  BY DEF AllFields
<1>2. s = [title |-> s["title"], artist |-> s["artist"], cover |-> s["cover"]]
  BY <1>1
<1> QED
  BY <1>2

(* What reaches the display on the detour does not go back, but may tear it.*)
LEMMA DisplayTears ==
  ASSUME IInv, IInv', contents' = contents,
         \A f \in AllFields : shown'[f] <= contents,
         \A f \in {"title", "artist"} : shown[f] <= shown'[f],
         Torn'
  PROVE  Display!Tear
<1>1. /\ contents \in Nat /\ shown \in [AllFields -> Contents] /\ shown' \in [AllFields -> Contents]
  BY DEF IInv, Counted, Displayed
<1>2. Contents \subseteq Nat
  BY PresentationBounds DEF Contents
<1>3. /\ shown'["title"] \in shown["title"]..contents
      /\ shown'["artist"] \in shown["artist"]..contents
      /\ shown'["cover"] \in 0..contents
  <2>1. /\ shown["title"] \in Nat /\ shown["artist"] \in Nat
        /\ shown'["title"] \in Nat /\ shown'["artist"] \in Nat /\ shown'["cover"] \in Nat
    BY <1>1, <1>2 DEF AllFields
  <2>2. /\ shown["title"] <= shown'["title"] /\ shown["artist"] <= shown'["artist"]
        /\ shown'["title"] <= contents /\ shown'["artist"] <= contents
        /\ shown'["cover"] <= contents
    BY DEF AllFields
  <2> QED
    BY <1>1, <2>1, <2>2
<1>4. shown' \in [title : shown["title"]..contents, artist : shown["artist"]..contents,
                  cover : 0..contents]
  BY <1>1, <1>3, ShownFields
<1> QED
  BY <1>4 DEF Display!Tear, Torn

(* A whole track of the display is one of TrackDisplay.                     *)
LEMMA SameWhole ==
  ASSUME IInv, NEW n \in 0..contents
  PROVE  Display!Whole(n) = Whole(n)
<1>1. n \in 0..MaxSyncs
  BY PresentationBounds DEF IInv, Counted
<1>2. Cover(n) = IF n \in {m \in 1..MaxSyncs : Cover(m) # 0} THEN n ELSE 0
  BY <1>1, PresentationBounds DEF Cover
<1> QED
  BY <1>2 DEF Display!Whole, Whole

(* A commit shows a track that is no earlier, as a whole.                   *)
LEMMA DisplayShows ==
  ASSUME IInv, IInv', Untorn', contents' = contents, ~ Torn',
         \A f \in {"title", "artist"} : shown[f] <= shown'[f]
  PROVE  Display!Show
<1>1. PICK n \in 0..contents : shown' = Whole(n)
  BY DEF Untorn, Torn, Whole, Cover, Url
<1>2. shown'["title"] = n /\ shown'["artist"] = n
  BY <1>1 DEF Whole
<1>3. shown["title"] <= n /\ shown["artist"] <= n
  BY <1>2
<1>4. shown \in [AllFields -> Contents] /\ contents \in Nat
  BY DEF IInv, Counted, Displayed
<1>5. shown["title"] \in Nat
  BY <1>4, PresentationBounds DEF AllFields, Contents
<1>6. n \in shown.title..contents /\ n >= shown.artist
  BY <1>3, <1>4, <1>5
<1>7. shown' = Display!Whole(n)
  BY <1>1, SameWhole
<1> QED
  BY <1>6, <1>7 DEF Display!Show, Torn

(* A step of the Bridge pushes a track, or does not show.                   *)
LEMMA BridgeDisplays ==
  ASSUME Bridge
  PROVE  DisplayStep
<1>1. UNCHANGED <<shown, detour>>
  BY DEF Bridge, Sync, SendStatus, Snapshot, SendUrl, ReceiveUrlAck, ApiConnects, ApiDrops, s3Vars
<1>2. contents' = contents + 1 \/ contents' = contents
  BY DEF Bridge, Sync, SendStatus, Snapshot, SendUrl, ReceiveUrlAck, ApiConnects, ApiDrops, bounds
<1>3. CASE contents' = contents + 1
  BY <1>1, <1>3 DEF DisplayStep, Display!Next, Display!Push
<1> QED
  BY <1>1, <1>2, <1>3, DisplayRests

(* A step of the S3 shows a track as a whole, tears it on the detour, or    *)
(* changes nothing on the display.                                          *)
LEMMA S3Displays ==
  ASSUME IInv, IInv', Untorn', Forward, Forward', S3
  PROVE  DisplayStep
<1>0. /\ contents' = contents /\ \A f \in AllFields : shown'[f] <= contents
      /\ \A f \in AllFields : shown[f] \in Nat
  <2>1. Rest
    BY DEF S3, ReceiveStatus, ReceiveBegin, ReceiveText, ReceiveUrlBegin, ReceiveUrlChunk,
           ReceiveUrlEnd, ReceiveCommit
  <2> QED
    BY <2>1, FieldsTyped DEF Rest, bounds, Forward, AllPushed
<1>1. CASE ReceiveStatus \/ ReceiveBegin \/ ReceiveUrlBegin \/ ReceiveUrlChunk
  <2>1. shown' = shown /\ (detour' = detour \/ detour' = detour \ {"staged"}
                           \/ detour' = detour \ {"receiver"})
    BY <1>1 DEF ReceiveStatus, ReceiveBegin, ReceiveUrlBegin, ReceiveUrlChunk
  <2> QED
    BY <1>0, <2>1, DisplayRests
<1>2. CASE ReceiveText
  <2>1. /\ Take("TEXT")
        /\ \/ shown' = shown /\ detour' = detour
           \/ Show(Frame.field, Frame.value) /\ detour' = detour \cup {"direct"}
    BY <1>2 DEF ReceiveText, Stage
  <2>2. CASE shown' = shown /\ detour' = detour
    BY <1>0, <2>2, DisplayRests
  <2>3. CASE Show(Frame.field, Frame.value) /\ detour' = detour \cup {"direct"}
    <3>1. Frame.field \in AllFields /\ shown[Frame.field] <= Frame.value
      BY <2>1, TakenInTurn DEF Ahead, AllFields
    <3>2. \A f \in AllFields : shown'[f] = IF f = Frame.field THEN Frame.value ELSE shown[f]
      BY <2>3, <3>1, OneField DEF Show
    <3>3. \A f \in {"title", "artist"} : shown[f] <= shown'[f]
      BY <1>0, <3>1, <3>2 DEF AllFields
    <3>4. Torn'
      BY <2>3 DEF Torn
    <3> QED
      BY <1>0, <3>3, <3>4, DisplayTears DEF DisplayStep, Display!Next
  <2> QED
    BY <2>1, <2>2, <2>3
<1>3. CASE ReceiveUrlEnd
  <2> DEFINE n == CoverOf(receiver.url)
  <2>1. \/ shown' = shown /\ detour' \in {detour, detour \cup {"staged"}}
        \/ Show("cover", n) /\ detour' = detour \cup {"direct"}
    BY <1>3 DEF ReceiveUrlEnd, Stage
  <2> HIDE DEF n
  <2>2. CASE shown' = shown /\ detour' \in {detour, detour \cup {"staged"}}
    BY <1>0, <2>2, DisplayRests
  <2>3. CASE Show("cover", n) /\ detour' = detour \cup {"direct"}
    <3>1. \A f \in AllFields \ {"cover"} : shown'[f] = shown[f]
      BY <2>3, OneField DEF Show, AllFields
    <3>2. \A f \in {"title", "artist"} : shown[f] <= shown'[f]
      BY <1>0, <3>1 DEF AllFields
    <3>3. Torn'
      BY <2>3 DEF Torn
    <3> QED
      BY <1>0, <3>2, <3>3, DisplayTears DEF DisplayStep, Display!Next
  <2> QED
    BY <2>1, <2>2, <2>3
<1>4. CASE ReceiveCommit
  <2>1. \/ /\ staging /\ Acceptable(Frame.stamp) /\ shown' = [f \in AllFields |-> staged[f]]
           /\ detour' = (detour \ {"direct", "shown"})
                        \cup (IF "staged" \in detour THEN {"shown"} ELSE {})
        \/ UNCHANGED <<shown, detour>>
    BY <1>4 DEF ReceiveCommit
  <2>2. CASE UNCHANGED <<shown, detour>>
    BY <1>0, <2>2, DisplayRests
  <2>3. CASE /\ staging /\ Acceptable(Frame.stamp) /\ shown' = [f \in AllFields |-> staged[f]]
    <3>1. \A f \in {"title", "artist"} : shown[f] <= shown'[f]
      BY <2>3 DEF Acceptable, AllFields, Forward, StageAhead
    <3>2. CASE Torn'
      BY <1>0, <3>1, <3>2, DisplayTears DEF DisplayStep, Display!Next
    <3>3. CASE ~ Torn'
      BY <1>0, <3>1, <3>3, DisplayShows DEF DisplayStep, Display!Next
    <3> QED
      BY <3>2, <3>3
  <2> QED
    BY <2>1, <2>2, <2>3
<1> QED
  BY <1>1, <1>2, <1>3, <1>4 DEF S3

(* A restart of the S3 clears the display; nothing else reaches it.         *)
LEMMA EnvironmentDisplays ==
  ASSUME IInv, Environment
  PROVE  DisplayStep
<1>1. CASE Lose \/ Outage \/ BridgeRestart
  <2>1. contents' = contents /\ shown' = shown /\ detour' \in {detour, detour \cup {"receiver"}}
    BY <1>1 DEF Lose, Outage, BridgeRestart, Fault, s3Vars
  <2> QED
    BY <2>1, DisplayRests
<1>2. CASE S3Restart
  <2>1. contents' = contents /\ shown' = Whole(0) /\ detour' = {}
    BY <1>2 DEF S3Restart, Fault
  <2>2. 0 \in 0..contents
    BY DEF IInv, Counted
  <2>3. Display!Whole(0) = Whole(0)
    BY <2>2, SameWhole
  <2> QED
    BY <2>1, <2>3 DEF DisplayStep, Display!Next, Display!Clear
<1> QED
  BY <1>1, <1>2 DEF Environment

(* The display is a TrackDisplay: it goes from track to later track, each   *)
(* as a whole, and nothing that was overtaken, lost or taken for another    *)
(* presentation brings an earlier track back: for every number of tracks,   *)
(* losses and faults that the ids of URL transfers outlast.                 *)
THEOREM DisplayGoesForward == ASSUME IdsOutlast PROVE Spec => ImplementsDisplay
<1>1. Init => Display!Init
  <2> SUFFICES ASSUME Init PROVE Display!Init
    OBVIOUS
  <2>1. IInv
    BY InitTyped
  <2>2. contents = 0 /\ detour = {} /\ shown = Whole(0)
    BY DEF Init
  <2>3. 0 \in 0..contents
    BY <2>2
  <2>4. Display!Whole(0) = Whole(0)
    BY <2>1, <2>3, SameWhole
  <2> QED
    BY <2>2, <2>4 DEF Display!Init
<1>2. IInv /\ IInv' /\ Untorn' /\ Forward /\ Forward' /\ [Next]_vars
        => [Display!Next]_<<contents, shown, detour \cap {"direct", "shown"} # {}>>
  <2> SUFFICES ASSUME IInv, IInv', Untorn', Forward, Forward', [Next]_vars
               PROVE  DisplayStep
    BY DEF DisplayStep
  <2>1. CASE UNCHANGED vars
    BY <2>1, DisplayRests DEF vars, bounds, s3Vars
  <2> QED
    BY <2>1, BridgeDisplays, S3Displays, EnvironmentDisplays DEF Next
<1> QED
  BY <1>1, <1>2, GoesForward, ShownTogether, PTL DEF Spec, ImplementsDisplay, Display!Spec

=============================================================================
