# Formal models of the Passion-Wave RotaryKnob

A rotary knob with a display controls lights and music of a Home Assistant
installation. Two processors share the work: the ESP32-S3 draws the user
interface, the classic ESP32 ("Bridge") owns the network. They talk over a
2 Mbit/s UART. A Python integration runs inside Home Assistant, feeds the
Bridge with state and executes the commands the Bridge publishes. This
directory holds TLA+ models of the parts where order, loss, restarts and
timeouts decide whether the system is right, the TLC configurations that check
them, and proofs that hold for every size of the system.

## Inventory

| Part | Code | State | Operations | What makes it right |
|---|---|---|---|---|
| Library transfer | `dual_mcu_library_proxy.h`, loops of both cores | per-kind cache and context, frozen blob, phase, offset, id; client mode, bytes, masks | set, set_page, request, poll_send, acknowledge, begin, append, finish, tick, take_completed, CHANGED, HELLO | whole published pages, right place, right playlist, no deadlock, everything arrives |
| Link | `dual_mcu_link.h` | partial frame, ring of received frames, sequence, statistics | setup, send, poll, pop, pop_priority | frames come out whole, control overtakes bulk, each class keeps its order, damage and overflow cost only what they hit |
| Library paging | S3 UI scripts, Bridge scripts, `broker.py` | pending request ids, generations, autoload flags | fetch page, answer, select, load more | rows belong to the opened playlist, one request in flight |
| Playback | `broker.py`, `media.py` | latest-command queue, generation, lock, worker task | submit, execute, confirm, complete, cancel | the newest choice wins and is answered once |
| Runtime sync | `__init__.py` | session, sequence, last command, pending debounce | state change, reconcile, command, unload | the device converges to the newest state |
| Firmware update | `update.py` | phase, versions, reconnect flags | install, reconnect, fail | Bridge before S3, stop on failure |
| Asset and radar transfer | `dual_mcu_radar_proxy.h`, loops | item queue, pending item, abort flag, client mode and bytes, decode flags, outer transaction | start, download, poll_send, acknowledge, begin, append, finish, fail, decode | whole pictures of the kind asked for, a buffer nobody pulls away, no stuck slot |
| Media presentation | cores, `dual_mcu_link.h` | staged and shown title, artist, cover; URL sender and receiver; cover pipeline | runtime state, snapshot, BEGIN, text, URL, ACK, COMMIT, fetch | a shown presentation comes from one sequence, its picture from the same track |
| Config flow, pairing, identity | `config_flow.py`, `pairing.py`, `identity.py` | wizard data, registries | steps, validate | one entry per device pair |
| Entities | `select.py`, `switch.py`, ... | registry projection | update | follow the registry |
| Encoders, power policy | `dual_mcu_encoder.h`, `ec1_pcnt_encoder.h`, `responsive_power_policy.h` | counters, hysteresis | poll, update | no lost or doubled detents |
| Display UI | `rotaryknob-s3-ui-core.yaml`, `ui_next_framework.h` | pages, animations, optimistic values | touch, turn, draw | local reaction without network |
| Probes, tooling, tests, floor plan | yaml, `tools/`, `tests/`, `home_assistant/` | - | - | - |

How they interact: Home Assistant calls native API actions of the Bridge
(cache a library page, a presentation, a play result); the Bridge publishes a
command envelope the integration listens to. S3 and Bridge exchange frames with
COBS framing and a CRC-16. A frame with a bad CRC or for a full queue is gone:
the link itself repeats nothing, so every transfer brings its own
acknowledgements and timeouts. Both firmware loops are single threaded; the
asset download and decode run as separate FreeRTOS tasks. The integration is
asyncio code: steps of different tasks interleave at every await.

Hard behaviours: a cache replaced while it is being sent, control frames that
overtake bulk frames, acknowledgements of retransmissions, timeouts of both
sides racing late answers, ids that start over after a restart, answers for a
selection that is gone, a choice that supersedes a running one, and update or
unload in the middle of each. `PROJECT.json` lists them as hazards with their
lines and the properties that cover them.

## Modules

| Module | What it is |
|---|---|
| `LibraryCatalog` | abstract specification: lists that change by whole published pages only |
| `LibraryTransfer` | the stop-and-wait transfer, both endpoints, loops, losses, restarts |
| `MCLibraryTransfer` | contents of pages for TLC, and a CRC that tells no two pages apart |
| `LibraryTransferProofs` | inductive invariants and TLAPS proofs for every value of the constants, and the exchange of a healthy link |
| `LatestWins` | abstract specification: the newest choice wins and is answered at most once |
| `PlaybackCoordinator` | lock, queue, worker and unload of the coordinator under asyncio interleavings |
| `PlaybackCoordinatorProofs` | its inductive invariant, and the proof that it implements `LatestWins` |
| `AssetTransfer` | one picture at a time: server, download task, client, loop and decode worker |
| `AssetTransferProofs` | that the server holds items of one transfer, that what completes is a whole picture, and what can be in flight at which point of a transfer |
| `AssetDecodeProofs` | the worker's buffer, its picture and the outer transaction, from the order of delivery |
| `MediaPresentation` | runtime state to display: staging, URL transfer, commit, snapshots |
| `TrackDisplay` | abstract specification: a display that goes from track to later track |
| `MediaPresentationProofs` | types, ids that do not come round, the commit behind its cover, what is shown, and that it implements `TrackDisplay` |
| `CoverPipeline` | which picture is on display for the committed URL |
| `FrameQueue` | abstract specification: the receive queue with its priority |
| `FrameRing` | the ring of `Link` with head, tail, count and the shift of pop_priority |
| `FrameRingProofs` | the ring is sound and implements `FrameQueue`, for every size |
| `LinkFraming` | sender, COBS, wire, byte-wise receiver and ring together |
| `LinkFramingProofs` | COBS, what is handed out, a clean link and a damaged one, for every frame and every size |
| `MCLinkFraming` | the frames of the checked instance |
| `QueueLemmas` | what taking, losing and appending a frame does to a queue; used by all transfer proofs |

How they compose: `LinkFraming` extends `FrameRing` and shows what the other
models assume of the link: a frame arrives whole and in the order of its class,
or not at all. `LibraryTransfer`, `AssetTransfer` and `MediaPresentation` take
that as their channel. `CoverPipeline` takes a picture transfer and the way of
a URL as single steps; `AssetTransfer` and `MediaPresentation` show why each of
them ends, and ends with what was asked for.

### LibraryTransfer

State of the Bridge: `cache`, `lookup` (set, set_page), `phase`, `awaiting`,
`transferId`, `offset`, `snap` (the frozen blob, named by its publication).
State of the S3: `avail`, `mode` (waiting_, receiving_, finished_), `wanted`,
`got` (kind, id, total, context), `bytes`, `completed`, `cooldown`
(retry_after_ms_), `due` (the 2 s between requests), `desired` and `fetched`
(the two masks), `gen` (playlist_track_generation), `shelf` (rows of the
picker). `toS3` and `toBridge` hold what is in the UART and the receive queue
of each side. `pubs`, `installed`, `ours` and the `ver` field of frames and rows
are history: no guard reads them.

The bulk slot of the Bridge is shared. The loop calls `poll_send` of the library
only while `radar_server` is not busy (`dual-mcu-esp32-core.yaml:3200`), so
`picture` is a guard of `PollSend` and of `StallTimeout`. Of the pictures
themselves, which `AssetTransfer` models, only that remains: one begins and ends
at any time (`PictureBegins`, `PictureEnds`), and it may hold the slot until the
open transfer of a page is 2 s without progress (`PictureDrags`, `overdue`,
counted by `slow`). Then the next call of `poll_send` or the next request finds
the stall, and the 12 s of the client may run out. The sender of the cover URL
comes first in the slot, but it takes it only for the few frames of a URL.

A page is a sequence of chunks, an offset counts chunks, and pages have one or
two of them. Page encoding, JSON and status texts are left out; `Decodes` says
what decode_ checks. Each handler is one action, each of its branches a
disjunct. The order of the frames in a queue is free as far as `pop_priority`
makes it so: the oldest frame, or the first control frame. Model actions take
any such frame; the code always prefers control frames, but since frames arrive
one by one between two iterations either choice is possible there.
Publication (`Publish`) is what Home Assistant does: any page of a kind, in any
order `set_page` accepts, at any time. A page of tracks bears the generation of
the selection it answers. After a restart the S3 counts from 0 again
(`rotaryknob-s3-ui-core.yaml:755`), while the Bridge and Home Assistant may still
hold or publish pages for its earlier life, under any generation. `ours` holds
the publications made for a selection of the present life; `TracksOfSelection`
speaks of these. The code has the number alone to go by: a page of the earlier
life with the number of the present selection is shown, which `PROJECT.json`
lists as a hazard without a property.

Timers are not clocks: a timeout may fire whenever its timer runs. With
`Timely = FALSE` that is all, so a timeout may race any answer: the theorems
cover that, for they do not ask for `Timely`, but for the two about timeouts on
a healthy link. The runs set it. With `Timely =
TRUE` a timeout fires only when the peer can no longer answer (`PeerEngaged`,
`ServerEngaged`) or when a picture has held the slot for as long (`overdue`,
`ServerWaits`): the timeouts are 40 ms, 2 s, 10 s and 12 s and a frame takes
about a millisecond. A restart of the Bridge takes seconds: the S3, which runs
its loop every 2 ms, has emptied its receive queue when the first new frame
arrives.

### LibraryCatalog

What a user of the picker may rely on: `Publish` adds a page, `Install` puts one
published page on its place of its list and cuts what stood behind, never
older than what was installed before, `Clear` and `Restart` empty lists.
`LibraryTransfer` implements it with `view <- installed` (checked as
`ImplementsCatalog`).

### PlaybackCoordinator

The Bridge publishes a choice of the user as a command; the integration runs
each command in a task of its own. `generation` and `latest` are the fields of
`LatestPlaybackQueue`; `lock`, `task` and `stopped` those of
`_PlaybackCoordinator`; `waiting` is the queue of the `asyncio.Lock`, `workers`
the set of worker tasks that live (a set, so that two are possible). `issued`,
`answered` and `lost` are history: no guard reads them.

An action is the code between two awaits, with everything the code does there:
`Deliver` runs a dispatch task up to the lock and, if that is free, through the
whole submission with the start of the worker, because Home Assistant starts
tasks eagerly. A worker is `calling` the player, `confirming` a track,
`locking` or `completing` (inside the lock, sending the result). A returned
call of anything but a track goes straight to the lock. The order of the queue
of `asyncio.Lock` is kept: after a release the next waiter has not run yet, and
a newcomer queues behind it. The calls to the player and to the Bridge are
external: they return or raise. Of a command only whether it is a track is
kept. `Unload` cancels the worker at its await as one step: the setup that
could follow it needs many awaits of its own.

### LatestWins

`Choose` makes a newer choice, `Play` hands the newest one to the player
whatever was skipped, `Answer` answers a choice that is still the newest and
was played. `PlaybackCoordinator` implements it with `wanted <- generation`
and `playing <- issued`. It is what the display and the Bridge rely on, and
the model of the integration in the planned `Playback`.

### AssetTransfer

A request of the S3 makes the Bridge start a task on its other core that reads
a picture over HTTP into a queue of ten items; the loop sends them one by one,
each until it is acknowledged; the client collects them and a worker on the
other core of the S3 decodes the collected bytes in place. `queue`, `pending`,
`abort`, `transferId` are the fields of `RadarProxyServer`; `taskAt` is where
`download_task_` stands and `item` what it waits to enqueue; `mode`, `bytes`,
`completed`, `requested`, `done`, `failure` are those of `RadarProxyClient`;
`activeKind` is the outer transaction of the S3 loop, `decode` the worker.
`jobs` and `source` are history: the downloads, and what the worker was started
on. The read loop of the task repeats a read that yields nothing and does not
look at the abort flag meanwhile: `AwaitsSource` names that place, which only the
source can end.

A picture is a sequence of chunks `<<job, place>>`, so no two downloads look
alike, and its CRC32 is that sequence. The task is preempted between any two
of its steps: `Enqueue` looks at the abort flag, `EnqueueWaiting` takes a place
that fell free without another look, as `xQueueSend` does. The clocks are not
compared: the 12 s of either end may run out at any time. Control frames are
lost by `Lose` only and bulk frames also by a full queue, because the ring has
64 places and the bulk protocol keeps two frames in flight. One pass of the loop
handles the worker's report and a failure before it sends a request; the guard
of `SendRequest` says so.

### MediaPresentation

`content` is what the integration pushed, `runtime` its stamp, `presentation`
the stamp of the presentation queued last; `sender` and `receiver` are
`CoverUrlSender` and `CoverUrlReceiver`; `staging`, `staged`, `fields`, `last`
the globals `dual_mcu_media_presentation_*`; `shown` what the display has.
Every third track has no cover and an empty URL, the others one or two chunks.
All these frames are control frames, so the queues are first in, first out.
`detour` is history: "direct" marks that a text or a URL took the path that
older firmware needs, around the staging; "receiver" that the receiver held the
start of a URL when the Bridge restarted, "staged" and "shown" that a cover from
such a URL was staged and committed. No guard reads it. `atomic` merges
readiness and the capability bit, which come and go with the same status frame.

`Snapshot` has a guard that `send_bridge_snapshot` has not: nothing of an earlier
presentation is in flight (`Quiet`). That is an assumption about time, not about
the code: snapshots come every 15 minutes, or when the S3 says HELLO or asks for
one, and a presentation takes milliseconds.

### TrackDisplay

What somebody in front of the display may rely on, with nothing of frames, ids
and stamps: `Push` makes a new track, `Show` puts a track that is no earlier on
the display, as a whole, `Clear` is a restart of the S3. `Tear` is the price of
the path for older firmware and of a cover taken for another: the fields may
belong to different tracks until the next `Show`, but a text never goes back.
`MediaPresentation` implements it with `pushed <- contents` and `torn` while
`detour` holds "direct" or "shown" (checked as `ImplementsDisplay`).

### CoverPipeline

The commit sets the URL; the pipeline asks for the picture of the page and of
the full screen; requests name no URL, the Bridge takes the one it has.
A transfer is one step that succeeds or fails.

### FrameQueue, FrameRing, LinkFraming

Bytes are numbers and COBS is what the code does with them: blocks up to a
zero, a code before each. A block of 254 bytes cannot occur, because a frame has
at most 200. The CRC is one symbol that fits the content of its frame only, so
a collision is the one thing the model cannot show. The wire changes, adds or
loses a byte; the sender restarts in the middle of a frame, the receiver at any
time, first skipping to a delimiter. `FrameRing` is the ring alone; `LinkFraming`
adds everything in front of it.

The decoder of the code is a loop that jumps from code to code. `CobsDecode`
says the same without a loop: the set of places it reads a code from (`Chains`)
is closed under the jump and holds nothing that no jump leads to. A frame has
one such set, or none if a jump leaves it. `Frames` may be any set of frames
with payloads up to `MaxPayload`, `Damaged` any set of bytes.

## Runs

| Run | Expect | Question |
|---|---|---|
| `LibraryTransfer_safe` | pass | Do both sides stay in step, and are lists assembled from whole pages, of the playlist selected last among those of this life of the S3, without holes, with a lost frame, refreshes, selections, a restart and pictures that take the slot? |
| `LibraryTransfer_live` | pass | Does nothing but a picture of more than 2 s stall a healthy link, and do retained lists arrive after any loss, restart or such picture, if pictures leave the slot again and again? |
| `LibraryTransfer_starved` | violation | A later playlist page in the Bridge starves the lists of a restarted S3. |
| `LibraryTransfer_busy` | violation | A request overtakes an acknowledgement and costs a 10 s backoff on a healthy link. |
| `LibraryTransfer_lostupdate` | violation | A change announced during a transfer is forgotten. |
| `PlaybackCoordinator` | pass | Is only the newest choice called and answered, is none forgotten, does every command end? |
| `PlaybackCoordinator_unload` | violation | A command that waits for the lock during an unload starts a worker that nobody can cancel. |
| `AssetTransfer` | pass | Is what is decoded one whole picture of the kind asked for, is the worker's buffer left alone, does every transaction end, and every transfer unless its source holds a read open? |
| `MediaPresentation` | pass | Do title, artist and cover change together, does the display never go back to an earlier track, does no commit overtake its cover, does the display settle on the present track? |
| `MediaPresentation_orphan` | violation | A cover committed with the wrong texts after a restart of the Bridge is not repaired by any snapshot. |
| `CoverPipeline_stale` | violation | A cover that arrives after the next commit is taken for the new one. |
| `LinkFraming` | pass | Are only sent frames handed out, in the order of their class, is damage local, is a clean link free of errors, is the ring the queue it promises? |

Bounds (`LibraryTransfer_*.cfg`): `MaxPublishes` (2 or 3) pages are cached, so
that one can replace another in transfer; `MaxTransfers` transfers per boot so
that two follow each other and frames of the first outlive it; `MaxLosses`
frames lost, `MaxFaults` restarts or outages, `MaxSelections` selections,
`MaxSlow` pictures that hold the slot for 2 s of a transfer (shorter ones are not
bounded). The live run has one of them; the safe run has none, and the theorems
show that its properties hold with any number.
`QueueSize` is 2 to 4 instead of 64: enough for overtaking, and small enough to
overflow. `MaxId` is 3 to 6 instead of 65535; in the live run ids wrap. All
bounds are guards of environment actions, of `PictureDrags`, of `StartTransfer`
(named `MaxTransfers`) and of nothing else. Deadlock is not checked: once the bounds
are used up the system rests.

`PlaybackCoordinator` has one bound, `MaxCommands`, a guard of `Deliver`: five
commands let several of them queue for the lock behind a worker that is itself
queueing, while one is called and one answered. An empty queue with no worker
is where this part of the system rests, so deadlock is not checked there either.

`AssetTransfer.cfg`: two requests, so that the second meets what the first left
behind; pictures of two and three chunks where two are allowed and the one that
fits is announced, so that announced, chunked and oversized sources occur (a
source that breaks off may end after any chunk); queues of one place, where
every enqueue blocks; one loss and one outage or restart. Kinds are as many as
requests, which is the strongest case for `RightPicture`. Chunk acknowledgement
offsets, ids and the abort need no more than two transfers to be confused.

`MediaPresentation.cfg`: two runtime states, so that one presentation overtakes
another in every phase, the second of them without a cover; URL ids 1 to 3, so
that ids come round (fewer than `IdsOutlast`, the assumption of the proofs,
asks for, which the run therefore does not rest on); one loss
and one fault (outage, API loss, restart of the Bridge, of the S3 or of the
integration). Snapshots are unbounded.

`LinkFraming.cfg`: four frames through a ring of three places wrap and overflow
it; payloads of two bytes contain a zero, so that every shape of a COBS block
occurs; one damaged byte or restart of the sender, one restart of the receiver.
A damaged byte is 0, 1, 2 or 255: a delimiter, the two codes of a short block
and one longer than any frame.

Sensitivity: for each property `PROJECT.json` names a changed definition, written
next to the original, that breaks it on the same instance: a guard dropped, a
reset forgotten, an id not compared.

Fairness of `LibraryTransfer` (`FairSpec`): both loops keep running, so each of them handles the
oldest frame, sends what is due and uses what is completed (weak fairness); a
timer that runs again and again is noticed (strong fairness, since frames may
disable a timeout for a while); a Bridge that is down boots, and a running one
reports its capabilities. `PollSend` is the exception: a picture takes the slot
away, so weak fairness would say nothing while pictures come again and again, and
strong fairness says that the page gets its turn if they also go again and
again. The code justifies that: the S3 asks for the next picture only after it
has decoded the last, which takes longer than the 16 ms to the next slot. That
a picture ends is not assumed. It is the premise of `RetainedListsArrive`
(`SlotReturns`), and `BridgeFreed` of `AssetTransfer` tells what may break it.
Nothing is assumed of users, of Home Assistant, of losses and of restarts.

Fairness of `PlaybackCoordinator` (`FairSpec`): every await of a worker ends (a
blocking service call returns or raises, the confirmation has a deadline of
10 s) and the event loop runs the next waiter of a free lock. Nothing is
assumed of commands and of the unload. That a service call ends is a property
of Home Assistant, not of this code: the worker sets no timeout of its own.

Fairness of `AssetTransfer` (`FairSpec`): one condition for each thread that matters. The
S3 goes on handling clocks, reports and failures (`S3Progress`), the loop of the
Bridge notices its stall (`StallAbort`), and the download task goes on except
while it waits for its source (`TaskProgress`); opening one has a timeout of its
own. A clock runs until it is noticed, so weak fairness is enough. It is assumed
that the user leaves the display alone now and then, which the start of a decode
waits for. Nothing is assumed of what a source sends:
`esp_http_client_read` may return 0 without end, and the loop around it does not
look at the abort flag (`dual_mcu_radar_proxy.h:291`). Therefore `BridgeFreed`
says that the Bridge is free again or the task waits for its source for ever,
and not simply that it is free again. Nothing is assumed of frames being
delivered: a transaction ends, in success or not, even if every frame is lost.

Fairness of `MediaPresentation` (`FairSpec`): the loops run and heartbeats and
snapshots repeat, as one weak fairness condition (`Progress`) that leaves open
which of these steps comes when. A snapshot is due every 15 minutes and is not
lost for ever because losses are bounded.

`MediaPresentation`, `AssetTransfer` and `LinkFraming` are not checked for
deadlock: with their bounds used up and nothing in flight they rest.

## Findings

1. `LibraryTransfer_starved`: the Bridge retains only its newest playlist page.
   After a restart of the S3 that page lies behind a gap, is dropped before the
   mask is set and requested again for ever; radios and podcasts come after it
   in the scheduler and are never requested until the playlist tab is opened.
2. `LibraryTransfer_busy`: the request for the next list overtakes the
   acknowledgement of END in the receive queue of the Bridge, which refuses it
   as busy; the client backs off 10 s.
3. `LibraryTransfer_lostupdate`: completing a page sets the bit that a
   LIBRARY_CHANGED for the newer page has just cleared.

4. `PlaybackCoordinator_unload`: `_async_play_media` does not look at
   `stopped`. A dispatch task that waits for the lock survives the unload,
   submits to the removed coordinator and starts a worker there; after a reload
   it may call the player at the same time as the worker of the new coordinator.
5. `CoverPipeline_stale`: a decoded cover is recorded as loaded for the URL of
   the moment, not for the one it was requested for. If the next track was
   committed while it was in transfer, its title is shown with the picture of
   the previous track, which counts as loaded and is not fetched again. The
   comment at the commit says that only the committed URL is fetched; the direct
   download of the S3 made the comparison.

6. `MediaPresentation_orphan`: `CoverUrlReceiver` does not notice a restart of
   the Bridge, after which ids of URL transfers start over. It holds the start of
   an old URL, the BEGIN of a new one is lost, and the END with the same id
   completes the old one: it is acknowledged, staged and committed with the texts
   of the new track. A snapshot bears the stamp of that commit and is refused as
   not newer, so the wrong cover stays until the next runtime state, although the
   snapshot is there to repair losses. In practice the integration ends it: it
   reconciles every 15 minutes and sends a runtime state then. An attempt to prove `Untorn` found this:
   no invariant about ids held.

The first four are divergences from a document or a comment, the last two are
defects of the program. Two more observations are hazards without a run: a lost
MEDIA_PRESENTATION_BEGIN shows the following texts one by one, and a pending
cover request replaced by a radar, house or photo request leaves the cover
pipeline loading.

## Proofs

### LibraryTransfer

`LibraryTransferProofs` proves, for every set of kinds, every page set, queue
size and bound that satisfies the named assumptions of `LibraryTransfer`:

* `TypeCorrect`: `Spec => []TypeOK`.
* `Integrity`: `Spec => []CompletedIsPublished`, when `MaxTransfers <= MaxId`:
  no id comes round again within one boot. Neither the CRC nor `Timely` is used.
* `Selection`: `Spec => []TracksOfSelection`. It rests on `TracksOfGeneration`:
  every row bears the present generation. Within one life of the S3, the
  publications in `ours`, a generation names one selection; across a restart it
  does not, and the property claims nothing.
* `Assembly`: `Spec => []ShelfAssembled`.
* `StopAndWait`: `Spec => []LockStep`, under the same condition on ids.
* `Refinement`: `Spec => ImplementsCatalog`, under the same condition.
* `NothingStalls`: `Spec /\ []AnnouncementsFit => []HealthyLinkNeverStalls`, and
  `NothingStallsWithRoom`: `Spec => []HealthyLinkNeverStalls` when
  `MaxPublishes < QueueSize`; both for `Timely` and `2 <= QueueSize`. The property
  is about the time until a picture has held the slot for 2 s (`slow = 0`).

The argument. `IInv` strengthens the type invariant by what the handlers rely
on: a cached version exists and is of its kind (`Caching`), a running transfer
has a frozen page and an offset inside it (`Sending`), a client that receives
has a kind (`Holding`). `Fidelity` carries integrity: every bulk frame in
flight is cut from the publication it names (`InFlight`), two frames with one
id name one publication (`SameId`), and what the client has received so far is
a prefix of one publication whose id the server either still uses or cannot
use again before the client has given up (`Received`). The second case is the
hard one: after a restart of the Bridge ids start over while the client may
still wait for the rest of an old transfer with the same id. It is safe because
the client sends no request while it receives, so the restarted server has no
transfer to send (`Orphaned`), and a request that was in flight died with the
receive queue of the Bridge (`DownQuiet`).

`Pacing` carries stop and wait: while a client receives what the server sends,
the server's step is the client's or the one before it, and the frames and
acknowledgements in flight belong to one of these two steps. A retransmission
therefore meets a client that has it already, and its acknowledgement a server
that has gone on; neither is taken for the next. `Versions` orders publications:
the page that is installed, the one in transfer and the cached one stand in
this order for each place of a list, which is what `LibraryCatalog` asks of an
`Install`. The refinement is then proved action by action.

`Healthy` carries the healthy link. Without losses and faults the two ends are
always at one point of one exchange (`Exchanging`): nothing is open and at most
one request or its error is on its way (`Resting`), the server has a frame to
send or sent one that the client has not taken (`Delivering`), or the client has
taken it and its acknowledgement is on its way (`Answered`). The queues hold the
frames of the exchange that this point asks for and no others (`Single`,
`Without`), so with `Timely` no timer can fire. Pictures that leave the slot in
time delay a frame and change nothing else (`Undisturbed`), and until one of them
has been too slow nothing is overdue (`OnTime`). Only behind the END two are on
their way at once, its acknowledgement and the request for the next list. The
request may overtake: the server refuses it as busy, and the client backs off
because of that error, not because of a timeout. This is why the property
and `LibraryTransfer_busy`, which finds the backoff, do not contradict each
other. Ids may wrap here: no condition on `MaxId`.

A healthy link may still drop a frame, when the receive queue of the S3 is full.
The exchange has one frame at a time; what can fill the queue are announcements,
one per published page. `AnnouncementsFit` says of a behaviour that they never
do so alone. `NothingStallsWithRoom` derives it from a length bound
(`Announced`: announcements in flight are no more than pages published) for a
queue larger than `MaxPublishes`; the code has 64 places and empties the queue
every 2 ms, so it holds for any realistic rate of publication.

All invariants were checked with TLC on an instance before they were proved.
The condition `MaxTransfers <= MaxId` is what 65,535 ids give within one boot.
The CRC is assumed nowhere, `Timely` and pictures of less than 2 s by
`NothingStalls` and `NothingStallsWithRoom` only: in all other theorems the timeouts may race any
answer.

Only model-checked: `RetainedListsArrive`, which is liveness.

### PlaybackCoordinator

`PlaybackCoordinatorProofs` proves, for any number of commands:

* `TypeCorrect`, `OneCall`, `CompletionSafe`, `NoLostWakeup`: the four
  invariants of the run.
* `NewestCalled`: `Spec => CallsAreNewest`.
* `Implementation`: `Spec => ImplementsLatestWins`.

The argument. A step of a worker has one of five shapes (`Shape`): it stays
with its command, takes the lock to answer it, turns to a newer command,
retires without an answer, or answers. `WorkerShape` shows that once, from the
nested code paths of each action; the invariant and the refinement are then
proved shape by shape. `IInv` adds to the four invariants what makes them
inductive: the worker is the one `task` names (`Owned`), the queue holds the
newest command or none once that one was called (`Queued`), a worker serves the
command of the last call (`Serving`), and no command that can still be answered
has been (`Unanswered`). The last needs its exception: a result may go out
while the unload cancels its worker, and then the queue keeps a command that
was answered; no worker can pick it up, since only a newer submission starts
one. The only assumption is that `MaxCommands` is a natural number.

Only model-checked: `EveryCommandEnds`, which is liveness.

### FrameRing

`FrameRingProofs` proves, for every capacity and every set of frames:

* `RingSound`: `RingSpec => []RingOK`.
* `RingRefinesQueue`: `RingSpec => RingImplementsQueue`.

The argument. `RingOK` says that tail is head plus count, modulo the capacity;
it is inductive as it stands. For the refinement `Contents` reads the ring from
head for count places. Every slot has one distance from head, so the frames
that `PopAt` moves down are exactly those behind the gap (`Moved`), wherever
they wrap. The modular arithmetic is done once, in lemmas about `Index`.

### AssetTransfer

`AssetTransferProofs` and `AssetDecodeProofs` prove, for every queue length, every set of sizes and every number of requests, losses and
faults:

* `AssetTypeCorrect`: `Spec => []TypeOK`.
* `AssetQueueOfOneTransfer`: `Spec => []QueueOfOneTransfer`.
* `AssetCompletesWhole`: `Spec => [][CompletesWhole]_vars`: a step that makes
  the client's transfer complete leaves it with one picture the Bridge has read
  to its end.
* `WorkerKeepsBuffer`, `DecodesWholePicture`, `DecodesRightPicture`,
  `TransactionTogether`: `WorkerOwnsBuffer`, `WholePicture`, `RightPicture` and
  `TransactionInStep` are invariants. `RightPicture` speaks of behaviours in which
  no frame is lost. RADAR_BEGIN names neither kind nor request, so if the error
  that refuses a request is lost, the client still waits, and takes the BEGIN of
  an earlier picture for the one it asked for.

The argument. `IInv` adds to `QueueOfOneTransfer` that frames and items are
those the Bridge may build, that an END item carries the checksum of a picture
read to its end (`Items`, `Ends`), and where the task stands when it holds an
item. A blocked task keeps `taskAt` away from "off", so `Busy` refuses a start
until its late item is drained. Pictures grow when a download learns its size
and never change afterwards (`ItemsGrow`), which carries the frames in flight
over every step.

What the worker decodes needs more: that nothing which could clear its buffer
arrives while it reads. A request is answered once, with an error or with a
transfer, and an item goes out only when the one before it is acknowledged; so
`AssetTransferProofs` says, in its second half, for each state of the client which requests, items,
errors and acknowledgements can be on their way, and that behind the END which
completes a transfer nothing follows but its own repetitions. From this the
steps of the worker and of the outer transaction are followed in
`AssetDecodeProofs`.

Only model-checked: `NoAssetStuck` and `BridgeFreed`, which are liveness.

### MediaPresentation

`MediaPresentationProofs` proves, for every number of tracks, losses, faults
and ids:

* `PresentationTypeCorrect`: `Spec => []TypeOK`.
* `CommitComesAfterCover`: `Spec => []CommitFollowsCover`, assuming `IdsOutlast`.
* `ShownTogether`: `Spec => []Untorn`, assuming `IdsOutlast`.
* `DisplayGoesForward`: `Spec => ImplementsDisplay`, assuming `IdsOutlast`.

`IdsOutlast` says `MaxSyncs + MaxLosses + MaxFaults < MaxId`. A URL transfer is
given up for a newer one without a word to the other side, so its frames, and
what the receiver holds of it, are told from those of later transfers by their
id alone, and the code has 65,535 ids. Snapshots are not counted: they start
transfers without bound, and ids do come round in the behaviours of the theorem.
The condition bounds a whole behaviour, which is more than the code needs: it
would be enough that fewer ids are used while one frame is on its way.

The argument has three layers on top of the types. `Young`: the age of an id,
the number of transfers queued since, is bounded for every id in flight by the
runtime states pushed, and for the id of the receiver by states, losses and
faults together; a snapshot starts only when nothing is in flight, so it ages
the receiver alone, and only if a BEGIN was lost before. Hence the id of a new
transfer is nowhere in use (`FreshId`). `Waiting`: behind the END the sender
waits for, behind its acknowledgement and before a commit come only heartbeats,
so nothing changes what is staged between the cover and the commit. `Coherent`:
stamps only grow in the life of a Bridge (`Announced`), so behind the BEGIN of
the presentation queued last comes only what belongs to it; when that BEGIN is
taken, what is staged is of the present content (`StageMatches`), and what the
receiver holds under the id of the sender begins its URL (`UrlMatches`).

The refinement rests on `Untorn` and on one more invariant, `Forward`, which
needs nothing of ids: the Bridge presents the track pushed last or none, the
texts of a field are in flight in the order of their tracks (`InTurn`), they are
ahead of what is staged and shown of that field (`TextsAhead`), and what is
staged is ahead of what is shown (`StageAhead`). Losing a frame or dropping the
stage keeps all of it. A commit then shows one track because of `Untorn` and no
earlier one because of `StageAhead`; a text on the detour goes forward because
of `TextsAhead`. Each action is mapped to one of the five outcomes.

Only model-checked: `PresentationSettles`, which is liveness.

### LinkFraming

`LinkFramingProofs` proves, for every payload size whose frames need no block
of 254 bytes (`MAX_RAW_FRAME` is 200), every ring, set of frames, set of bytes
that damage may produce, and every number of frames, faults and restarts:

* `CobsRoundTrip`: `CobsDecode(CobsEncode(raw)) = raw`, and the encoding holds no
  zero, for every frame `raw` of numbers that fits.
* `LinkRefinesQueue`: `Spec => RingImplementsQueue`.
* `LinkTypeCorrect`: `Spec => []TypeOK`.
* `HandsOutWhatWasSent`: `Spec => []TakenAsSent`.
* `CleanLinkCountsNoError`: `Spec => []CleanLinkIsClean`.
* `DamageStaysLocal`: `Spec => []DamageIsLocal`.

The assumptions are `LinkConstants` and `RingConstants`. That the CRC is right
about every frame is in the model itself: its symbol names the frame, so the
theorems hold up to collisions.

The argument. The set of codes of a frame is unique: two different ones would
have a first place where they differ, and the code in front of it leads to only
one place. For an encoded frame it is what the encoder wrote, so decoding
undoes it. That needs the least element of a set of numbers, which the library
offers without an operator as parameter, and no induction over the frame.

Handing out. The CRC symbols number the frames, so a frame that is accepted is
one that was sent, and the frames that are handed out, in the ring, in the
receive buffer and on the wire are numbered upwards (`Underway`, `Delivery`).
Damage produces bytes and a CRC symbol is none, so every accepted frame uses up
the symbol it was sent with and none arrives twice.

A clean link. Unless something was damaged, what is received and what is on the
wire are the tail of one sequence of encoded frames (`Intact`), and a receiver
that is not synchronized has received nothing of it.

Damage. The stream is what has been received since the last delimiter and what
is on the wire; a segment of it ends at a delimiter, and it is whole if it
decodes to a frame that was sent. `Local` is the inductive invariant:

    sent + (1 if the stream does not end at a delimiter)
      <= arrived + overflows + whole segments + 2 * faults + excused

Reading a whole segment counts it, reading any other loses nothing. A damaged
byte takes a delimiter away or changes one segment: at most two segments are no
longer whole. A restart of the sender costs the delimiters it cuts off and may
leave half a frame, which the next one is glued to; a restart of the receiver
costs the delimiters that pass meanwhile and the frame it begins in. The
property is the invariant for an empty wire.

## Limits of the proofs

Every safety property, every action property and every refinement that a
passing run checks is a theorem. Liveness (`RetainedListsArrive`,
`EveryCommandEnds`, `NoAssetStuck`, `BridgeFreed`, `PresentationSettles`) stays
with TLC: TLAPS proves nothing about fairness that goes through ENABLED. So do
the runs that show a violation, and `CoverPipeline`, whose one property is
violated.

Three conditions bound a whole behaviour where the code is bounded in time:
`IdsOutlast` and `MaxTransfers <= MaxId` ask for more ids than a behaviour uses,
and `NothingStallsWithRoom` for more room than it has pages.

Three properties claim nothing about a case in which the code does what nobody
wants: `TracksOfSelection` about pages published for an earlier life of the S3,
`RightPicture` about behaviours that lose frames, `HealthyLinkNeverStalls` about
the time after a picture that held the slot for 2 s. The library runs set
`Timely`, so timeouts that race a late answer are covered by theorems only.

## Plan

Done: `LibraryTransfer`, `LibraryCatalog`, `PlaybackCoordinator`, `LatestWins`,
`AssetTransfer`, `MediaPresentation`, `TrackDisplay`, `FrameRing`, `FrameQueue`,
`LinkFraming` with their proofs; `CoverPipeline`.

1. An abstract picture transfer for `AssetTransfer`, which `CoverPipeline` could
   then extend, and `CoverPipeline` with the direct timer and what replaces a
   pending request.
2. `Playback`, end to end: the picker of the S3 with its settle timer and
   watchdog, the play request and its results over the lossy link, the pending
   choice of the Bridge with its 8 s timeout, the command envelope with
   reconnects, and `LatestWins` for the integration. To be settled there: a
   result is matched by kind and row only (`dual-mcu-esp32-core.yaml:346`).
3. `LibraryPaging`: page fetches with request ids and generations across Home
   Assistant, restarts of the S3, refreshed lists.
4. `RuntimeSync`: sessions, sequences and the command envelope.
5. `FirmwareUpdate`: the ordered update of both processors with reconnects.

## Not modelled

* The font tables under `round_Temp/fonts`, 15,454 lines of generated data,
  have no behaviour.
* `ui_next_framework.h`, `scrollwheel_dynamic_targets.h` and the LVGL pages:
  drawing, layout and animation. Their input reaches the models as selections
  and requests.
* `dual_mcu_encoder.h`, `ec1_pcnt_encoder.h`: hardware counters and a quadrature
  table without a protocol of their own.
* In `AssetTransfer`: cooldowns, which only delay a request; the choice and
  replacement of the pending kind (`CoverPipeline` has that); the recovery of an
  orphaned transaction, which this Bridge never causes because it always offers
  pictures; collisions of the CRC32; redirects and mDNS names.
* In `MediaPresentation`: play state, volume and position, which are independent
  of the staging, and texts longer than a frame, which are cut.
* Light states, weather, time, versions, LED presets: frames that carry a whole
  record and are repeated. The catalogue of light details is sent in parts and
  is worth a model of its own.
* The config-flow wizard, entity projections, probes and benchmarks, release
  tooling and the floor plan renderer: pure I/O, or no protocol.
* Playback end to end, paging, runtime synchronisation and the firmware update:
  planned above.

`PROJECT.json` names the reason for each component.
