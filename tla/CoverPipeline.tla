----------------------------- MODULE CoverPipeline -----------------------------
(***************************************************************************)
(* Which cover the S3 shows: MEDIA_PRESENTATION_COMMIT sets the URL,       *)
(* process_media_cover_update asks for the picture of the small (page) and *)
(* of the full-screen cover, one asset transaction at a time fetches it.   *)
(* The request names no URL; the Bridge takes the one it has when the      *)
(* request arrives.  AssetTransfer has the transaction, MediaPresentation  *)
(* the way of the URL; here each is one step, which succeeds or fails.     *)
(*                                                                         *)
(* The n-th track has the cover n.  A track without a cover is NONE.       *)
(***************************************************************************)
EXTENDS Integers

CONSTANT MaxTracks     \* bound on the tracks played

NONE    == 0
Targets == {1, 2}                   \* page, full screen
Idle    == [kind |-> "NONE", target |-> 0]
Radar   == [kind |-> "RADAR", target |-> 0]
Wanted(t) == [kind |-> "COVER", target |-> t]

VARIABLES
  track,            \* tracks played so far
  bridgeUrl,        \* bridge_media_cover_url
  url,              \* media_cover_url_cache
  state,            \* media_cover_pipeline_state
  due,              \* media_cover_update_pending
  ready, loaded,    \* media_page_cover_ready, media_cover_ready, .._loaded_url
  picture,          \* what the two images hold
  pending, active,  \* dual_mcu_asset_pending_.., dual_mcu_asset_active_..
  source            \* the URL the Bridge downloads for the active request

vars == <<track, bridgeUrl, url, state, due, ready, loaded, picture, pending,
          active, source>>

Init ==
  /\ track = 0 /\ bridgeUrl = NONE /\ url = NONE /\ state = 0 /\ due = FALSE
  /\ ready = [t \in Targets |-> FALSE]
  /\ loaded = [t \in Targets |-> NONE] /\ picture = [t \in Targets |-> NONE]
  /\ pending = Idle /\ active = Idle /\ source = NONE

------------------------------------------------------------------------------
(* The Bridge resolves the cover of the next track; its presentation is     *)
(* under way.                                                               *)
NextTrack ==
  /\ track < MaxTracks /\ track' = track + 1
  /\ bridgeUrl' \in {NONE, track + 1}
  /\ UNCHANGED <<url, state, due, ready, loaded, picture, pending, active, source>>

(* MEDIA_PRESENTATION_COMMIT with another title, artist or cover, and       *)
(* refresh_media_cover_url.  Neither ends a transaction.                    *)
Committed ==
  /\ bridgeUrl # url /\ url' = bridgeUrl
  /\ due' = (url' # NONE) /\ state' = IF url' = NONE THEN 0 ELSE 1
  /\ ready' = [t \in Targets |-> FALSE] /\ loaded' = [t \in Targets |-> NONE]
  /\ UNCHANGED <<track, bridgeUrl, picture, pending, active, source>>

(* process_media_cover_update: every 250 ms, unless the user or the UI is   *)
(* busy.  A pending request for another asset is not replaced.              *)
PageWanted == due \/ ~ ready[1] \/ loaded[1] # url
Process ==
  /\ url # NONE /\ state \notin {2, 3}
  /\ \E t \in Targets :
       /\ IF t = 1 THEN PageWanted
          ELSE ~ PageWanted /\ (loaded[2] # url \/ ~ ready[2])
       /\ state' = t + 1 /\ ready' = [ready EXCEPT ![t] = FALSE]
       /\ pending' = IF pending.kind \in {"NONE", "COVER"} THEN Wanted(t) ELSE pending
  /\ UNCHANGED <<track, bridgeUrl, url, due, loaded, picture, active, source>>

(* refresh_rain_radar and the house page take the one pending place.        *)
RadarWanted ==
  /\ pending # Radar /\ active # Radar /\ pending' = Radar
  /\ UNCHANGED <<track, bridgeUrl, url, state, due, ready, loaded, picture,
                 active, source>>

(* RADAR_REQUEST leaves the S3 and the Bridge resolves the picture.         *)
Request ==
  /\ active = Idle /\ pending # Idle
  /\ active' = pending /\ pending' = Idle
  /\ source' = IF pending.kind = "COVER" THEN bridgeUrl ELSE NONE
  /\ UNCHANGED <<track, bridgeUrl, url, state, due, ready, loaded, picture>>

(* The decode worker reports a picture: it is taken for that of the URL the *)
(* S3 has now.                                                              *)
DecodeDone ==
  /\ active # Idle /\ (active.kind = "COVER" => source # NONE)
  /\ active' = Idle /\ source' = NONE
  /\ IF active.kind = "COVER"
     THEN /\ picture' = [picture EXCEPT ![active.target] = source]
          /\ ready' = [ready EXCEPT ![active.target] = TRUE]
          /\ loaded' = [loaded EXCEPT ![active.target] = url]
          /\ due' = IF active.target = 1 THEN FALSE ELSE due
          /\ state' = 0
     ELSE UNCHANGED <<picture, ready, loaded, due, state>>
  /\ UNCHANGED <<track, bridgeUrl, url, pending>>

AssetFails ==
  /\ active # Idle /\ active' = Idle /\ source' = NONE
  /\ state' = IF active.kind = "COVER" THEN 4 ELSE state
  /\ UNCHANGED <<track, bridgeUrl, url, due, ready, loaded, picture, pending>>

(* The link is down: the transaction is dropped, the pipeline not told.     *)
LinkDown ==
  /\ active # Idle /\ active' = Idle /\ source' = NONE
  /\ UNCHANGED <<track, bridgeUrl, url, state, due, ready, loaded, picture, pending>>

Next == \/ NextTrack \/ Committed \/ Process \/ RadarWanted \/ Request
        \/ DecodeDone \/ AssetFails \/ LinkDown

Spec == Init /\ [][Next]_vars

------------------------------------------------------------------------------
(* Comment at the commit: "let the existing bounded asset pipeline fetch    *)
(* only the committed URL".  A cover on display that nothing under way or   *)
(* due will replace is the cover of the committed track.                    *)
SettledCoverIsCommitted ==
  \A t \in Targets :
    ready[t] /\ url # NONE /\ bridgeUrl = url /\ ~ due /\ pending = Idle /\ active = Idle
    => picture[t] = url
=============================================================================
