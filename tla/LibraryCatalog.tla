---------------------------- MODULE LibraryCatalog ----------------------------
(***************************************************************************)
(* What the library transfer promises the media picker of the S3: every    *)
(* list it shows is assembled from whole pages that Home Assistant really  *)
(* published for that list, each placed where it belongs and never newer   *)
(* pages replaced by an older publication.  How a page travels - frames,   *)
(* acknowledgements, retries, restarts - is invisible here.                *)
(***************************************************************************)
EXTENDS Integers, Sequences

CONSTANTS Kinds, PagePos

VARIABLES
  pubs,    \* every page published so far, in order
  view,    \* newest publication each list has taken, 0 = none
  shelf    \* the pages each list consists of

vars == <<pubs, view, shelf>>

Init ==
  /\ pubs = <<>>
  /\ view = [k \in Kinds |-> 0]
  /\ shelf = [k \in Kinds |-> <<>>]

Publish ==
  /\ Len(pubs') = Len(pubs) + 1
  /\ SubSeq(pubs', 1, Len(pubs)) = pubs
  /\ UNCHANGED <<view, shelf>>

(* The list of a page takes it whole, on top of the pages before it. *)
Install(v) ==
  LET page == pubs[v]
      k    == page.kind
      pos  == PagePos[page.blob]
  IN  /\ view[k] <= v
      /\ pos <= Len(shelf[k])
      /\ view' = [view EXCEPT ![k] = v]
      /\ shelf' = [shelf EXCEPT ![k] =
           Append(SubSeq(@, 1, pos), [blob |-> page.blob, ctx |-> page.ctx, ver |-> v])]
      /\ UNCHANGED pubs

(* A list is emptied when another playlist is opened. *)
Clear(k) ==
  /\ shelf' = [shelf EXCEPT ![k] = <<>>]
  /\ UNCHANGED <<pubs, view>>

(* A restart of the display processor empties every list. *)
Restart ==
  /\ view' = [k \in Kinds |-> 0]
  /\ shelf' = [k \in Kinds |-> <<>>]
  /\ UNCHANGED pubs

Next ==
  \/ Publish
  \/ \E v \in 1..Len(pubs) : Install(v)
  \/ \E k \in Kinds : Clear(k)
  \/ Restart

Spec == Init /\ [][Next]_vars

=============================================================================
