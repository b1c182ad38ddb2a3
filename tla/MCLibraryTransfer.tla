-------------------------- MODULE MCLibraryTransfer --------------------------
(* Instances of LibraryTransfer for TLC. *)
EXTENDS LibraryTransfer

(* Pages of two chunks, and of one; the pages of kind 4 share length and first *)
(* chunk, so that a torn page would look like the other one.               *)
MCBlobsOf ==
  [k \in Kinds |-> CASE k = 2 -> {<<"r">>}
                     [] k = 4 -> {<<"p", "q">>, <<"p", "r">>}
                     [] k = 5 -> {<<"t", "u">>, <<"v", "u">>}]

(* A playlist catalogue of two pages. *)
MCLongBlobsOf == [k \in Kinds |-> IF k = 2 THEN {<<"r">>} ELSE {<<"p">>, <<"v">>}]

(* Two contents of one list. *)
MCNewsBlobsOf == [k \in Kinds |-> {<<"p">>, <<"q">>}]

(* Pages that begin with "v" are second pages, all others first pages. *)
MCPagePos == [b \in UNION {BlobsOf[k] : k \in Kinds} |-> IF b[1] = "v" THEN 1 ELSE 0]

(* A CRC that tells no two pages apart: nothing here rests on CRC-32. *)
MCCrc(chunks) == 0
=============================================================================
