---------------------------- MODULE MCImageSlot ----------------------------
(* Instances of ImageSlot: two to four requests, images of one or two       *)
(* blocks.  A setter goes the way of a frame that has been cleared and of a *)
(* forced job after its lookup, so none is listed.                          *)
EXTENDS ImageSlot, TLC

CONSTANTS up, frame, job, forced

AllKinds == (up :> "upload") @@ (frame :> "frame") @@ (job :> "refresh") @@
            (forced :> "forced")
MCKindOf == [r \in Requests |-> AllKinds[r]]

(* The upload and the old image are longer than the others, so that a short *)
(* image written over a long one shows its tail.                            *)
MCBlocks == [w \in Images |-> IF w \in {up, Old} THEN 2 ELSE 1]
=============================================================================
