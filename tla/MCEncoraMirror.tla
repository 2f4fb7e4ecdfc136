--------------------------- MODULE MCEncoraMirror ---------------------------
(* Instances of EncoraMirror: one or two recordings, pages of one. *)
EXTENDS EncoraMirror, TLC

CONSTANTS f1, f2, add, remove, want, unwant, apply, detail

Kinds == (add :> "addCollection") @@ (remove :> "removeCollection") @@
         (want :> "addWants") @@ (unwant :> "removeWants") @@
         (apply :> "apply") @@ (detail :> "detail")
MCKindOf == [h \in Handlers |-> Kinds[h]]
MCTarget == [h \in Handlers |-> 1]
(* Recording 1 has a file; the others have none. *)
MCLocalFormat == [r \in Recs |-> IF r = 1 THEN f1 ELSE NoFile]
=============================================================================
