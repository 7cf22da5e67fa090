---- MODULE MCSlotUpdate ----
(* Instances of SlotUpdate: the releases and what they carry. *)
EXTENDS SlotUpdate, TLC

CONSTANTS v1, v2, v3, v4

Release(version, seq, epoch, product, healthy) ==
  [version |-> version, seq |-> seq, epoch |-> epoch, product |-> product,
   trusted |-> TRUE, compatible |-> TRUE, healthy |-> healthy]

\* v1's signing key is retired: v2 and v3 are signed with its successor.
MCRotation == (v1 :> Release(1, 1, 1, 7, TRUE)) @@ (v2 :> Release(2, 2, 2, 7, TRUE))
              @@ (v3 :> Release(3, 3, 2, 7, FALSE))

\* Stock hardware (PRODUCT_ID 0) moved between two product lines whose
\* version numbers say nothing about each other; v4's app never confirms.
MCTwoProducts == (v1 :> Release(5, 2, 1, 7, TRUE)) @@ (v2 :> Release(9, 1, 1, 8, TRUE))
                 @@ (v3 :> Release(2, 3, 1, 8, TRUE)) @@ (v4 :> Release(6, 4, 1, 7, FALSE))
====
