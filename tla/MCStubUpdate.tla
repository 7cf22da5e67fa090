---- MODULE MCStubUpdate ----
(* An instance of StubUpdate: v2 and v3 carry the same new firmware. *)
EXTENDS StubUpdate, TLC

CONSTANTS v1, v2, v3, fw1, fw2

Release(version, epoch, healthy) ==
  [version |-> version, seq |-> version, epoch |-> epoch, product |-> 7,
   trusted |-> TRUE, compatible |-> TRUE, healthy |-> healthy]

MCMeta == (v1 :> Release(1, 1, TRUE)) @@ (v2 :> Release(2, 1, TRUE))
          @@ (v3 :> Release(3, 1, FALSE))

MCFirmware == (v1 :> fw1) @@ (v2 :> fw2) @@ (v3 :> fw2)
====
