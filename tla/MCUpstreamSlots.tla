-------------------------- MODULE MCUpstreamSlots --------------------------
(* Instances of UpstreamSlots for TLC. *)
EXTENDS UpstreamSlots, TLC

CONSTANTS r1, r2, r3

ThreeRequests == {r1, r2, r3}
============================================================================
