------------------------- MODULE MCDiskReservations -------------------------
EXTENDS DiskReservations, TLC

CONSTANTS r1, r2, r3, k1, k2

ThreeCallers == {r1, r2, r3}
TwoKeys == {k1, k2}

\* r1 and r2 download the same file; r3 another one, without publishing it
KeyOfCallers == r1 :> k1 @@ r2 :> k1 @@ r3 :> k2
BuildAndSpool == k1 :> {TRUE} @@ k2 :> {FALSE}

SwapCallers == Permutations({r1, r2})

conf(min, peer, reserved, max, queue) ==
    [minFreeBytes |-> min, volumePeerReserveBytes |-> peer, maxReservedBytes |-> reserved,
     maxBytes |-> max, queueCapacity |-> queue]

TwoCallers == {r1, r2}
OneKey == {k1}
SameKey == r1 :> k1 @@ r2 :> k1
Builds == k1 :> {TRUE}

ReservedLimits == {conf(1, 0, 2, 2, 1), conf(1, 0, 1, 2, 1)}
FixedConfig == {conf(1, 1, 0, 2, 2)}
=============================================================================
