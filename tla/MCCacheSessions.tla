------------------------- MODULE MCCacheSessions -------------------------
(* Constants for TLC.                                                     *)
EXTENDS CacheSessions

CONSTANTS r1, r2

\* Two versions of one size.
OneChunk == <<1, 1>>

\* One request for the whole file, another by range; either may fall back to a spool.
BuildModes == (r1 :> {"full"}) @@ (r2 :> {"range"})

\* One request for the whole file, another by either of the other entries.
MixedModes == (r1 :> {"full"}) @@ (r2 :> {"range", "nocache"})

\* Sessions are interchangeable.
Symmetry == Permutations(Session)
==========================================================================
