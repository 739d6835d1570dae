---------------------------- MODULE MCFileStream ----------------------------
EXTENDS FileStream, TLC

CONSTANTS s1, s2

TwoStreams == {s1, s2}
OneStream == {s1}

SwapStreams == Permutations({s1, s2})
=============================================================================
