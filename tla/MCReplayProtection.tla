------------------------- MODULE MCReplayProtection -------------------------
(* Two senders, a cache of two entries and sequence numbers modulo two, so  *)
(* that the ring and the counter both wrap within the messages sent.        *)
EXTENDS ReplayProtection, TLC
CONSTANTS s1, s2
MCSender == {s1, s2}
Symmetry == Permutations(MCSender)
=============================================================================
