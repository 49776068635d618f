-------------------------- MODULE MC_Mac9PVolume --------------------------
(* Lookups of two files of the root directory.                            *)
EXTENDS Mac9PVolume, TLC

CONSTANTS l1, l2, l3, l4, fa, fb

MCLookups == {l1, l2, l3}
MCFourLookups == {l1, l2, l3, l4}
MCFiles == {fa, fb}
MCSymmetry == Permutations(MCFourLookups) \cup Permutations(MCFiles)
=============================================================================
