--------------------------- MODULE MCUniverAssets ---------------------------
EXTENDS UniverAssets, TLC
CONSTANTS a1, a2, t1, t2, m1
MCUploads == {a1, a2}
MCUnits == {t1, t2}
MCLocal == {t2}
Symmetry == Permutations(MCUploads)
=============================================================================
