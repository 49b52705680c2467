----------------------------- MODULE MCDesktop -----------------------------
EXTENDS Desktop, TLC
Symmetry == Permutations(Toplevels) \cup Permutations(Keyboards)
=============================================================================
