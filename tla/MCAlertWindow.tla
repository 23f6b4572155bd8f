--------------------------- MODULE MCAlertWindow ----------------------------
EXTENDS AlertWindow, TLC
Symmetry == Permutations(Fog) \union Permutations(Edge)
=============================================================================
