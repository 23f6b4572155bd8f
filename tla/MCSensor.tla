------------------------------ MODULE MCSensor ------------------------------
EXTENDS SensorReplay, TLC

Symmetry == Permutations(Sensor) \union Permutations(Fog)
=============================================================================
