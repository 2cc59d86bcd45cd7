---------------------------- MODULE MCTestEngine ----------------------------
(* Model-checking instance of TestEngine: symmetric drives and callers for *)
(* the safety runs.                                                        *)
EXTENDS TestEngine, TLC

Symmetry == Permutations(Serials) \cup Permutations(Callers)
=============================================================================
