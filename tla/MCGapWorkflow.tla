--------------------------- MODULE MCGapWorkflow ---------------------------
(* TLC instance of GapWorkflow.                                            *)
EXTENDS GapWorkflow, TLC

Symmetry == Permutations(Workers) \cup Permutations(Gaps)
=============================================================================
