------------------------ MODULE MCEvidenceApprovals ------------------------
(* TLC instances of EvidenceApprovals. *)
EXTENDS EvidenceApprovals

Symmetry == Permutations(Workers) \cup Permutations(Bodies)
=============================================================================
