------------------------ MODULE MCGovernanceLedger -------------------------
(* TLC instances of GovernanceLedger. *)
EXTENDS GovernanceLedger
=============================================================================
