---------------------------- MODULE MCSchemaBoot ----------------------------
(* A file that creates both normalised tables after one that does not; a   *)
(* version that names its framework.                                       *)
EXTENDS SchemaBoot, TLC

CONSTANTS base, gov, framework, version, fw, fv

MCFiles == <<base, gov>>
MCKinds == <<framework, version>>
MCTableOf == framework :> gov @@ version :> gov
MCKindOf == fw :> framework @@ fv :> version
MCParent == fw :> fw @@ fv :> fw
=============================================================================
