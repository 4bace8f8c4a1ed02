-------------------------- MODULE MCAssetIdentity --------------------------
(* A PC that Fleet lists; two servers that Zabbix lists, one of them with  *)
(* the name of the PC, and a trigger over both; Trivy scans an image of    *)
(* one name on each of them; Wazuh agents on the PC and on a server.       *)
EXTENDS AssetIdentity, TLC

CONSTANTS pc, srvA, srvB, nameA, nameB, hostid, image

MCBucketOf ==
    "fleet" :> "pc" @@ "zabbix" :> "server" @@ "trivy" :> "server" @@ "wazuh" :> "neutral"
Nobody == [m \in Machines |-> <<>>]
MCNamed ==
    "fleet" :> [Nobody EXCEPT ![pc] = <<nameA>>]
    @@ "zabbix" :> [Nobody EXCEPT ![srvA] = <<nameA>>, ![srvB] = <<nameB, hostid>>]
    @@ "trivy" :> [Nobody EXCEPT ![srvA] = <<nameA, image>>, ![srvB] = <<nameB, image>>]
    @@ "wazuh" :> [Nobody EXCEPT ![pc] = <<nameA>>, ![srvB] = <<nameB>>]
MCTriggers ==
    [s \in Systems |-> IF s = "zabbix" THEN {<<srvA, srvB>>, <<srvB>>, <<>>} ELSE {}]
MCSlug == [a \in Aliases |-> a]
=============================================================================
