------------------------------ MODULE MCWorker ------------------------------
(* TLC instances of Worker. *)
EXTENDS Worker

CONSTANTS w1, w2, api, zabbix, ldap

TwoWorkersAndApi == {w1, w2, api}
TwoWorkersOrOneAndApi == {{w1, w2}, {w1, api}}
ZabbixFirst == <<zabbix, ldap>>
=============================================================================
