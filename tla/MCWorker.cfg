CONSTANTS
    w1 = w1
    w2 = w2
    api = api
    zabbix = zabbix
    ldap = ldap
    Instances = {w1, w2}
    Refreshers = {api}
    Runners <- TwoWorkersAndApi
    Sources = {zabbix, ldap}
    Registered = {zabbix, ldap}
    Refreshable = {zabbix}
    Order <- ZabbixFirst
    Deployments <- TwoWorkersOrOneAndApi
    Idle = Idle
    Nobody = Nobody
    MaxRetries = 1
    MaxClock = 2
    MaxFaults = 1
SPECIFICATION Spec
INVARIANT OneWorkerPolls
PROPERTIES SuccessIsKept Takeover
