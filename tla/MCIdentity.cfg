CONSTANTS
    pc = pc
    srvA = srvA
    srvB = srvB
    nameA = nameA
    nameB = nameB
    hostid = hostid
    image = image
    Machines = {pc, srvA, srvB}
    Systems = {"fleet", "zabbix", "trivy", "wazuh"}
    BucketOf <- MCBucketOf
    Named <- MCNamed
    Inventories = {"fleet", "zabbix"}
    Triggers <- MCTriggers
    Ips = {ip1}
    Slug <- MCSlug
    Worker = worker
    Requests = {push}
    NoHost = NoHost
    MaxBatches = 2
    MaxEvents = 1
SPECIFICATION IdentitySpec
INVARIANTS MachinesApart  CoverageShown
