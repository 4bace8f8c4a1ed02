--------------------------- MODULE AssetIdentity ---------------------------
(***************************************************************************)
(* Which host a report is about: EnvelopeEntityMapper of                   *)
(* services/normalization.py, fed by the collectors and saved entity by    *)
(* entity by CollectorIngestionService (services/ingestion.py).            *)
(*                                                                         *)
(* A record names its machine, or all the hosts of a Zabbix trigger, by    *)
(* one list of aliases.  The mapper keeps, for each bucket of assets, the  *)
(* host that each alias was last resolved to.  The worker has one mapper   *)
(* for its life; a push has one of its own that it forgets.  The tables    *)
(* are shared.                                                             *)
(*                                                                         *)
(* alias_map, which only tests fill, is empty.  Of a host only its         *)
(* existence is kept: the fields that hosts are merged by tell nothing     *)
(* apart here.  An alias that a list has twice is not taken out: the       *)
(* second changes nothing.  Software of Fleet, which has the aliases of    *)
(* the host record before it, takes the path of that record.               *)
(***************************************************************************)
EXTENDS Integers, Sequences, FiniteSets, FiniteSetsExt, SequencesExt

CONSTANTS
    Machines,
    Systems,      \* the sources: Fleet, Zabbix, Trivy, Wazuh
    BucketOf,     \* ASSET_BUCKET_BY_SOURCE: "pc", "server" or "neutral"
    Named,        \* the names by which a source knows a machine, the first
                  \* one its identity; <<>> when it does not know it
    Inventories,  \* the systems that list all their machines and addresses
    Triggers,     \* the triggers of a system, each the list of its hosts
    Ips,          \* addresses, which machines come to have and lose
    Slug,         \* what _scoped_host_id makes of a name or an address
    Worker,       \* the runner whose mapper stays
    Requests,     \* the runners of pushes
    NoHost,
    MaxBatches,   \* bound on the number of collections
    MaxEvents     \* bound on the problems or reports of a collection

Buckets == {"pc", "server", "neutral"}
Ingesters == {Worker} \cup Requests
Known(s) == {m \in Machines : Named[s][m] # <<>>}
Aliases == Ips \cup UNION {ToSet(Named[s][m]) : s \in Systems, m \in Machines}

ASSUME NameAssumption ==
    /\ \A s \in Systems : BucketOf[s] \in Buckets
    /\ Inventories \subseteq Systems
    /\ NoHost \notin Machines \cup Aliases
    /\ \A s \in Systems, m \in Machines : Named[s][m] \in Seq(Aliases)
    /\ \A s \in Systems : Triggers[s] \subseteq Seq(Known(s))
    /\ IsFiniteSet(Machines)
    /\ MaxBatches \in Nat /\ MaxEvents \in Nat

VARIABLES
    hosts,        \* the ids in the hosts table
    aliasHost,    \* host_aliases: the host of each <<source, alias>>
    hostRows,     \* host_observations, alerts, vulnerabilities: [source, of, id]
    mapper,       \* bucket_alias_map of each runner
    job,          \* the collection each runner has in hand
    batches,      \* the number of collections begun
    ties,         \* history: what was listed to each mapper in its life
    tied          \* history: the hosts a name was tied to in some life

identityVars == <<hosts, aliasHost, hostRows, mapper, job, batches, ties, tied>>

Empty == [b \in Buckets |-> [a \in Aliases |-> NoHost]]

-----------------------------------------------------------------------------
(* Mutant: an address is an alias whoever else has it.                     *)
NoneShared(s, lease) == {}

(* _shared_primary_ips, _shared_interface_ips: within one collection.      *)
SharedIps(s, lease) ==
    {ip \in Ips : Cardinality({m \in Known(s) : lease[m] = ip}) > 1}

(* _host_aliases, _extract_host_aliases: the names, then the address.      *)
AliasesOf(s, m, lease) ==
    IF s \in Inventories /\ lease[m] \in Ips \ SharedIps(s, lease)
    THEN Append(Named[s][m], lease[m]) ELSE Named[s][m]

(* _find_bucket_host_id: what the first known alias was resolved to.       *)
FindBucketHost(map, b, list) ==
    LET hit == {i \in 1..Len(list) : map[b][list[i]] # NoHost}
    IN  IF hit = {} THEN NoHost ELSE map[b][list[Min(hit)]]

(* _find_neutral_bridge_host_id: the host that PCs and servers agree on.   *)
Bridge(map, list) ==
    LET ids == {map[b][a] : b \in {"pc", "server"}, a \in ToSet(list)} \ {NoHost}
    IN  IF Cardinality(ids) = 1 THEN CHOOSE id \in ids : TRUE ELSE NoHost

(* Mutant: the id is made of the last alias.                               *)
LastAlias(b, list) == <<b, Slug[list[Len(list)]]>>

(* _scoped_host_id of the identity, the first alias.                       *)
ScopedHostId(b, list) == <<b, Slug[list[1]]>>

(* _resolve_host_id; a problem of a trigger without hosts names nobody,    *)
(* and its alert has no host (_map_alert).                                 *)
Resolve(map, b, list) ==
    LET found == FindBucketHost(map, b, list)
        bridged == IF b = "neutral" THEN Bridge(map, list) ELSE NoHost
    IN  IF list = <<>> THEN NoHost
        ELSE IF found # NoHost THEN found
        ELSE IF bridged # NoHost THEN bridged
        ELSE ScopedHostId(b, list)

(* _register_bucket_aliases *)
RegisterAliases(map, b, list, id) ==
    [map EXCEPT ![b] = [a \in Aliases |-> IF a \in ToSet(list) THEN id ELSE @[a]]]

(* Mutant: the row comes before the aliases.                               *)
RowFirst(rec, id) ==
    IF rec.aliases = <<>> THEN <<[kind |-> "row", of |-> rec.of, id |-> id]>>
    ELSE <<[kind |-> "host", of |-> rec.of, id |-> id],
           [kind |-> "row", of |-> rec.of, id |-> id]>>
         \o [i \in 1..Len(rec.aliases) |-> [kind |-> "alias", of |-> rec.aliases[i], id |-> id]]

(* map_envelope: the host, its aliases of this source, then the row; the   *)
(* row alone when nobody is named.                                         *)
Entities(rec, id) ==
    IF rec.aliases = <<>> THEN <<[kind |-> "row", of |-> rec.of, id |-> id]>>
    ELSE <<[kind |-> "host", of |-> rec.of, id |-> id]>>
         \o [i \in 1..Len(rec.aliases) |-> [kind |-> "alias", of |-> rec.aliases[i], id |-> id]]
         \o <<[kind |-> "row", of |-> rec.of, id |-> id]>>

-----------------------------------------------------------------------------
(* What was listed.  A listing ties the names of a machine to each other   *)
(* and to an address that it alone has; a problem ties the names of all    *)
(* the hosts of its trigger.  The first name is the identity.  Nothing     *)
(* here is read by the code.                                               *)

Names(s, ms) == UNION {ToSet(Named[s][m]) : m \in ms}

MachineTie(s, m, lease) ==
    [bucket |-> BucketOf[s], first |-> Named[s][m][1],
     names |-> Names(s, {m}) \cup
        {ip \in Ips : lease[m] = ip /\ \A n \in Known(s) \ {m} : lease[n] # ip}]

ProblemTie(s, t) ==
    [bucket |-> BucketOf[s], first |-> Named[s][t[1]][1], names |-> Names(s, ToSet(t))]

(* The names that a chain of ties leads to.                                *)
Reached(T, b, x) ==
    LET closed == {S \in SUBSET Aliases :
                      \A t \in T : t.bucket = b /\ t.names \cap S # {} => t.names \subseteq S}
    IN  {y \in Aliases : \A S \in closed : x \in S => y \in S}

OwnHosts(T, b, x) ==
    {<<b, Slug[t.first]>> : t \in {u \in T : u.bucket = b /\ u.first \in Reached(T, b, x)}}

(* The hosts a name is tied to: those of the identities it is tied to, and *)
(* for a neutral name also those its names are tied to as PC or server.    *)
TiedHosts(T, b, x) ==
    IF b = "neutral"
    THEN OwnHosts(T, b, x)
         \cup UNION {OwnHosts(T, c, y) : c \in {"pc", "server"}, y \in Reached(T, b, x)}
    ELSE OwnHosts(T, b, x)

-----------------------------------------------------------------------------
IdentityInit ==
    /\ hosts = {}
    /\ aliasHost = [k \in Systems \X Aliases |-> NoHost]
    /\ hostRows = {}
    /\ mapper = [r \in Ingesters |-> Empty]
    /\ job = [r \in Ingesters |-> NoHost]
    /\ batches = 0
    /\ ties = [r \in Ingesters |-> {}]
    /\ tied = [b \in Buckets |-> [a \in Aliases |-> {}]]

(* A refresh waits to collect the source again, with the mapper it has.    *)
Again(s) == [source |-> s, todo |-> <<>>, writes |-> <<>>]

BeginBatch(r, s, records, listed) ==
    /\ job[r] = NoHost \/ job[r] = Again(s)
    /\ batches < MaxBatches
    /\ records # <<>>
    /\ batches' = batches + 1
    /\ job' = [job EXCEPT ![r] = [source |-> s, todo |-> records, writes |-> <<>>]]
    /\ ties' = [ties EXCEPT ![r] = @ \cup listed]
    /\ tied' = [b \in Buckets |-> [a \in Aliases |->
                  tied[b][a] \cup TiedHosts(ties[r] \cup listed, b, a)]]
    /\ UNCHANGED <<hosts, aliasHost, hostRows, mapper>>

(* A host record, whose row is replaced by the next one.                   *)
HostRecord(s, m, lease) ==
    [of |-> [kind |-> "state", about |-> {m}], aliases |-> AliasesOf(s, m, lease)]

(* _extract_problem_host_aliases: the names of all the hosts of a trigger. *)
ProblemRecord(s, t) ==
    [of |-> [kind |-> "event", about |-> ToSet(t)],
     aliases |-> FlattenSeq([i \in 1..Len(t) |-> Named[s][t[i]]])]

ReportRecord(s, m) ==
    [of |-> [kind |-> "event", about |-> {m}], aliases |-> Named[s][m]]

(* collect of Fleet or Zabbix: every machine, with the addresses of now,   *)
(* then the problems.                                                      *)
CollectInventory(r, s) ==
    \E lease \in [Known(s) -> Ips \cup {NoHost}], problems \in BoundedSeq(Triggers[s], MaxEvents) :
        LET list == SetToSeq(Known(s))
        IN  BeginBatch(r, s,
                [i \in 1..Len(list) |-> HostRecord(s, list[i], lease)]
                \o [i \in 1..Len(problems) |-> ProblemRecord(s, problems[i])],
                {MachineTie(s, m, lease) : m \in Known(s)}
                \cup {ProblemTie(s, t) : t \in ToSet(problems) \ {<<>>}})

(* collect of Trivy or Wazuh: reports, each about one machine.             *)
CollectReports(r, s) ==
    \E list \in BoundedSeq(Known(s), MaxEvents) \ {<<>>} :
        BeginBatch(r, s, [i \in 1..Len(list) |-> ReportRecord(s, list[i])],
                   {MachineTie(s, m, [k \in Known(s) |-> NoHost]) : m \in ToSet(list)})

(* map_envelope of the next record: it is resolved, and its aliases are    *)
(* registered before anything of it is saved.                              *)
MapEnvelope(r) ==
    /\ job[r] # NoHost /\ job[r].writes = <<>> /\ job[r].todo # <<>>
    /\ LET s == job[r].source
           rec == Head(job[r].todo)
           id == Resolve(mapper[r], BucketOf[s], rec.aliases)
       IN  /\ mapper' = [mapper EXCEPT ![r] = RegisterAliases(@, BucketOf[s], rec.aliases, id)]
           /\ job' = [job EXCEPT ![r] = [source |-> s, todo |-> Tail(@.todo),
                                         writes |-> Entities(rec, id)]]
    /\ UNCHANGED <<hosts, aliasHost, hostRows, batches, ties, tied>>

(* A mapper that stays, or none.                                           *)
Forgotten(r) == IF r = Worker THEN mapper ELSE [mapper EXCEPT ![r] = Empty]
LifeEnded(r) == IF r = Worker THEN ties ELSE [ties EXCEPT ![r] = {}]

(* The row by its id: the state of a host is replaced, an event is added.  *)
SaveRow(s, e) ==
    {x \in hostRows : ~(e.of.kind = "state" /\ x.source = s /\ x.of = e.of)}
    \cup {[source |-> s, of |-> e.of, id |-> e.id]}

(* The upsert of a host, of an alias by source and value, of a row by id.  *)
SaveEntity(r) ==
    /\ job[r] # NoHost /\ job[r].writes # <<>>
    /\ LET e == Head(job[r].writes)
           s == job[r].source
           left == Tail(job[r].writes)
           last == left = <<>> /\ job[r].todo = <<>>
       IN  /\ hosts' = IF e.kind = "host" THEN hosts \cup {e.id} ELSE hosts
           /\ aliasHost' = IF e.kind = "alias" THEN [aliasHost EXCEPT ![<<s, e.of>>] = e.id]
                           ELSE aliasHost
           /\ hostRows' = IF e.kind = "row" THEN SaveRow(s, e) ELSE hostRows
           /\ job' = [job EXCEPT ![r] = IF last THEN NoHost ELSE [@ EXCEPT !.writes = left]]
           /\ mapper' = IF last THEN Forgotten(r) ELSE mapper
           /\ ties' = IF last THEN LifeEnded(r) ELSE ties
    /\ UNCHANGED <<batches, tied>>

(* A save raises: the attempt ends; a push is over, a refresh may have an  *)
(* attempt left (run_cycle), the worker goes on.  What was mapped stays in *)
(* a mapper that stays.                                                    *)
SaveRaises(r) ==
    /\ job[r] # NoHost /\ job[r].writes # <<>>
    /\ \/ /\ job' = [job EXCEPT ![r] = NoHost]
          /\ mapper' = Forgotten(r)
          /\ ties' = LifeEnded(r)
       \/ /\ job' = [job EXCEPT ![r] = Again(job[r].source)]
          /\ UNCHANGED <<mapper, ties>>
    /\ UNCHANGED <<hosts, aliasHost, hostRows, batches, tied>>

(* The worker ends, and another begins with an empty mapper.               *)
RestartWorker ==
    /\ job' = [job EXCEPT ![Worker] = NoHost]
    /\ mapper' = [mapper EXCEPT ![Worker] = Empty]
    /\ ties' = [ties EXCEPT ![Worker] = {}]
    /\ UNCHANGED <<hosts, aliasHost, hostRows, batches, tied>>

IdentityNext ==
    \/ \E r \in Ingesters :
          \/ \E s \in Inventories : CollectInventory(r, s)
          \/ \E s \in Systems \ Inventories : CollectReports(r, s)
          \/ MapEnvelope(r) \/ SaveEntity(r) \/ SaveRaises(r)
    \/ RestartWorker

IdentitySpec == IdentityInit /\ [][IdentityNext]_identityVars

-----------------------------------------------------------------------------
(* Properties *)

(* The hosts that the identity of a machine was ever tied to.              *)
TiedTo(s, m) == tied[BucketOf[s]][Named[s][m][1]]
Undivided(s, m) == \A i, j \in TiedTo(s, m) : i = j

(* "서로 다른 호스트가 한 host_id 로 병합" (fleet_api.py:136, why shared     *)
(* addresses are no aliases): a row about a machine is put only on a host  *)
(* that the listings of one life of a mapper tied the machine to, by its   *)
(* names, by an address it had alone, or by a trigger over several hosts,  *)
(* whoever maps it, in which order and with what failures.  So two         *)
(* machines on one host have both been tied to it: names that two share,   *)
(* addresses that pass and triggers over both do that, and nothing else.   *)
MachinesApart ==
    \A x \in hostRows : \A m \in x.of.about : x.id \in TiedTo(x.source, m)

(* A machine has one host, across restarts of the worker, pushes beside it *)
(* and failed attempts, when its sources agree on its first name and no    *)
(* listing has tied that name to a second host.                            *)
OneHost ==
    \A x, y \in hostRows : \A m \in x.of.about \cap y.of.about :
        /\ BucketOf[x.source] = BucketOf[y.source]
        /\ Named[x.source][m][1] = Named[y.source][m][1]
        /\ Undivided(x.source, m)
        => x.id = y.id

(* The coverage pages count a host as covered by the sources it has an     *)
(* alias of: a row about a machine names a host that exists, wherever an   *)
(* attempt was cut short, and one that has an alias of the source, as long *)
(* as no listing has tied the machine to a second host, which takes the    *)
(* aliases over.                                                           *)
CoverageShown ==
    \A x \in hostRows : \A m \in x.of.about :
        /\ x.id \in hosts
        /\ Undivided(x.source, m) => \E a \in Aliases : aliasHost[<<x.source, a>>] = x.id

(* "동일 alias가 여러 host에 걸리면 자동 병합 금지" (PHASE1_LOGICAL_SCHEMA, *)
(* 186): no two machines of an inventory are merged into one host.  The    *)
(* code fails this: a problem of a trigger over two hosts has the names of *)
(* both in one list of aliases, and the mapper gives them one host.        *)
MachinesNeverMerge ==
    \A x, y \in {z \in hostRows : z.of.kind = "state"} :
        x.source = y.source /\ x.of # y.of => x.id # y.id
=============================================================================
