------------------------------ MODULE ApiStores ------------------------------
(***************************************************************************)
(* The operational records of the API process: api/routes/alerts.py,       *)
(* incidents.py, vulnerabilities.py, assets.py, accounts_gov.py,           *)
(* settings.py, the controls of compliance.py, the profiles and sessions   *)
(* of auth.py and session_store.py.  They share one design: a dictionary   *)
(* that handlers change and pages read, a persist hook (api/server.py)     *)
(* that writes the changed record through to its table                     *)
(* (repositories/state_postgres.py), and a boot that loads the tables.     *)
(*                                                                         *)
(* A handler is the list of writes it makes.  The code between two calls   *)
(* of the database runs as one step: a handler starts by reading the       *)
(* dictionaries and putting its first record there; when a write is done,  *)
(* the next record is put.  Handlers run in threads and interleave while   *)
(* they wait for the database.  A write that fails ends its handler with   *)
(* an error, except where the code guards it.                              *)
(*                                                                         *)
(* One table has a second writer: the poller of Fleet (pollers/fleet.py),  *)
(* in the worker or in a refresh of the assets, stores the local accounts  *)
(* of its hosts, and no dictionary of the API hears of it.  A save takes   *)
(* the rows of a host away and puts the new ones in one transaction; what  *)
(* two such transactions leave that overlap, rows of the one, the other or *)
(* both, is not modelled beyond marking the record as stale.               *)
(***************************************************************************)
EXTENDS Integers, Sequences, FiniteSets, SequencesExt

CONSTANTS
    Workers,      \* the threads that run handlers
    Pollers,      \* the runs of FleetPoller: the worker's and those of a refresh
    Alerts,       \* alerts of Zabbix
    Incidents, Approvals, Evidence, Tokens,   \* fresh ids (uuid4)
    Nameless,     \* the vulnerabilities whose host has an empty hostname
    Hosts, Vulns, BaseControls, CustomControls, Users,
    Grants,       \* what an approval may say: [user, kind, scope]
    Inventories,  \* the accounts a host may push, raw, in order
    DirStatus,    \* the LDAP directory: "active", "disabled" or "none" by user
    OwnerForms,   \* forms for an owner: [owner, exc, tags], Absent where left out
    Imports,      \* CSV imports: sequences of [host, form]
    Absent, None,
    MaxOps        \* bound on the number of handlers started

ASSUME GrantAssumption ==
    \A g \in Grants : g.kind \in {"account", "sudo"} /\ g.scope \in Hosts \cup {"global"}

Rows == UNION {ToSet(rows) : rows \in Imports}
ASSUME ImportAssumption ==
    /\ Imports \subseteq Seq(Rows) \ {<<>>}
    /\ \A row \in Rows : row.host \in Hosts

(* The record of an alert: its status and the changes to it.               *)
AlertStatuses == {"pending", "reviewing", "resolved"}
Triages == [status : AlertStatuses, history : Seq(AlertStatuses \X AlertStatuses)]
ASSUME NoneAssumption == None \notin Triages
ASSUME NamelessAssumption == Nameless \subseteq Vulns

Controls == BaseControls \cup CustomControls
ASSUME FiniteAssumption == IsFiniteSet(Controls) /\ IsFiniteSet(Evidence)

(* Entries of the change history of assets (asset_audit_log): a field and  *)
(* its new value; a field is empty or set.                                 *)
AuditEntries == [of : {"owner", "exc"} \X Hosts \cup {"plan", "vuln_exc", "risk"} \X Vulns,
                 new : {"", "set"}]

(* A cell is a record of a store, named by the store and its key.          *)
Cells(store, keys) == {<<store, k>> : k \in keys}
Unique == Cells("approval", Approvals) \cup Cells("evidence", Evidence)
          \cup Cells("session", Tokens)
Cached == Unique \cup Cells("triage", Alerts) \cup Cells("incident", Incidents)
          \cup Cells("owner", Hosts) \cup Cells("accounts", Hosts)
          \cup Cells("vuln", Vulns) \cup Cells("risk", Vulns)
          \cup Cells("status", Controls) \cup Cells("edit", Controls)
          \cup Cells("profile", Users) \cup Cells("audit", AuditEntries)
          \cup Cells("setting", {"enabled", "source", "doa", "last_run"})
(* "query" stands for a read of the store of entities, which writes nothing. *)
External == Cells("zabbix", Alerts) \cup Cells("suppress", Alerts) \cup Cells("query", Alerts)
            \cup Cells("event", Alerts \X {"triage", "suppress"})

VARIABLES
    tab,          \* the tables and Zabbix, a value for each cell
    mem,          \* the dictionaries of the API process
    op,           \* the handler each worker runs
    poll,         \* what each poller still has to store: [host, list]
    ops,          \* the number of handlers started
    used,         \* the fresh ids handed out
    stale,        \* history: cells whose last write failed or crossed another
    doubt,        \* history: cells with such a write ever, or one cut short
    polled,       \* history: accounts a poller stored last, that nobody was shown
    gone,         \* history: unique records whose deletion went through
    granted       \* history: approvals that an officer gave

vars == <<tab, mem, op, poll, ops, used, stale, doubt, polled, gone, granted>>

-----------------------------------------------------------------------------
(* Handlers, as the lists of writes they make from what memory holds *)

Write(store, key, val) == [cell |-> <<store, key>>, val |-> val, guarded |-> FALSE]
Guarded(store, key, val) == [cell |-> <<store, key>>, val |-> val, guarded |-> TRUE]

(* The status changed in place, and the change kept.                       *)
Moved(rec, status) ==
    [rec EXCEPT !.status = status, !.history = Append(@, <<rec.status, status>>)]

TriageOf(a) ==
    IF mem[<<"triage", a>>] = None THEN [status |-> "pending", history |-> <<>>]
    ELSE mem[<<"triage", a>>]

(* Mutant: Zabbix is told before the record is stored.                     *)
TellFirst(a, status) ==
    <<Write("query", a, None), Guarded("zabbix", a, status),
      Guarded("event", <<a, "triage">>, TRUE), Write("triage", a, Moved(TriageOf(a), status))>>

(* PATCH /alerts/{id}/triage: the record, the wait for the alert of the    *)
(* store of entities, then the comment on the Zabbix problem, with the     *)
(* status the record has by then, and the event that says what was sent.   *)
TriageUpdate(a, status) ==
    <<Write("triage", a, Moved(TriageOf(a), status)), Write("query", a, None),
      Guarded("zabbix", a, "present"), Guarded("event", <<a, "triage">>, TRUE)>>

(* POST /alerts/{id}/zabbix/suppress and unsuppress: no record, only the   *)
(* call and its event.                                                     *)
SuppressUpdate(a, on) ==
    <<Guarded("suppress", a, on), Guarded("event", <<a, "suppress">>, TRUE)>>

(* POST /incidents *)
IncidentCreate(i) ==
    <<Write("incident", i,
            [status |-> "open", history |-> <<<<"open", "open">>>>, notes |-> 0])>>

(* PATCH /incidents/{id}: only another status is kept as a change.         *)
IncidentUpdate(i, status) ==
    LET rec == mem[<<"incident", i>>]
    IN  IF rec = None THEN <<>>
        ELSE <<Write("incident", i, IF status = rec.status THEN rec ELSE Moved(rec, status))>>

(* POST /incidents/{id}/notes *)
IncidentNote(i) ==
    LET rec == mem[<<"incident", i>>]
    IN  IF rec = None THEN <<>> ELSE <<Write("incident", i, [rec EXCEPT !.notes = @ + 1])>>

(* The loop of _upsert_owner: an entry for a field that changed.           *)
Audit(of, old, new) ==
    IF old = new THEN <<>> ELSE <<Write("audit", [of |-> of, new |-> new], TRUE)>>

(* _record_vuln_audit: the same, and none without the name of a host.      *)
VulnAudit(v, field, old, new) ==
    IF v \in Nameless THEN <<>> ELSE Audit(<<field, v>>, old, new)

VulnOf(v) == IF mem[<<"vuln", v>>] = None THEN [plan |-> "", exc |-> ""] ELSE mem[<<"vuln", v>>]
RiskOf(v) == IF mem[<<"risk", v>>] = None THEN "" ELSE mem[<<"risk", v>>]

(* PUT /vulnerabilities/{id}/plan                                          *)
PlanUpsert(v) ==
    <<Write("vuln", v, [VulnOf(v) EXCEPT !.plan = "set"])>>
    \o VulnAudit(v, "plan", VulnOf(v).plan, "set")

(* PUT and DELETE /vulnerabilities/{id}/exception: the record first, then  *)
(* the history.                                                            *)
ExceptionUpsert(v, exc) ==
    <<Write("vuln", v, [VulnOf(v) EXCEPT !.exc = exc])>>
    \o VulnAudit(v, "vuln_exc", VulnOf(v).exc, exc)
ExceptionClear(v) == IF mem[<<"vuln", v>>] = None THEN <<>> ELSE ExceptionUpsert(v, "")

(* PUT /vulnerabilities/{id}/risk                                          *)
RiskUpsert(v) == <<Write("risk", v, "set")>> \o VulnAudit(v, "risk", RiskOf(v), "set")

(* The owner that a form makes of the present one: what the form leaves    *)
(* out stays.                                                              *)
OwnerOf(m, h) ==
    IF m[<<"owner", h>>] = None THEN [owner |-> "", exc |-> "", tags |-> {}] ELSE m[<<"owner", h>>]
Filled(old, form) == [f \in DOMAIN old |-> IF form[f] = Absent THEN old[f] ELSE form[f]]

OwnerAudits(h, old, new) ==
    Audit(<<"owner", h>>, old.owner, new.owner) \o Audit(<<"exc", h>>, old.exc, new.exc)

(* Mutant: the record before its history.                                  *)
RecordFirst(m, h, form) ==
    LET new == Filled(OwnerOf(m, h), form)
    IN  <<Write("owner", h, new)>> \o OwnerAudits(h, OwnerOf(m, h), new)

(* _upsert_owner: the history of the change, then the record.              *)
UpsertOwner(m, h, form) ==
    LET new == Filled(OwnerOf(m, h), form)
    IN  OwnerAudits(h, OwnerOf(m, h), new) \o <<Write("owner", h, new)>>

(* DELETE of a record that is there; otherwise 404.                        *)
Deletion(cell) ==
    IF mem[cell] = None THEN <<>> ELSE <<Write(cell[1], cell[2], None)>>
OwnersDelete(h) == Deletion(<<"owner", h>>)

-----------------------------------------------------------------------------
(* Account governance *)

(* normalize_account: what the groups and the uid make of a local account. *)
NormalizeAccount(raw) ==
    LET sudo == raw.sudo \/ raw.groups \cap {"sudo", "wheel", "admin"} # {}
    IN  [user |-> raw.user, sudo |-> sudo, idle |-> raw.idle,
         priv |-> \/ raw.root \/ sudo
                  \/ raw.groups \cap {"root", "wheel", "sudo", "admin", "adm"} # {}]

(* POST /ingest/accounts, unless collection is switched off.               *)
IngestAccounts(h, list) ==
    IF mem[<<"setting", "enabled">>] = "false" THEN <<>>
    ELSE <<Write("accounts", h, [i \in 1..Len(list) |-> NormalizeAccount(list[i])])>>

(* _capture_accounts: the first of a name, without what Fleet does not     *)
(* tell.                                                                   *)
Captured(list) ==
    LET first == SelectSeq([i \in 1..Len(list) |-> <<i, list[i]>>],
                           LAMBDA x : \A j \in 1..(x[1] - 1) : list[j].user # x[2].user)
    IN  [i \in 1..Len(first) |->
            NormalizeAccount([first[i][2] EXCEPT !.sudo = FALSE, !.idle = FALSE])]

(* Mutant: every entry of the ledger is a baseline.                        *)
AnyEntry == {p \in Approvals : mem[<<"approval", p>>] # None}

(* _overview: only approved entries are the baseline.                      *)
Baseline ==
    {p \in Approvals : mem[<<"approval", p>>] # None
                       /\ mem[<<"approval", p>>].status = "approved"}

(* _approved of reconcile: a sudo approval also allows the account.        *)
Covers(grant, user, h, kind) ==
    /\ grant.user = user
    /\ grant.scope \in {"global", h}
    /\ kind = "sudo" => grant.kind = "sudo"

Approved(user, h, kind) ==
    \E p \in Baseline : Covers(mem[<<"approval", p>>].grant, user, h, kind)

(* reconcile: the findings of one local account.                           *)
Findings(h, a) ==
    {f \in {"leaver", "orphan_priv", "unapproved_sudo", "dormant"} :
        CASE f = "leaver" -> DirStatus[a.user] = "disabled"
          [] f = "orphan_priv" -> a.priv /\ DirStatus[a.user] = "none"
                                  /\ ~Approved(a.user, h, "account")
          [] f = "unapproved_sudo" -> a.sudo /\ ~Approved(a.user, h, "sudo")
          [] f = "dormant" -> a.idle}

(* POST /accounts/approvals: an officer enters an approval.                *)
AddApproval(p, g) == <<Write("approval", p, [grant |-> g, status |-> "approved"])>>

AlreadyPending(g) ==
    \E p \in Approvals : mem[<<"approval", p>>] = [grant |-> g, status |-> "pending"]

(* POST /accounts/approval-requests: 409 when the same request is pending. *)
CreateRequest(p, g) ==
    IF AlreadyPending(g) THEN <<>>
    ELSE <<Write("approval", p, [grant |-> g, status |-> "pending"])>>

(* POST /accounts/approvals/{id}/approve, on any entry and in place        *)
ApproveRequest(p) ==
    IF mem[<<"approval", p>>] = None THEN <<>>
    ELSE <<Write("approval", p, [mem[<<"approval", p>>] EXCEPT !.status = "approved"])>>

(* POST .../reject and DELETE /accounts/approvals/{id}                     *)
RejectRequest(p) == Deletion(<<"approval", p>>)

(* POST /accounts/collection: the switch is stored before the source is    *)
(* looked at, so a refused request may have changed the switch.            *)
SetCollection(enabled, source) ==
    <<Write("setting", "enabled", enabled)>>
    \o (IF source \in {"fleet", "script"} THEN <<Write("setting", "source", source)>> ELSE <<>>)

-----------------------------------------------------------------------------
(* Settings, controls, profiles, sessions *)

(* PUT /settings/risk *)
PutRisk(doa) == <<Write("setting", "doa", doa)>>

(* merge_edits: the controls there are, base and overlay.                  *)
Catalog ==
    {c \in BaseControls : mem[<<"edit", c>>] # "delete"}
    \cup {c \in CustomControls : mem[<<"edit", c>>] # None}

(* PUT /controls/status/{id}, of a control that is in the catalogue        *)
StatusUpsert(c, s) == IF c \in Catalog THEN <<Write("status", c, s)>> ELSE <<>>

(* POST /controls *)
SaveCatalogControl(c) == <<Write("edit", c, "upsert")>>

(* DELETE /controls/{id}: a base control is hidden, another one removed.   *)
DeleteControl(c) ==
    IF c \in BaseControls THEN <<Write("edit", c, "delete")>> ELSE Deletion(<<"edit", c>>)

(* POST .../evidence-records, by hand; DELETE .../evidence-records/{id}    *)
AddEvidence(e, c) == <<Write("evidence", e, c)>>
DeleteEvidence(e) == Deletion(<<"evidence", e>>)

(* _run_bulk_snapshot: a record for each control, then the time of the run.*)
BulkSnapshot(ids) ==
    LET list == SetToSeq(Catalog)
        fresh == SetToSeq(ids)
    IN  [i \in 1..Len(list) |-> Write("evidence", fresh[i], list[i])]
        \o <<Write("setting", "last_run", "now")>>

(* POST /auth/profile *)
UpdateProfile(u, name) == <<Write("profile", u, name)>>

(* POST /auth/login, after the password was verified: the session counts   *)
(* from memory, whether it could be stored or not.                         *)
AuthLogin(t, u) == <<Guarded("session", t, u)>>

(* GET /auth/logout: a failed deletion is logged and answered as success.  *)
AuthLogout(t) ==
    IF mem[<<"session", t>>] = None THEN <<>> ELSE <<Guarded("session", t, None)>>

-----------------------------------------------------------------------------
(* No handler.                                                             *)
Idle == [todo |-> <<>>, rows |-> <<>>]

Init ==
    /\ tab = [c \in Cached \cup External |-> None]
    /\ mem = [c \in Cached |-> None]
    /\ op = [w \in Workers |-> Idle]
    /\ poll = [q \in Pollers |-> <<>>]
    /\ ops = 0
    /\ used = {}
    /\ stale = {}
    /\ doubt = {}
    /\ polled = {}
    /\ gone = {}
    /\ granted = {}

Busy(w) == op[w] # Idle
Due(w) == Head(op[w].todo)
InFlight(cell) == \E w \in Workers : Busy(w) /\ Due(w).cell = cell

Polling(q) == poll[q] # <<>>
(* The accounts a poller stores next.                                      *)
Bound(q) == <<"accounts", Head(poll[q]).host>>

(* The first write of a list, made definite when its turn comes.           *)
At(m, todo) ==
    IF todo[1].cell[1] = "zabbix" /\ todo[1].val = "present"
    THEN <<[todo[1] EXCEPT !.val = m[<<"triage", todo[1].cell[2]>>].status]>> \o Tail(todo)
    ELSE todo

(* The dictionary entry of a write.                                        *)
Put(m, write) == IF write.cell \in Cached THEN [m EXCEPT ![write.cell] = write.val] ELSE m

(* Two have put the same record and not stored it.                         *)
Crossed(w, write) ==
    {write.cell} \cap ({Due(v).cell : v \in {u \in Workers \ {w} : Busy(u)}}
                       \cup {Bound(q) : q \in {p \in Pollers : Polling(p)}})

(* A handler starts, puts its first record and waits for the database.     *)
Begin(w, writes, rows) ==
    /\ ~Busy(w)
    /\ ops < MaxOps
    /\ writes # <<>>
    /\ ops' = ops + 1
    /\ op' = [op EXCEPT ![w] = [todo |-> writes, rows |-> rows]]
    /\ mem' = Put(mem, Head(writes))
    /\ stale' = stale \cup Crossed(w, Head(writes))
    /\ doubt' = doubt \cup Crossed(w, Head(writes))
    /\ UNCHANGED <<tab, poll, polled, gone>>

Start(w, writes) == Begin(w, writes, <<>>) /\ UNCHANGED <<used, granted>>

(* A handler that makes a record with a fresh id.                          *)
Fresh(w, ids, writes) ==
    /\ ids \cap used = {}
    /\ Begin(w, writes, <<>>)
    /\ used' = used \cup ids

(* POST /assets/owners/import: row by row.                                 *)
OwnersImport(w, rows) ==
    /\ Begin(w, UpsertOwner(mem, rows[1].host, rows[1].form), Tail(rows))
    /\ UNCHANGED <<used, granted>>

RequestOrGrant(w) ==
    \E p \in Approvals :
        \/ \E g \in Grants :
              \/ Fresh(w, {p}, CreateRequest(p, g)) /\ UNCHANGED granted
              \/ Fresh(w, {p}, AddApproval(p, g)) /\ granted' = granted \cup {p}
        \/ Begin(w, ApproveRequest(p), <<>>) /\ granted' = granted \cup {p} /\ UNCHANGED used
        \/ Start(w, RejectRequest(p))

Create(w) ==
    \/ \E i \in Incidents : Fresh(w, {i}, IncidentCreate(i)) /\ UNCHANGED granted
    \/ \E e \in Evidence, c \in Controls : Fresh(w, {e}, AddEvidence(e, c)) /\ UNCHANGED granted
    \/ \E ids \in SUBSET Evidence :
          /\ Cardinality(ids) = Cardinality(Catalog)
          /\ Fresh(w, ids, BulkSnapshot(ids)) /\ UNCHANGED granted
    \/ \E t \in Tokens, u \in Users : Fresh(w, {t}, AuthLogin(t, u)) /\ UNCHANGED granted

Change(w) ==
    \/ \E a \in Alerts :
          \/ \E on \in BOOLEAN : Start(w, SuppressUpdate(a, on))
          \/ \E s \in {"reviewing", "resolved"} : Start(w, TriageUpdate(a, s))
    \/ \E i \in Incidents :
          Start(w, IncidentNote(i)) \/ \E s \in {"open", "closed"} : Start(w, IncidentUpdate(i, s))
    \/ \E v \in Vulns :
          \/ Start(w, PlanUpsert(v)) \/ Start(w, RiskUpsert(v))
          \/ Start(w, ExceptionUpsert(v, "set")) \/ Start(w, ExceptionClear(v))
    \/ \E h \in Hosts :
          \/ \E form \in OwnerForms : Start(w, UpsertOwner(mem, h, form))
          \/ \E list \in Inventories : Start(w, IngestAccounts(h, list))
          \/ Start(w, OwnersDelete(h))
    \/ \E s \in {"fleet", "bogus"} : Start(w, SetCollection("false", s))
    \/ \E rows \in Imports : OwnersImport(w, rows)

Administer(w) ==
    \/ Start(w, PutRisk(4))
    \/ \E c \in Controls :
          Start(w, StatusUpsert(c, "done")) \/ Start(w, SaveCatalogControl(c)) \/ Start(w, DeleteControl(c))
    \/ \E e \in Evidence : Start(w, DeleteEvidence(e))
    \/ \E u \in Users : Start(w, UpdateProfile(u, "name"))
    \/ \E t \in Tokens : Start(w, AuthLogout(t))

-----------------------------------------------------------------------------
(* The writes, and what happens to the process *)

(* No accounts at all, or a name twice.                                    *)
Repeats(list) ==
    list = <<>> \/ \E i, j \in 1..Len(list) : i # j /\ list[i].user = list[j].user

(* save_host_accounts: one row for a name, the last one; no rows, no host. *)
StoredAccounts(list) ==
    LET last == SelectSeq([i \in 1..Len(list) |-> <<i, list[i]>>],
                          LAMBDA x : \A j \in x[1] + 1..Len(list) : list[j].user # x[2].user)
    IN  CASE list = <<>> -> None
          [] ~Repeats(list) -> list
          [] OTHER -> [i \in 1..Len(last) |-> last[i][2]]

(* save_asset_owner: the table has no column for the scope tags.           *)
StoredOwner(rec) == [rec EXCEPT !.tags = {}]

(* Mutant: nothing is ever deleted from a table.                           *)
UpsertOnly(c, val) == IF val = None THEN tab[c] ELSE val

Stored(c, val) ==
    CASE val = None -> None
      [] c[1] = "accounts" /\ val # None -> StoredAccounts(val)
      [] c[1] = "owner" /\ val # None -> StoredOwner(val)
      [] OTHER -> val

(* The handler after a write: its next record, its next row, its answer.   *)
After(w) ==
    IF Len(op[w].todo) > 1
    THEN [op[w] EXCEPT !.todo = At(mem, Tail(@))]
    ELSE IF op[w].rows # <<>>
    THEN LET row == Head(op[w].rows)
         IN  [todo |-> UpsertOwner(mem, row.host, row.form), rows |-> Tail(op[w].rows)]
    ELSE Idle

Proceed(w, settled, late) ==
    LET next == After(w)
        cross == IF next = Idle THEN {} ELSE Crossed(w, Head(next.todo))
    IN  /\ op' = [op EXCEPT ![w] = next]
        /\ mem' = IF next = Idle THEN mem ELSE Put(mem, Head(next.todo))
        /\ stale' = (stale \ settled) \cup late \cup cross
        /\ doubt' = doubt \cup late \cup cross
        /\ UNCHANGED <<poll, ops, used, granted>>

(* The database takes the record.                                          *)
Save(w) ==
    /\ Busy(w)
    /\ LET c == Due(w).cell
           current == /\ c \in Cached => mem[c] = Due(w).val
                      /\ \A v \in Workers \ {w} : Busy(v) => Due(v).cell # c
                      /\ \A q \in Pollers : Polling(q) => Bound(q) # c
       IN  /\ tab' = [tab EXCEPT ![c] = Stored(c, Due(w).val)]
           /\ polled' = polled \ {c}
           /\ gone' = IF c \in Unique /\ Due(w).val = None THEN gone \cup {c} ELSE gone
           /\ Proceed(w, IF current THEN {c} ELSE {}, {})

(* The database or Zabbix does not: a guarded call is logged, any other    *)
(* ends the handler with an error.  What memory holds stays.               *)
SaveFails(w) ==
    /\ Busy(w)
    /\ LET c == Due(w).cell
       IN  \/ Due(w).guarded /\ Proceed(w, {}, {c})
           \/ /\ ~Due(w).guarded
              /\ op' = [op EXCEPT ![w] = Idle]
              /\ stale' = stale \cup {c}
              /\ doubt' = doubt \cup {c}
              /\ UNCHANGED <<mem, poll, ops, used, granted>>
    /\ UNCHANGED <<tab, polled, gone>>

(* The process ends and a new one loads the tables.                        *)
Restart ==
    /\ mem' = [c \in Cached |-> tab[c]]
    /\ op' = [w \in Workers |-> Idle]
    /\ stale' = {}
    /\ doubt' = doubt \cup {Due(w).cell : w \in {v \in Workers : Busy(v)}}
    /\ polled' = {}
    /\ UNCHANGED <<tab, poll, ops, used, gone, granted>>

(* _accounts_wanted, of the settings in the table.                         *)
AccountsWanted == tab[<<"setting", "enabled">>] # "false" /\ tab[<<"setting", "source">>] # "script"

(* What a poller has left to store; the next of it may be in flight in a   *)
(* handler too.                                                            *)
PollOn(q, left) ==
    LET cross == {c \in Cells("accounts", Hosts) : left # <<>> /\ c[2] = left[1].host /\ InFlight(c)}
    IN  /\ poll' = [poll EXCEPT ![q] = left]
        /\ stale' = stale \cup cross
        /\ doubt' = doubt \cup cross
        /\ UNCHANGED <<mem, op, used, gone, granted>>

(* FleetPoller.post_ingest, when something was collected: the settings are *)
(* read once, then the hosts are stored one by one.                        *)
PollAccounts(q) ==
    /\ ~Polling(q) /\ AccountsWanted
    /\ ops < MaxOps /\ ops' = ops + 1
    /\ \E found \in [Hosts -> Inventories] :
          LET hosts == SetToSeq({h \in Hosts : found[h] # <<>>})
          IN  /\ hosts # <<>>
              /\ PollOn(q, [i \in 1..Len(hosts) |->
                               [host |-> hosts[i], list |-> Captured(found[hosts[i]])]])
    /\ UNCHANGED <<tab, polled>>

(* save_host_accounts past the API: no dictionary changes.                 *)
SavePolled(q) ==
    /\ Polling(q)
    /\ tab' = [tab EXCEPT ![Bound(q)] = Stored(Bound(q), Head(poll[q]).list)]
    /\ polled' = polled \cup {Bound(q)}
    /\ PollOn(q, Tail(poll[q]))
    /\ UNCHANGED ops

(* A save that fails drops the rest of the hosts, and so does the end of   *)
(* the process.                                                            *)
PollEnds(q) ==
    /\ Polling(q)
    /\ PollOn(q, <<>>)
    /\ UNCHANGED <<tab, ops, polled>>

Next ==
    \/ \E w \in Workers :
          RequestOrGrant(w) \/ Create(w) \/ Change(w) \/ Administer(w) \/ Save(w) \/ SaveFails(w)
    \/ \E q \in Pollers : PollAccounts(q) \/ SavePolled(q) \/ PollEnds(q)
    \/ Restart

Spec == Init /\ [][Next]_vars

-----------------------------------------------------------------------------
(* Properties *)

(* What pages show is what the table holds and a restart will give back.   *)
(* Excepted are a record whose write failed or crossed another, the        *)
(* accounts that a poller stored and nobody was shown yet, and what the    *)
(* tables have no place for: the scope tags of an owner, an inventory      *)
(* without accounts, and all but the last account of a name in one.        *)
ShownIsStored ==
    \A c \in Cached \ (stale \cup polled) :
        \/ mem[c] = tab[c]
        \/ InFlight(c)
        \/ c[1] = "owner" /\ mem[c] # None /\ tab[c] = [mem[c] EXCEPT !.tags = {}]
        \/ /\ c[1] = "accounts" /\ mem[c] # None /\ Repeats(mem[c])
           /\ tab[c] = StoredAccounts(mem[c])

(* The scope tags of an owner are part of its record, for a form and for   *)
(* an import (docs/CODE_REVIEW_EVIDENCE.md): what pages show of them is    *)
(* what the table holds.                                                   *)
TagsAreStored ==
    \A h \in Hosts :
        LET c == <<"owner", h>>
        IN  c \notin stale /\ mem[c] # None /\ tab[c] # None =>
                InFlight(c) \/ mem[c].tags = tab[c].tags

(* MORI takes the accounts of a host from Fleet, and nothing is left to do *)
(* (docs/ACCOUNT_GOVERNANCE.md): the accounts a table holds are among      *)
(* those that are reconciled.                                              *)
FleetIsReconciled ==
    \A h \in Hosts :
        LET c == <<"accounts", h>>
        IN  c \notin stale /\ tab[c] # None =>
                InFlight(c) \/ (mem[c] # None /\ ToSet(tab[c]) \subseteq ToSet(mem[c]))

(* A record that was deleted, a session that was ended, an approval that   *)
(* was rejected or withdrawn, does not come back, with no restart either,  *)
(* unless a write of it failed, was cut short or crossed another.          *)
GoneIsGone == \A c \in gone \ doubt : mem[c] = None /\ tab[c] = None

(* An exception on a host has its entry in the change history, always; one *)
(* on a vulnerability too, unless its host has no name, its handler is on  *)
(* the way there or a write on that way failed.                            *)
ExceptionIsAudited ==
    /\ \A h \in Hosts : \A rec \in {mem[<<"owner", h>>], tab[<<"owner", h>>]} \ {None} :
          rec.exc = "set" => tab[<<"audit", [of |-> <<"exc", h>>, new |-> "set"]>>] = TRUE
    /\ \A v \in Vulns \ Nameless : \A rec \in {mem[<<"vuln", v>>], tab[<<"vuln", v>>]} \ {None} :
          LET entry == <<"audit", [of |-> <<"vuln_exc", v>>, new |-> "set"]>>
          IN  rec.exc = "set" =>
                \/ tab[entry] = TRUE
                \/ {entry, <<"vuln", v>>} \cap doubt # {}
                \/ \E w \in Workers : Busy(w) /\ \E i \in 1..Len(op[w].todo) : op[w].todo[i].cell = entry

(* A sudo account that is not reported as unapproved has an approval that  *)
(* an officer gave and that was not withdrawn.                             *)
SuppressedIsGranted ==
    \A h \in Hosts : mem[<<"accounts", h>>] # None =>
        \A a \in ToSet(mem[<<"accounts", h>>]) :
            a.sudo /\ "unapproved_sudo" \notin Findings(h, a) =>
                \E p \in granted :
                    /\ <<"approval", p>> \notin gone \ doubt
                    /\ mem[<<"approval", p>>] # None
                    /\ Covers(mem[<<"approval", p>>].grant, a.user, h, "sudo")

(* A status that Zabbix was told is in the stored history of the alert,    *)
(* unless writing that history failed, was cut short or is under way.      *)
ZabbixIsBacked ==
    \A a \in Alerts :
        LET c == <<"triage", a>>
            told == tab[<<"zabbix", a>>]
        IN  told # None =>
                \/ c \in doubt
                \/ InFlight(c)
                \/ /\ tab[c] # None
                   /\ \E i \in 1..Len(tab[c].history) : tab[c].history[i][2] = told
=============================================================================
