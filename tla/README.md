# Verification of MORI SOC

MORI SOC collects security findings and keeps, beside them, the records an
auditor asks for: which version of which framework was in force, who owned
which control, what was decided on which evidence, and who did what. What makes
it correct is that these records can be trusted after the fact: nothing decided
is lost, nothing past changes, and what claims to be a verifiable chain is one.
The modules in this directory model the code that keeps those records, and the
worker that collects, under everything that interleaves and fails in it.

Paths below are relative to `src/mori_soc/` of the repository unless they begin
with `docs/` or `schema/`. `PROJECT.json` names, for every definition, the lines
it stands for, and lists the main hazards of the code with the properties that
answer them; section 5 adds smaller ones.

## 1. Inventory

The API is one FastAPI process. Its handlers are synchronous functions that
FastAPI runs in a thread pool, so two requests interleave at every repository
call. The repository opens a connection and commits a transaction per call:
a handler that loads, checks and saves is several transactions. No handler
takes a lock. The worker is a process of its own that shares only the database.

| Part | State | Operations | What is hard | What makes it correct |
|---|---|---|---|---|
| Governance event ledger (`api/routes/control_governance.py`, `services/control_governance.py`) | a projection row per entity; an event table linked by hashes | `_save`, verification | four transactions per save, interleaving; the last three may fail silently; loads stop at 2000 rows | the ledger is one chain from GENESIS; every save is in it; the projection is its newest event |
| Framework versions and definitions (same files, `schema/019`) | version and definition rows | create, activate, retire, define, import | stale copies; a check made before the save | one active version per framework; draft, active, retired in that order; published versions frozen; author and approver differ |
| Cycle controls (same files) | controls of an audit cycle with their history and judgements | create, update, migrate, replay as of a moment | whole-row saves; a migration of many saves, retried | history replays to the present; the past does not change; migration complete and truthful |
| Evidence approvals (`api/routes/compliance.py`, `services/evidence_approval.py`) | append-only rows of decisions | transition, supersede | evidence changes under the decision; two saves | what is approved had been reviewed; one approval in force |
| Technical gaps (same file, `services/gap_workflow.py`) | a row per gap with history | create, transition, report deadlines | whole-row saves, a window of 1000 rows, rounding of days | history is a way through the workflow; a deadline never moves back |
| Action audit log (`api/server.py`, `api/routes/audit.py`) | a window in memory, a table | append, write through, restart, verify | threads; swallowed insert failures; restarts | both copies are one chain; a hole shows |
| Worker and polling cycle (`worker.py`, `pollers/base.py`) | the row of each source, an advisory lock | elect, poll, retry, refresh | crashes, lost sessions, overlapping cycles | one worker polls; a success is never taken back; somebody polls, every source in turn |
| Ingestion of scans and code review (`api/routes/sources.py`, `services/data_flow.py`) | seen token ids; findings; scan events; control evidence; data flow rows | push, promote, backfill, delete; add, edit, confirm, reopen, seed rows | retries, one write of many failing, a dictionary ahead of its table, restarts | an answer that counts every step is true; evidence is that of its scan; nothing slips under an officer's confirmation; rows made by hand stay |
| Schema and backfill (`repositories/state_postgres.py`, `docker-compose.yml`) | migration files, `schema_migrations`, generic and normalized tables | boot, gate, apply, record, backfill | crashes and failures between any two statements, two processes, a release that edits a file | no record is lost or set back; an edited file does not run; a boot ends |
| Operational records: alerts and triage, incidents, vulnerabilities and risk, owners, accounts and approvals, catalogue overlay and evidence records, risk setting, profiles, sessions (`api/routes/*.py`, `api/session_store.py`) | a dictionary and a table for each | create, change, delete, import, decide | threads over shared dictionaries; writes that fail, guarded or not; restarts; a Fleet poller that writes one of the tables past them | what is shown is stored; what is gone stays gone; exceptions have their history; only what was granted is let through |
| Collectors, normalization, entity repository (`collectors/*.py`, `services/normalization.py`, `services/ingestion.py`, `repositories/postgres.py`) | a map of aliases in each mapper; hosts, aliases and rows by key | collect, resolve, save entity by entity | the worker's mapper lives on, a push has its own; addresses pass on, names are shared, a trigger has several hosts; attempts cut short | a row is on a host that its machine was listed under, a machine has one host, every row has its host and an alias |
| Other governance records, privacy reviews, plans, preferences, access settings | single records | edit | lost updates | partly or not modelled, see `PROJECT.json` |
| Query cache, queries, reports, templates, onboarding, OIDC, LDAP administration, webhooks | none, or a cache | read, call out | - | not modelled, section 7 |

They interact through the database and two calls: every governance handler ends
in `_save`, which writes the ledger; nearly every handler calls `_log_action`,
which writes the audit log; the API's refresh runs the worker's polling cycle
without the worker's lock.

## 2. Modules

| Module | Models | Uses |
|---|---|---|
| `ChainedLog` | the promise of the ledger: an append-only log in which each event links to the one before it | |
| `GovernanceLedger` | `_save` and `verify_governance_chain` | refines `ChainedLog` |
| `HashChainProofs` | theorems about the two hash chains, `GovernanceLedger` and `AuditLog` | extends both |
| `FrameworkVersionsProofs` | theorems about `FrameworkVersions` | extends it |
| `CycleControlsProofs` | theorems about `CycleControls` | extends it |
| `EvidenceApprovalsProofs` | theorems about `EvidenceApprovals` | extends it |
| `GapWorkflowProofs` | theorems about `GapWorkflow` | extends it |
| `SchemaBootProofs` | theorems about `SchemaBoot` | extends it |
| `ApiStoresProofs` | theorems about `ApiStores` | extends it |
| `CollectionProofs` | theorems about how records come in: `Worker`, `ScanIngest`, `AssetIdentity` | extends the three |
| `VersionLifecycle` | the promise of the version handlers | |
| `FrameworkVersions` | the version, definition and import handlers | instances `GovernanceLedger` for its saves; refines `VersionLifecycle` |
| `CycleControls` | cycle controls, migration, replay | |
| `EvidenceApprovals` | the approval transition | |
| `GapWorkflow` | gaps and the deadline report | |
| `AuditLog` | `_log_action` and the verification of its two copies | |
| `PollCycle` | one cycle of a source (`run_cycle`) and its row | |
| `Worker` | election, scheduling, crashes, refresh | extends `PollCycle` |
| `ScanIngest` | the pushes of scans, reports, flows and envelopes, and the privacy flow rows | |
| `SchemaBoot` | `apply_schema`: gate, files, history, backfill | |
| `ApiStores` | the operational records of the API process | |
| `AssetIdentity` | the aliases of a report, the mapper, the saving of what it makes | |

`MC*` modules give constants that a `.cfg` cannot write (functions, symmetry);
they define no behaviour.

**How code becomes actions.** An action is what runs between two points where
others may run: one repository call with the local computation up to the next.
A handler's local variables live in `op` (or `pc`, `core`, `head` for `_save`).
A request that is refused changes nothing, so a refusal is the absence of a step,
or a step that only drops the handler. A process that dies, and an exception
swallowed or turned into an answer, drop the handler between two of its steps.

**History variables.** `overlapped`, `crossed`, `cut`, `failed`, `blind`,
`disturbed`, `unguarded`, `lost`, `torn`, `left`, `stale`, `doubt` and `polled` record that the
situation in question has occurred; `said`, `ties`, `tied`, `kept`, `gone`, `granted` and `applied`
remember what a property compares with. No guard reads them, and they let a property say exactly *when*
the code keeps a promise: several hold in every interleaving, others only while two
requests of that component do not cross, and the difference is the point.

**Data.** A hash is the tuple of what is hashed (no collisions). A record keeps the
fields a property reads. Time is a counter: saves in the ledger, half-days in
`GapWorkflow` (a deadline falls on a midnight, the clock may stand between two),
begun cycles in `PollCycle`.

**Correspondence, module by module.**

* `GovernanceLedger`: `SaveProjection`, `ReadHead`, `CountRevision`, `AppendEvent`
  are the four transactions of `_save`; `FailEvent` is the `except` branch and a
  restart in the middle. `Revision` and `Loaded` honour the limit of
  `load_governance_events`, which returns the *oldest* rows.
* `FrameworkVersions`: each handler is a loading step and a saving step over
  `GovernanceLedger`; activation has a third, the check of the other versions.
  `IndexAllows` is the partial unique index of `schema/019`, which only
  PostgreSQL has. Not modelled: effective periods, creation of frameworks,
  content hashes.
* `CycleControls`: `InitializeCycle` loads and plans, `FindPlanned` and
  `SavePlanned` alternate per planned control, `Abort` cuts the handler anywhere.
  `AsOf` is the replay of `build_cycle_audit_snapshot`. The event each save writes
  is left to `GovernanceLedger`.
* `EvidenceApprovals`: an evidence set is a set of records with an id, what they say,
  and whether they carry the hash they were stamped with when written. The table has
  no column for the stamp, so `Restart` drops it, and `Hash` is taken over stamps or,
  without one, ids. `ReadEvidence`, `Decide`, `SaveApproval`, `Supersede` are the
  handler; `CutShort` ends it anywhere.
* `GapWorkflow`: `recent` is the order by `updated_at`, of which `load_gaps` returns
  a window. `Listed` is the report of `evaluate_gap_deadlines` with `timedelta.days`
  rounding down.
* `AuditLog`: `BuildEntry`, `AppendEntry`, `Persist` / `PersistFails` are
  `_log_action`; `Restart(readable)` is the start of the process, with or without
  the newest row. `RowInserted` is `ON CONFLICT (seq) DO NOTHING`; `Stored` is the rows by `seq`,
  each found by counting those up to it. An entry hashes the
  text of its timestamp; `LoadedEvents` gives it back in the text form the table's
  reader produces.
* `PollCycle`, `Worker`: `run_cycle` reads its row once and writes it back at the
  end. `run_forever` takes the lock once; `EndOrphan` is the database ending the
  session of a dead process, `LoseSession` that of a living one.
* `ScanIngest`: a handler is the list of its writes (`TakeReview`, `TakeReport`,
  `TakeFlow`, `TakeEnvelopes`, `Backfill`, ...); a write the code guards with `try` only
  loses itself when it fails (`SaveFails`), another ends the handler. `PutInMemory` and
  `Save` are the two halves of a write-through. `Ingest` is the replay guard before any
  of it. `source_syncs` has one row per source, which every push of the source replaces;
  its save, when it fails, is logged and changes nothing of the answer (`Skipped`). All pushes are of one repository; the checks of payloads, the
  privacy settings and promotion of privacy reviews are left out.
* `SchemaBoot`: a process goes through `Gate`, then `ApplyFile` and `Record` for each
  file, then `ReadKind`, `SaveRow`, `DeleteRow` of the backfill, any statement failing:
  a failed look for the table of a kind passes over the kind (`SkipKind`), one for the
  first table or for the rows ends the backfill (`Ended`);
  `Edit` is what a serving process does, `Release` a new version of the files, `Crash`
  the end of a process anywhere.
* `ApiStores`: again a handler is the list of its writes. The code between two calls of
  the database is one step; a dictionary entry changed in place is captured when it is
  put. Handlers of the same shape share a definition (a status, a setting, a form).
  `PollAccounts`, `SavePolled` and `PollEnds` are `FleetPoller.post_ingest`, in the worker or
  in a refresh: it reads the settings from their table and replaces the accounts of host
  after host in theirs, and the dictionaries hear of none of it (`polled`). What two
  overlapping replacements of one host leave is not modelled.
  The entry of the action log that most handlers add is left to `AuditLog`; notices to
  Slack, and changes of the analyst and the handler of an incident, which take the steps
  of its status, are left out.
* `AssetIdentity`: a record of a collection has one list of aliases: that of a machine
  (`HostRecord`, `ReportRecord`) or that of a Zabbix problem (`ProblemRecord`), which is made of the
  names of all hosts of its trigger. `MapEnvelope` resolves a record and registers its
  aliases, `SaveEntity` saves the host, each alias and the row one after another,
  `SaveRaises` ends the attempt, with another to come or none, `Forgotten` is the mapper
  of a push at its end, `RestartWorker` the mapper of the worker at its end. Machines
  take any address in any collection and may share names. Fields by which hosts are merged are not told apart.

## 3. Runs

"Free" marks a property that holds in every interleaving; "uncrossed" one whose
premise is that the requests (or saves, or cycles) it is about do not overlap.

### ledger (MCGovernanceLedger, pass)
Two workers save two entities with two payloads, events may fail, four saves,
load limit 2. Free: `Anchored` (a tree rooted at GENESIS), `BrokenIffForked`
(verification fails on the whole ledger exactly when two events continue the same
one), `EverySaveAccounted`. Uncrossed: `ImplementsChainedLog`. Four saves allow a fork
with events before and after it, and let an entity pass the load limit.
### versions (MCFrameworkVersions, pass)
Two workers, two versions of one framework, a definition of the first, two actors,
all five requests, separation of duties and the unique index on, four saves. Free:
`OneActive`, `NoSelfApproval`, `LifecycleIsPath`. Uncrossed: `ImplementsLifecycle`, whose
one exception is the catalogue import. Two versions are what exclusion is about; four
saves create both, activate one and retire it or activate the other.
### cycle (MCCycleControls, pass)
Two workers, two cycles; a definition whose text and number change, one that is
removed, one control of the organization's own, created with one of the applicabilities
`Given` lists; four saves; failures anywhere. Free:
`HistoryReplays`, `MigrationAgreesWithDiff`, `MigrationComplete`. Uncrossed: `PastIsKept`.
### approvals (MCEvidenceApprovals, pass)
Two reviewers, one record with two contents, four rows, handlers cut short and the
process restarted anywhere. Free: `ApprovedWasReviewed`. Uncrossed: `RevocationHolds`, and
`OneInForce`, which also needs that no handler was cut short; `ApprovalCoversWritten` needs
only that. Four rows are two rounds of review and approval.
### approvals_restart (violation of `ApprovalCoversEvidence`)
Three rows are enough: reviewed and approved after a restart, when records are hashed by
their ids, then the evidence is written anew and the process restarts, and other content is
shown as approved. See section 5.
### gaps (MCGapWorkflow, pass)
Two handlers, two gaps, a window of one, histories of four, four half-days, a due
date. Free: `HistoryIsPath`, `DeadlinesAdvance`. Uncrossed: `DecisionsKept`. A window
smaller than the number of gaps is what makes a gap fall out of it.
### audit (MCAuditLog, pass)
Two threads, a window of two, five entries, three faults (a failed insertion, a
restart, with or without the newest row). Uncrossed, and with starts that could read the
newest row: `HoleIsSeen`, and `StoredIsChain`, which also needs that no insertion failed.
Five entries let the window slide past a hole and a restart.
### worker (MCWorker, pass)
Two workers, or one and a refresh of the API; two sources; one retry; one fault at
any point. `OneWorkerPolls` while no living leader loses its session and the lock can
be asked for; `SuccessIsKept` while cycles of one source do not overlap and no save is
applied but reported failed; `Takeover` under fairness. Deadlock is checked. One fault is
enough for a crash at every step and a takeover after it; a cycle that escapes by itself
needs none.
### ingest (MCScanIngest, pass)
Two handlers take any three of: two scans, one of them run again with other findings and the
same run id, a report, a privacy flow, an envelope push, the backfill, the deletion of a
scan, the handlers of the flow rows; one control, one row by hand; any write fails, a token is
replayed or forgotten, the process restarts. Free: `AnswerIsTrue` (a push answered with
every step counted has its findings, its event and its evidence in the tables; no answer counts
the sync row), `ConfirmedWasSeen`, `ManualKept`.
`EvidenceMatchesScan` needs a last handler of the run that was stored whole and
alone. Three handlers let a rescan follow a confirmation, and a third cross both.
### boot (MCSchemaBoot, pass)
Two processes, two files, a framework and a version that names it, one failing statement,
one crash, one release that edits a file, one edit of a record, with the production
setting or without. Free: `NoRecordLost`. `NewerKept` and `GateHolds` name the situations in
which the code cannot tell (an earlier boot that failed to move a record; a
history that lacks the success; two boots at once). `BootSettles` is liveness. One of
each fault covers every pair of a fault and an edit or a release.
### stores (MCApiStores, pass)
Two threads and a Fleet poller run any three handlers and polls over one record of each kind (two
controls), any write fails, the process restarts; deadlock is checked. `ShownIsStored` compares
what pages show with the table itself; its exceptions are a record whose write failed or crossed
another, accounts that a poller stored last, and what the tables have no place for: scope
tags, an inventory without accounts, all but the last account of a name. `GoneIsGone` holds except
for records whose write failed, was cut short, or crossed another on the same record;
`ExceptionIsAudited` is free for owners and, for vulnerabilities of a host with a name, excepts a
failed write; `SuppressedIsGranted` and `ZabbixIsBacked` likewise name their exceptions. The
vulnerability of this instance has a host with a name; that one without gets no entry is
left to the proofs. Three handlers are a record, its change and what undoes it.
### identity (MCAssetIdentity, pass)
The worker and one push, two collections: Fleet lists a PC, Zabbix two servers, one of them with the
name of the PC, and triggers over one, both and none of them, Trivy scans an image of one name on
each server, Wazuh has agents on the PC and on a server; one address that any of them may have,
alone or together; any save fails and is tried again or not, the worker restarts. `MachinesApart`
is free: a row about a machine is on a host that a listing tied it to, by its
names, by an address it had alone or by a trigger. `OneHost` and `CoverageShown` hold as long as no
listing has tied the first name of the machine to a second host. Two collections let an address pass
and a problem of both servers be followed by a listing, in one mapper or with a restart between.

`CHECK_DEADLOCK FALSE` is set where the model stops at its bound or requests may
simply not come.

### Bounds
`MaxSaves` (saves), `MaxRows` (decisions), `MaxMoves` and `MaxTime` (transitions of a gap, half-days),
`MaxCalls` and `MaxFaults` (entries, faults), `MaxRetries`, `MaxClock` and `MaxFaults` (attempts,
cycles told apart, faults), `MaxOps` (handlers and polls started), `MaxEdits`, `MaxReleases`,
`MaxFailures` and `MaxCrashes` (of a boot), `MaxBatches` (collections) bound counters and
nothing else; `MaxEvents` bounds the problems or reports of one collection, and `Given` the
applicabilities that a control made by hand may be created with. `LoadLimit` and `Window` are
constants of the code (2000, 1000), lowered so that they are reached. Two actors are
enough for the hazards above, each of which is one actor acting between two steps of another;
three would only repeat them.

### Fairness
`Worker` and `SchemaBoot` state fairness, weak and per process. A process that ended is
started again (`restart: unless-stopped`, docker-compose.yml:68 for the API); a worker
that may take the free lock takes it, polls what is due, and ends its calls (collectors have
timeouts, the lock query returns), and the database ends the session of a dead process; a
boot runs statement after statement with nothing to wait for. Users, releases,
faults and the passing of intervals are not fair.

## 4. Proofs

`HashChainProofs` proves of `GovernanceLedger`, for all workers, entities, payloads, limits and
numbers of saves, with the assumptions of `GovernanceLedger` (finitely many workers, a positive
limit, `MaxSaves` a natural number, `MayFail` a Boolean, `NoCore` not an event):

| Theorem | Establishes | Rests on |
|---|---|---|
| `TypeCorrect` | `[]TypeOK` | inductive as it stands |
| `SavesAccounted` | `[]EverySaveAccounted` | `TypeOK`; stamps of saves begun partition into recorded, in flight and lost, each save moving in one step |
| `LedgerAnchored` | `[]Anchored` | strengthened by `HeadAnchored`: what a worker has read stays the hash of a stored event, because the ledger only grows |
| `VerdictIsForkFree` | `[]BrokenIffForked` | `Anchored`, and that hashes of events at different places differ |
| `RevisionsFollowEvents` | `[]RevisionBounded` | strengthened by the same bound on revisions counted but not yet inserted |
| `ChainIsImplemented` | `ImplementsChainedLog`: while saves do not overlap, every step is one of `ChainedLog` or leaves the log alone | `InTurn`: one worker is in `_save`, and the head it has read is the newest event's |

`Anchored` alone is not inductive: the event inserted carries a hash read earlier, so
the invariant must speak of the hashes workers hold. `VerdictIsForkFree` is the reason
an operator may read a failed verification as either tampering or concurrency, and the
reason it must not be read as tampering alone.

The same module proves of `AuditLog`, for all threads, windows, calls and faults, assuming only that
the window is positive:

| Theorem | Establishes | Rests on |
|---|---|---|
| `AuditLogSound` | the invariant `AuditSound` | itself; its parts are `AuditTypes`, `OneCalls`, `MemoryMatches` (memory is the newest entries and no row of one of their numbers is another) and `RowsChain` |
| `StoredRowsAreChain` | `[]StoredIsChain`, while calls do not cross, no insertion fails and every start can read the newest row | `RowsChain`: the rows are numbered without a gap, each continues the one before, and so does the entry in hand |
| `HolesAreSeen` | `[]HoleIsSeen`, also with failed insertions | `MemoryMatches`, and that a hash is taken over the number: rows that verify from the first one on have the numbers 1 to their count |

`HolesAreSeen` takes the least number at which the rows go wrong, and shows that the row there does
not continue the one before: the argument is a well-founded one, and needs no induction over the log.
Both properties read the table as the code does, by order of `seq`, which the model defines
by counting rows so that it can be reasoned about without a recursive filter.

`FrameworkVersionsProofs` proves, for all workers, versions, definitions, actors,
requests and limits (definitions belong to versions and are none themselves, `NoRecord` is no
payload; all but two theorems whatever the two switches say):

| Theorem | Establishes | Rests on |
|---|---|---|
| `LifecyclesArePaths` | `[]LifecycleIsPath` | `Sound` |
| `NobodyApprovesTheirOwn` | `[]NoSelfApproval` | `Sound` |
| `IndexKeepsOneActive` | `[]OneActive`, if `UniqueIndex` | `Sound`, and that a save of an active version passes the index |
| `HandlersUseTheLedger` | `Spec => L!Spec` | `Sound`, for the types of what is saved |
| `LifecycleIsImplemented` | `ImplementsLifecycle`: while requests do not cross, every step is one of `VersionLifecycle`, a stutter, or the catalogue import | `Alone` (one request is served) and `Current`: what a handler checked when it loaded still holds when it saves |

`Sound` says that the rows *and the copies that handlers hold* are sound by
themselves: status, lifecycle and activator of one record agree. The copies must be in it,
because a stale copy is what a save writes; and it needs no premise on interleaving,
because a save writes a whole copy. One lemma (`HandlersAreSound`) reduces every step
of every handler to a sound save, a step of the ledger, or neither; the theorems use
only that. `IndexKeepsOneActive` shows that the handler's own check for another active
version is not what keeps there being one.

`CycleControlsProofs` proves, for all workers, definitions, controls of the organization,
updates, judgements and numbers of saves (a uid names one definition of a version, the two
versions share none, updates set fields to values of theirs):

| Theorem | Establishes | Rests on |
|---|---|---|
| `TypeCorrect` | `[]TypeOK` | the types of the rows, and of the plans and copies in hand |
| `AuditShowsThePresent` | `[]HistoryReplays` | `Replaying`: every row, and every copy planned or in hand, is what its own history replays to |
| `MigrationTellsTheDiff` | `[]MigrationAgreesWithDiff` | `Agreeing`: the same of rows, plans and copies, each taken from a definition of the same uid |
| `MigrationLeavesNothingOut` | `MigrationComplete` | `Covering`: what a migration is to lay down is there or still planned |
| `AuditsStay` | `PastIsKept`, while requests do not cross | `Orderly`: one handler runs, and its copy adds one entry to the row that is there |

The first three need no premise on interleaving: a copy is sound by itself, whichever row it is
written over. `MigrationTellsTheDiff` has a hypothesis: the controls made by hand in the previous
cycle are not of the next version. `create_cycle_control` checks only that the reference exists
(`api/routes/control_governance.py:109`); one on a definition of the next version would be
carried as it is, uncompared, in place of the control that definition gets.

`EvidenceApprovalsProofs` proves, for all reviewers, records, contents and numbers of rows,
with `NoOp` told from a handler as the only assumption:

| Theorem | Establishes | Rests on |
|---|---|---|
| `ApprovalsWereReviewed` | `[]ApprovedWasReviewed` | `Sound`: the rows have their types, and the row a handler carries to the table has its review there already |
| `RevokedContentsStay` | `[]RevocationHolds`, while requests do not cross | `RevokedIsFinal`: a handler that has decided did not do so on a revoked content |
| `ApprovalsAreReplaced` | `[]OneInForce`, while requests do not cross and none is cut short | `OlderAreMarked`: an approval on its way has loaded every approval in force, and one in force before a later one is about to be marked |
| `ShownIsWhatWasApproved` | `[]ApprovalCoversWritten`, until a handler is cut short or a restart | `RowsAreCovered`: records carry their stamps, and the latest row was made on records that said what is noted of it |

`ApprovedWasReviewed` alone is not inductive, because the decision is taken before the row is
inserted, and rows and evidence change in between. It stays true since a row is never taken
away and changes nothing but its status (`SupersedeFacts`), and since a status that may be
approved is that of a row made for the same content (`ApprovalNeedsReview`). The invariants of
the other three are kept together (`Orderly`): whether an old row may be marked depends on
what the one handler there is has read.

`GapWorkflowProofs` proves, for all handlers, gaps, dates, windows and bounds, with due days
and the days of "soon" natural numbers:

| Theorem | Establishes | Rests on |
|---|---|---|
| `HistoriesArePaths` | `[]HistoryIsPath` | `Sound`: the rows in the table and the copies in the hands of handlers are each a way through the workflow |
| `DecisionsAreKept` | `DecisionsKept`, while requests do not cross | `Orderly`: one handler runs, and the history it will save continues the one in the table |
| `ReportAdvances` | `DeadlinesAdvance` | `DaysLeftFall`: whole days, rounded down, do not grow with time |

`HistoriesArePaths` needs no premise on interleaving, for the same reason as `LifecyclesArePaths`:
a crossing save loses a step together with its status, never one of the two.

`SchemaBootProofs` proves, for all processes, files, kinds, records and numbers of failures,
crashes, edits and releases, assuming finitely many records and that `None` is no version:

| Theorem | Establishes | Rests on |
|---|---|---|
| `BackfillLosesNothing` | `[]NoRecordLost` | `Sound`: the types, and `DeletedIsMoved`: a row about to be deleted from the generic table is in its own |
| `GateIsKept` | `GateHolds`, in production, while boots do not overlap | `Gated`: one process boots, and what it is applying has not drifted since it passed the gate |
| `NewerRecordsStay` | `NewerKept`, with the exceptions it names | `Versions`: a generic row and a row in hand are of the older release; `Moving`: a record still to be moved has not been edited, and the boot under way has it before it |

`DeletedIsMoved` holds between two transactions, while other processes boot, crash and
save: what makes it stable is that no step of the boot takes a row out of a normalized table.

`CollectionProofs` proves of `Worker`, for all instances, refreshers, sources, retries and faults, assuming
that `Nobody` is no instance and that instances and refreshers are the runners:

| Theorem | Establishes | Rests on |
|---|---|---|
| `PollerHoldsLock` | `[]OneWorkerPolls` | `LockIsHeld`: a leader that believes it has the lock has it, and none has given it up, until a session is lost |
| `SuccessesStay` | `SuccessIsKept` | `CyclesSound`: while nothing is disturbed a cycle is alone on its source, began no earlier than its last success and, once it has read the row, knows that success |

A last success can only be set back by what `disturbed` records: a second cycle of the
source beside the first (the refresh of the API, which does not ask for the lock), or a save that
took effect and was reported failed.

Of `ScanIngest`, for all handlers, pushes, runs, controls, findings and rows, whatever write fails, is replayed
or is cut short, it proves:

| Theorem | Establishes | Rests on |
|---|---|---|
| `ScanIngestSound` | the invariant `ScanSound` | itself |
| `AnswersAreTrue` | `[]AnswerIsTrue`, which promises findings, event and evidence, and no sync row | `PromisesHold`: while every step of a push has counted, each of the records an answer counts is in the tables or among the writes its handler has left |
| `EvidenceFollowsScan` | `[]EvidenceMatchesScan`, for a run whose last handler was stored whole and alone | `RunsReserved` (a handler writes events and evidence of no runs but those it took, which count as torn meanwhile) and `AloneSettles` (a run alone in hand is settled, or will be by the writes left) |
| `ConfirmationsWereSeen` | `[]ConfirmedWasSeen` | `GoodRow`, of the rows in memory, in the table *and in the lists of writes*: a row that says confirmed holds what an officer saw or typed |
| `ManualRowsKept` | `ManualKept` | `ManualsApart`: no write of an automatic handler is to a row added by hand |

The assumptions are those of `ScanIngest`: finitely many pushes, findings, controls and rows
by hand; the ids of rows by hand, which are random, are none of the hashes that scanned rows have; no
client gives an envelope the id of the event of a scan. As in `ApiStoresProofs`, a
handler is what it has left to write: a lemma per kind of push (`ReviewPrepared`, `ReportPrepared`,
`FlowPrepared`, `EnvelopesPrepared`, `BackfillPrepared`, `DeletionPrepared`) shows that the list it starts with
meets the invariant, and the steps only shorten lists.

Of `AssetIdentity`, for all machines, systems, names, triggers, addresses, pushes and collections:

| Theorem | Establishes | Rests on |
|---|---|---|
| `IdentityIsSound` | the invariant `IdentitySound` | `TiedTogether`: the names of one listing have the same tied hosts; so `MapFits`: what a mapper knows of an alias is a host that the listings of its life tied the alias to |
| `MachinesHaveOneHost` | `[]OneHost` | `RowsFit`: a row is on a host its machine was tied to, and if that is one host, all rows are on it |
| `HostsAreApart` | `[]MachinesApart` | the same |
| `CoverageIsShown` | `[]CoverageShown` | `WritesFit` with `Laid`: the host and the first alias of a row are saved or come before it, and no one gives that alias another host unless a listing tied it to two |

They have no hypothesis beyond `NameAssumption` of the module (finitely many machines,
triggers over machines of their system): names may be shared, as the image names of Trivy are
(`collectors/trivy.py:111`), collapse in an id, or be addresses; addresses pass; triggers have
any number of hosts. What the code then does to machines that the sources do not tell apart is in the
properties: they speak of what was *listed* (`ties`, of the life of one mapper, and `tied`, of
all lives), which no step of the mapper reads. A listing ties the names of one machine, and its
address if it alone has it; a problem ties the names of all hosts of its trigger. So a
mapper adds nothing: whatever order records come in, whoever saves or fails between, two machines
meet on one host only if listings tied both to it. One problem is enough for that:
`MachinesNeverMerge` in section 5.

`ApiStoresProofs` proves, for all threads, pollers, records, forms, imports and numbers of handlers,
whatever write fails and whenever the process restarts, assuming that an import has a row and names
hosts, that `None` is no record of an alert, that `Nameless` are vulnerabilities, and that controls and evidence are finitely many:

| Theorem | Establishes | Rests on |
|---|---|---|
| `PagesShowTheTables` | `[]ShownIsStored`, against the table itself, with the exceptions it names | `InHand`: a write that crossed no other is what memory holds and the only one of its record; `OnlyAccounts`: pollers leave nothing but accounts behind |
| `DeletedStaysDeleted` | `[]GoneIsGone` | `Ended`, with `Unheard` (an id not handed out is nowhere) and `Later` (a record that a handler writes after its first write is new and its own) |
| `ExceptionsAreAudited` | `[]ExceptionIsAudited` | `HandsOwned`, `HandsVuln`: of the writes a handler has left, that of an owner's exception comes after its entry, that of a vulnerability's before it |
| `SuppressionsAreGranted` | `[]SuppressedIsGranted` | `GivenGood`: an approved entry, in memory, in the table or in a hand, was given by an officer; and `GoneIsGone` |
| `ZabbixHearsWhatIsStored` | `[]ZabbixIsBacked` | `ToldBacked`: what Zabbix was told is in the history that memory holds; and `ShownIsStored` |

All five follow from one invariant, `Sound`, which speaks of the dictionaries, the tables *and
the writes that handlers still have before them*. On the instance of the run `stores`, TLC
finds `Sound` true of every state (name it in the cfg of a module that extends `MCApiStores` and
`ApiStoresProofs`). No handler is treated step by step: every handler starts with a list of
writes that has the five properties (`EveryStart`), and a step of any handler either stores the first write
or fails to, and goes on with the rest of its list or with the list of the next row
(`StartSteps`, `SaveSteps`, `FailSteps`). A new handler adds a lemma about its list and nothing else.

Every invariant and action property of the runs that pass is proved. Only model-checked:

* `Takeover` of `Worker` and `BootSettles` of `SchemaBoot`: liveness under fairness, and ENABLED,
  are outside what the prover does.

`TypeOK` and `RevisionBounded` of the ledger are proved and therefore not run.

## 5. Where code and documents disagree

One disagreement has a run, `approvals_restart`: `_control_evidence_state`
(`api/routes/compliance.py`) promises that the hash changes when any evidence
changes, but the stamp it is taken over is not stored.

The following are definitions of the modules that no cfg lists; naming one in the cfg
(with the constants given here) shows the counterexample.

| Definition | The document says | What happens |
|---|---|---|
| `ConcurrentSavesVerify` (`GovernanceLedger`; `LoadLimit` 4, `MayFail` FALSE, `MaxSaves` 3) | docs/CONTROL_GOVERNANCE.md:95: of two requests that update at once each change stays in the ledger "(GET /governance/events/verify)" | each does stay, but both link to one event and that endpoint then reports the ledger broken |
| `PublishedIsFrozen` (`FrameworkVersions`) | docs/CONTROL_GOVERNANCE.md:15: "active/retired 버전 편집은 409" | the catalogue import adds a definition to a published version |
| `PastReproducible` (`CycleControls`) | docstring of `build_cycle_audit_snapshot` (`services/control_governance.py:374`) | of two crossing updates the later save drops the history entry and the frozen judgement of the other |
| `LoadedVerifies` (`AuditLog`) | schema/014_audit_log.sql:13: the log is verified from the table | the timestamp is hashed with a final `Z` (`api/payloads.py:1109`) and comes back with `+00:00` (`repositories/state_postgres.py:523`): every stored log is broken at its first entry |
| `FailedIsRecorded` (`Worker`; `Registered` = {zabbix}, `MaxFaults` 0) | docs/collection-standards.md:63: a cycle whose attempts failed is recorded as an error | the CHECK of `source_syncs` (`repositories/postgres.py:611`) does not list `ldap`: neither success nor error can be recorded, and the exception ends the worker |
| `DiffIsWhatChanged` (`ScanIngest`; `MaxOps` 2) | docs/CODE_REVIEW_EVIDENCE.md:96: "신규/제거 findings(안정 식별자 file\|line\|rule 로 매칭)" | the upsert of an alert overwrites which scan found it: a finding that is still there is called new, and the earlier scan seems to have found nothing |
| `SyncIsTold` (`ScanIngest`) | docs/CODE_REVIEW_EVIDENCE.md:188: "부분 성공을 정직하게 보고" | a sync row that could not be saved is only logged, and the answer is that of a push stored whole (`api/routes/sources.py:542-554`; for reports 272-283, 325-335) |
| `MachinesNeverMerge` (`AssetIdentity`; `Ips` empty) | docs/PHASE1_LOGICAL_SCHEMA.md:186: "동일 alias가 여러 host에 걸리면 자동 병합 금지" | the alias list of a problem has the names of all hosts of its trigger (`collectors/zabbix_events.py:352`), the mapper registers them to one host, and the next rows of the others go there. An address that passes between two collections does the same |
| `TagsAreStored` (`ApiStores`; `MaxOps` 2) | docs/CODE_REVIEW_EVIDENCE.md:153: scope tags are a field of the owner record, for forms and imports | `save_asset_owner` has no column for them (`repositories/state_postgres.py:289`): they last until the process ends |
| `FleetIsReconciled` (`ApiStores`; `MaxOps` 2) | docs/ACCOUNT_GOVERNANCE.md:27: MORI takes the accounts of a host from Fleet, and nothing else has to be done | the poller writes the table (`pollers/fleet.py:106`), which the API reads only when it starts: until then they are neither shown nor reconciled |

Met while modelling, without a definition of their own:

* **Scans.** The warning about a nondeterministic scan (docs/CODE_REVIEW_EVIDENCE.md:97) can
  never appear, and `count_delta` is always 0 on PostgreSQL, for the reason of
  `DiffIsWhatChanged`. A retry with the same token is answered as a duplicate
  although the document promises that it fills the missing steps (:190). A rescan writes
  over a confirmed row and withdraws the confirmation (docs/PERSONAL_DATA_FLOW.md:118); an
  edit after a confirmation keeps it (`api/routes/privacy.py:187`).
* **Boot.** When an unchanged file fails once more, its success is
  forgotten, and a later edit of it passes the gate. Outside production an edited file
  overwrites its history.
* **Stored records.** The expiry of an approval is never read by the reconciliation (docs/ACCOUNT_GOVERNANCE.md:102).
  `save_host_accounts` merges equal user names and an empty inventory is gone after a
  restart. A change of a vulnerability whose host has no name leaves no entry in the history. `set_collection` stores `enabled` before it refuses an invalid `source`. The
  exception of a vulnerability is stored before its entry of the history, that of an owner
  after; `owners_delete` writes none. An approval that crosses a rejection is stored after
  it was deleted. An account approval makes a sudo account look approved in the list of
  accounts (`_status_for`) while the reconciliation reports it.
  A session's last use is not stored, so one kept alive may expire at a restart.
  Sign-up requests, local users, plans, preferences and tab permissions live in memory.
* **Identity.** Two machines of one bucket with the same hostname are one host, the hostname
  being the first alias; a renamed machine becomes a second host once the worker has
  restarted; names that differ only in characters the id drops share an id. A push has a mapper of
  its own, so a Wazuh alert that is pushed never reaches the host that Fleet or
  Zabbix named, as tests/test_ingestion.py shows it with one mapper; and a
  neutral host made before the asset was known stays. The repository in memory
  keys aliases by id and keeps both bindings where PostgreSQL moves the one.
* **Governance.** `create_version` writes a draft over a version created and activated since
  it looked; the memory repository has no unique index, so two versions may be active
  there; two definitions of a version with one `control_uid` collapse in a migration;
  `_as_date` drops the time zone of a due date and skips one it cannot parse. Two
  crossing approvals are both in force; a gap posted again starts over, whatever had been decided
  on it, and its history is replaced.
* **Processes.** A living leader that lost its session polls beside its successor; a worker that
  cannot ask for the lock polls without it for the rest of its life; a start that cannot
  read the audit head restarts the numbering; several API processes would each continue a chain
  of their own; the scheduled snapshot checks its last run and marks it later, so two
  processes take it twice; the check for a pending duplicate request works on the
  dictionary of one process; a logout between `token in sessions` and `sessions[token]` raises
  `KeyError` (`api/auth.py`); a query snapshot that finishes late replaces a newer one
  (`api/query_cache.py`); the LDAP account of a sign-up is created before the request is
  marked (`api/routes/auth.py`).

## 6. Plan

Done: the modules of section 2 and the theorems of section 4. Next, in this order:

1. Privacy reviews promoted to evidence, and the policy settings, in `ScanIngest`; plans and
   preferences in `ApiStores`.
2. Several repositories in `ScanIngest`, so that the retention of events comes into view.
3. The query cache, and the registration of control packs into an existing version.

## 7. Not modelled

Queries, reports, evidence bundles, statements of applicability, templates and translations
compute output from stored rows and change no state; they are the larger part of the
source by lines (`api/i18n.py`, `services/reports.py`, `services/data_flow.py`,
`api/payloads.py`, most of `api/server.py`), which is why the share of lines the models stand
for stays low. Parsing of the answers of Fleet, Wazuh, Zabbix, Trivy and LDAP beyond the
aliases they carry is covered by the unit tests. The query cache
changes no stored state. Onboarding, OIDC, LDAP administration and webhooks are single
calls of external services. The counters of failed logins and of requests,
password hashing and token checks are local computation on one record each.
