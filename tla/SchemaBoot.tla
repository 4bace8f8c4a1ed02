----------------------------- MODULE SchemaBoot -----------------------------
(***************************************************************************)
(* What a process does to the database before it serves: apply_schema of   *)
(* repositories/state_postgres.py.  It checks that no migration it knows   *)
(* as applied has changed, applies every file again (the DDL is            *)
(* idempotent), records each in schema_migrations, and moves the records   *)
(* of an older release from the generic table to the normalised ones.      *)
(*                                                                         *)
(* Several processes run on one database and each may be booting, serving  *)
(* or down.  A process has the files of the release it was started from.   *)
(* Every statement may fail; a failure is swallowed, noted or ends the     *)
(* boot as the code has it.                                                *)
(***************************************************************************)
EXTENDS Integers, Sequences, SequencesExt, FiniteSets

CONSTANTS
    Procs,        \* the processes
    Files,        \* the migration files, in the order of their names
    Kinds,        \* the normalised kinds, in _BACKFILL_ORDER
    TableOf,      \* the file that creates the table of a kind
    Records,      \* the records of the older release
    KindOf,       \* the kind of each record
    Parent,       \* the record that its foreign key names (itself: none)
    None,         \* no row
    MaxEdits, MaxReleases, MaxFailures, MaxCrashes   \* bounds

ASSUME OrderAssumption ==
    \A r \in Records : \E i, j \in 1..Len(Kinds) :
        /\ KindOf[Parent[r]] = Kinds[i] /\ KindOf[r] = Kinds[j]
        /\ Parent[r] # r => i < j

(* None is no version, and a database holds finitely many records.         *)
ASSUME RecordsAssumption == IsFiniteSet(Records) /\ None \notin Nat

Names == {Files[i] : i \in 1..Len(Files)}

VARIABLES
    failFast,     \* _schema_fail_fast(): the production setting
    release,      \* the content of each file in the newest release
    history,      \* schema_migrations: [sum, success] for each file
    tables,       \* the files whose DDL has been applied
    legacy,       \* ui_control_governance: the version of each record, or None
    normal,       \* the normalised tables: the version of each record, or None
    proc,         \* the state of each process
    faults,       \* bounded counters: failures, crashes, edits, releases
    applied,      \* history: the contents each file was applied with, in order
    crossed,      \* history: two boots have overlapped
    left          \* history: records that a boot could not move

vars == <<failFast, release, history, tables, legacy, normal, proc, faults,
          applied, crossed, left>>

At(p, s) == proc[p].step = s
Booting(p) == proc[p].step \notin {"down", "up"}
Held == {r \in Records : legacy[r] # None}

(* A statement that fails, within the bound on failures.                   *)
Attempt(ok) ==
    IF ok THEN faults' = faults
    ELSE faults.failures < MaxFailures /\ faults' = [faults EXCEPT !.failures = @ + 1]

(* i, k: the next file and kind; failed: the files that failed; rows: the  *)
(* legacy rows in hand.                                                    *)
Down == [step |-> "down", files |-> release, i |-> 1, failed |-> {}, k |-> 1,
         rows |-> <<>>]

Init ==
    /\ failFast \in BOOLEAN
    /\ release = [f \in Names |-> 1]
    /\ history = [f \in Names |-> None]
    /\ tables = {}
    /\ legacy = [r \in Records |-> 0]
    /\ normal = [r \in Records |-> None]
    /\ proc = [p \in Procs |-> Down]
    /\ faults = [failures |-> 0, crashes |-> 0, edits |-> 0, releases |-> 0]
    /\ applied = [f \in Names |-> <<>>]
    /\ crossed = FALSE
    /\ left = {}

-----------------------------------------------------------------------------
(* The boot *)

Boot(p) ==
    /\ At(p, "down")
    /\ proc' = [proc EXCEPT ![p] = [Down EXCEPT !.step = "gate"]]
    /\ crossed' = (crossed \/ \E q \in Procs : Booting(q))
    /\ UNCHANGED <<failFast, release, history, tables, legacy, normal, faults, applied, left>>

(* Mutant: a failed application counts as history too.                     *)
AnyRowDrifts(files) ==
    {f \in Names : history[f] # None /\ history[f].sum # files[f]}

(* Mutant: a change is only warned of.                                     *)
NothingDrifts(files) == {}

(* _detect_migration_drift: files applied with success and changed since.  *)
Drift(files) ==
    {f \in Names : history[f] # None /\ history[f].success /\ history[f].sum # files[f]}

(* The immutability gate: it refuses what has changed, and history that it *)
(* cannot look up.                                                         *)
Gate(p, ok) ==
    /\ At(p, "gate")
    /\ Attempt(ok)
    /\ proc' = [proc EXCEPT ![p] =
         IF failFast /\ (~ok \/ Drift(@.files) # {}) THEN Down
         ELSE [@ EXCEPT !.step = "apply"]]
    /\ UNCHANGED <<failFast, release, history, tables, legacy, normal, applied, crossed, left>>

File(p) == Files[proc[p].i]

(* This content of the file was the last to be applied.                    *)
Current(f, files) == applied[f] # <<>> /\ Last(applied[f]) = files[f]

(* One file in one transaction.                                            *)
ApplyFile(p, ok) ==
    /\ At(p, "apply")
    /\ Attempt(ok)
    /\ tables' = IF ok THEN tables \cup {File(p)} ELSE tables
    /\ applied' = IF ok /\ ~Current(File(p), proc[p].files)
                  THEN [applied EXCEPT ![File(p)] = Append(@, proc[p].files[File(p)])]
                  ELSE applied
    /\ LET h == proc[p]
       IN  proc' = [proc EXCEPT ![p] =
             [h EXCEPT !.step = "record", !.failed = IF ok THEN @ ELSE @ \cup {File(p)}]]
    /\ UNCHANGED <<failFast, release, history, legacy, normal, crossed, left>>

(* After the last file: failed files end the boot in production.           *)
FilesDone(h) ==
    IF failFast /\ h.failed # {} THEN Down ELSE [h EXCEPT !.step = "kind"]

(* _record_migration, whose own failure is swallowed.                      *)
Record(p, ok) ==
    LET f == File(p)
        h == proc[p]
    IN  /\ At(p, "record")
        /\ Attempt(ok)
        /\ history' = IF ~ok THEN history
                      ELSE [history EXCEPT ![f] = [sum |-> h.files[f], success |-> f \notin h.failed]]
        /\ proc' = [proc EXCEPT ![p] = IF h.i = Len(Files) THEN FilesDone(h)
                                       ELSE [h EXCEPT !.step = "apply", !.i = @ + 1]]
        /\ UNCHANGED <<failFast, release, tables, legacy, normal, applied, crossed, left>>

BackfillKind(k) == Kinds[k]

NextKind(h) == IF h.k = Len(Kinds) THEN [h EXCEPT !.step = "up"]
               ELSE [h EXCEPT !.step = "kind", !.k = @ + 1]

(* The next row of the kind, or the next kind.                             *)
NextRow(h) == IF h.rows = <<>> THEN NextKind(h) ELSE [h EXCEPT !.step = "save"]

(* The rows cannot be read, or the check for the first table failed or did *)
(* not find it: the backfill ends there, until the next boot.              *)
Ended(p, ok) == ~ok \/ (proc[p].k = 1 /\ TableOf[BackfillKind(1)] \notin tables)

(* The legacy rows of the next kind, when it has its table.                *)
ReadKind(p, ok) ==
    LET kind == BackfillKind(proc[p].k)
        rows == {r \in Held : KindOf[r] = kind /\ TableOf[kind] \in tables}
    IN  /\ At(p, "kind")
        /\ Attempt(ok)
        /\ \E order \in [1..Cardinality(rows) -> rows] :
              /\ \A r \in rows : \E i \in 1..Cardinality(rows) : order[i] = r
              /\ proc' = [proc EXCEPT ![p] =
                   IF Ended(p, ok) THEN [@ EXCEPT !.step = "up"]
                   ELSE NextRow([@ EXCEPT !.rows =
                          [i \in 1..Cardinality(rows) |-> <<order[i], legacy[order[i]]>>]])]
        /\ left' = IF ok /\ TableOf[kind] \in tables THEN left ELSE left \cup Held
        /\ UNCHANGED <<failFast, release, history, tables, legacy, normal, applied, crossed>>

(* The check for the table of a kind fails: the kind is passed over.       *)
SkipKind(p) ==
    /\ At(p, "kind")
    /\ Attempt(FALSE)
    /\ proc' = [proc EXCEPT ![p] = NextKind(@)]
    /\ left' = left \cup Held
    /\ UNCHANGED <<failFast, release, history, tables, legacy, normal, applied, crossed>>

(* The database holds the foreign keys.                                    *)
KeyHolds(r) == Parent[r] = r \/ normal[Parent[r]] # None

(* Mutant: the row is deleted whether or not it was saved.                 *)
DeletedAnyway(h, saved) == [h EXCEPT !.step = "delete"]

AfterSave(h, saved) ==
    IF saved THEN [h EXCEPT !.step = "delete"] ELSE NextRow([h EXCEPT !.rows = Tail(@)])

(* save_governance of a legacy row, over whatever the table holds.  A row  *)
(* that cannot be saved stays where it is.                                 *)
SaveRow(p, ok) ==
    LET row == Head(proc[p].rows)
        saved == ok /\ KeyHolds(row[1])
    IN  /\ At(p, "save")
        /\ Attempt(ok)
        /\ normal' = IF saved THEN [normal EXCEPT ![row[1]] = row[2]] ELSE normal
        /\ proc' = [proc EXCEPT ![p] = AfterSave(@, saved)]
        /\ left' = IF saved THEN left ELSE left \cup {row[1]}
        /\ UNCHANGED <<failFast, release, history, tables, legacy, applied, crossed>>

(* Mutant: the row stays in the generic table.                             *)
KeepsRow(r) == legacy

Deleted(r) == [legacy EXCEPT ![r] = None]

DeleteRow(p, ok) ==
    LET h == proc[p]
        r == Head(h.rows)[1]
    IN  /\ At(p, "delete")
        /\ Attempt(ok)
        /\ legacy' = IF ok THEN Deleted(r) ELSE legacy
        /\ proc' = [proc EXCEPT ![p] = NextRow([h EXCEPT !.rows = Tail(@)])]
        /\ left' = IF ok THEN left ELSE left \cup {r}
        /\ UNCHANGED <<failFast, release, history, tables, normal, applied, crossed>>

-----------------------------------------------------------------------------
(* What happens around it *)

(* A serving process saves a record anew, or creates one with its id: only *)
(* the normalised table is written and read.                               *)
Edit(p, r) ==
    /\ At(p, "up") /\ faults.edits < MaxEdits
    /\ TableOf[KindOf[r]] \in tables /\ KeyHolds(r)
    /\ faults' = [faults EXCEPT !.edits = @ + 1]
    /\ normal' = [normal EXCEPT ![r] = faults.edits + 1]
    /\ UNCHANGED <<failFast, release, history, tables, legacy, proc, applied, crossed, left>>

(* A release in which a migration file was edited.                         *)
Release(f) ==
    /\ faults.releases < MaxReleases
    /\ faults' = [faults EXCEPT !.releases = @ + 1]
    /\ release' = [release EXCEPT ![f] = @ + 1]
    /\ UNCHANGED <<failFast, history, tables, legacy, normal, proc, applied, crossed, left>>

Crash(p) ==
    /\ ~At(p, "down") /\ faults.crashes < MaxCrashes
    /\ faults' = [faults EXCEPT !.crashes = @ + 1]
    /\ proc' = [proc EXCEPT ![p] = Down]
    /\ left' = IF Booting(p) THEN left \cup Held ELSE left
    /\ UNCHANGED <<failFast, release, history, tables, legacy, normal, applied, crossed>>

Step(p) ==
    \/ Boot(p) \/ SkipKind(p)
    \/ \E ok \in BOOLEAN :
          \/ Gate(p, ok) \/ ApplyFile(p, ok) \/ Record(p, ok)
          \/ ReadKind(p, ok) \/ SaveRow(p, ok) \/ DeleteRow(p, ok)

Next ==
    \/ \E p \in Procs : Step(p) \/ Crash(p) \/ \E r \in Records : Edit(p, r)
    \/ \E f \in Names : Release(f)

(* A boot goes on, and one that ended is started again: the containers     *)
(* restart unless stopped (docker-compose.yml).                            *)
Spec == Init /\ [][Next]_vars /\ \A p \in Procs : WF_vars(Step(p))

-----------------------------------------------------------------------------
(* Properties *)

(* No record of the older release is ever lost: whatever fails, crashes or *)
(* overlaps, it is in the generic table or in its normalised one.          *)
NoRecordLost == \A r \in Records : legacy[r] # None \/ normal[r] # None

(* A boot puts an older record over a newer one only when an earlier boot  *)
(* was kept from moving it (a failed statement, a crash, a missing table)  *)
(* or when two boots overlap.                                              *)
NewerKept ==
    [][\A r \in Records : normal[r] # None /\ normal'[r] # None /\ normal'[r] < normal[r]
          => crossed \/ r \in left]_vars

(* The gate (C3): in production the new content of an edited file never    *)
(* runs on a database where the old one did, unless the history lacks that *)
(* success: its write failed, a later attempt of the same file failed, or  *)
(* another boot was under way.                                             *)
GateHolds ==
    [][\A f \in Names :
          applied[f] # <<>> /\ applied'[f] # applied[f] /\ failFast =>
              \/ crossed
              \/ history[f] = None \/ ~history[f].success
              \/ history[f].sum # Last(applied[f])]_vars

(* Once faults stop, a process that boots serves in the end, also on files *)
(* that failed and were corrected, unless the gate stops it for good: a    *)
(* file was changed after it had been applied.                             *)
BootSettles ==
    \A p \in Procs : Booting(p) ~>
        \/ At(p, "up")
        \/ failFast /\ \E f \in Names : \E i \in 1..Len(applied[f]) : applied[f][i] # release[f]
=============================================================================
