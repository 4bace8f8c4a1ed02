------------------------------ MODULE AuditLog ------------------------------
(***************************************************************************)
(* The action audit log: _log_action, verify_audit_chain and the seeding   *)
(* of the chain in api/server.py, append_audit_event and load_audit_events *)
(* of repositories/state_postgres.py, audit_log_verify of                  *)
(* api/routes/audit.py.                                                    *)
(*                                                                         *)
(* The API process chains its entries in memory, keeps the newest Window   *)
(* of them, and writes each through to a table keyed by seq, where the     *)
(* first entry of a seq stays.  Nothing orders the threads.  After a       *)
(* restart the chain goes on from the newest row.  The hash is injective:  *)
(* what is hashed is the hash.  Users, actions and details are told apart  *)
(* by the number of the call (ts).                                         *)
(***************************************************************************)
EXTENDS Integers, Sequences, FiniteSets

CONSTANTS
    Threads,       \* the threads that run handlers
    Window,        \* entries kept in memory: 2000 in the code
    MaxCalls,      \* bound on the calls of _log_action
    MaxFaults      \* bound on restarts and database failures

ASSUME WindowAssumption == Window \in Nat \ {0} /\ MaxCalls \in Nat

VARIABLES
    memory,        \* action_audit_log
    auditHead,     \* _audit_head: the newest row when the process started
    table,         \* the row of each seq of ui_audit_log
    op,            \* where each thread is in _log_action, and its entry
    calls, faults, \* counted for the bounds; calls is the time as well
    failed,        \* history: an insertion failed or was cut off
    crossed,       \* history: a call has begun while another was running
    blind          \* history: a start could not read the newest row

auditVars == <<memory, auditHead, table, op, calls, faults, failed, crossed, blind>>

-----------------------------------------------------------------------------
(* Entries.  A timestamp is a moment and the form it is written in:        *)
(* _isoformat ends it with Z, what the table gives back with +00:00.       *)

(* What the first entry continues ("GENESIS"), which is no hash.          *)
AuditRoot == <<>>

(* No row and no head: no entry has this number.                           *)
NoRow == [seq |-> 0]

(* A thread that is not in _log_action.                                    *)
Idle == [step |-> "idle", entry |-> NoRow]

Written(t) == [at |-> t, zone |-> "Z"]

EntryHash(prev, seq, ts) == <<prev, seq, ts>>

Entry(prev, seq, ts) ==
    [seq |-> seq, ts |-> ts, prev |-> prev, hash |-> EntryHash(prev, seq, ts)]

(* Mutant: the links are not looked at.                                    *)
LinksUnchecked(s) == \A i \in 1..Len(s) : s[i].hash = EntryHash(s[i].prev, s[i].seq, s[i].ts)

(* verify_audit_chain *)
Verify(s) ==
    /\ \A i \in 1..Len(s) : s[i].hash = EntryHash(s[i].prev, s[i].seq, s[i].ts)
    /\ \A i \in 2..Len(s) : s[i].prev = s[i - 1].hash

(* Mutant: the first entry after a start continues the literal "GENESIS".  *)
GenesisAgain ==
    IF memory # <<>> THEN <<memory[Len(memory)].hash, memory[Len(memory)].seq + 1>>
    ELSE <<AuditRoot, IF auditHead # NoRow THEN auditHead.seq + 1 ELSE 1>>

(* The hash and the number the next entry goes on with.                    *)
Continuation ==
    IF memory # <<>> THEN <<memory[Len(memory)].hash, memory[Len(memory)].seq + 1>>
    ELSE IF auditHead # NoRow THEN <<auditHead.hash, auditHead.seq + 1>> ELSE <<AuditRoot, 1>>

(* Only the newest entries are kept.                                       *)
Kept(s) == SubSeq(s, IF Len(s) > Window THEN Len(s) - Window + 1 ELSE 1, Len(s))

(* append_audit_event: ON CONFLICT (seq) DO NOTHING *)
RowInserted(e) == [table EXCEPT ![e.seq] = IF @ = NoRow THEN e ELSE @]

(* The rows in the order of their seq, as they are stored: the i-th has i  *)
(* rows up to its own.                                                     *)
Rows == {s \in 1..MaxCalls : table[s] # NoRow}
RowAt(i) == CHOOSE s \in Rows : Cardinality({u \in Rows : u <= s}) = i
Stored == [i \in 1..Cardinality(Rows) |-> table[RowAt(i)]]

(* load_audit_events: the same rows, with the timestamps as they come back *)
(* from the database.                                                      *)
LoadedEvents == [i \in 1..Len(Stored) |-> [Stored[i] EXCEPT !.ts.zone = "+00:00"]]

(* latest_audit_event *)
LatestRow == IF Stored = <<>> THEN NoRow ELSE Stored[Len(Stored)]

-----------------------------------------------------------------------------
AuditInit ==
    /\ memory = <<>>
    /\ auditHead = NoRow
    /\ table = [s \in 1..MaxCalls |-> NoRow]
    /\ op = [t \in Threads |-> Idle]
    /\ calls = 0
    /\ faults = 0
    /\ failed = FALSE
    /\ crossed = FALSE
    /\ blind = FALSE

At(t, s) == op[t].step = s

(* _log_action: build the entry from what memory ends with ...             *)
BuildEntry(t) ==
    /\ op[t] = Idle
    /\ calls < MaxCalls
    /\ calls' = calls + 1
    /\ op' = [op EXCEPT ![t] = [step |-> "append",
                 entry |-> Entry(Continuation[1], Continuation[2], Written(calls'))]]
    /\ crossed' = (crossed \/ \E u \in Threads : op[u] # Idle)
    /\ UNCHANGED <<memory, auditHead, table, faults, failed, blind>>

(* ... append it and drop what leaves the window ...                       *)
AppendEntry(t) ==
    /\ At(t, "append")
    /\ memory' = Kept(Append(memory, op[t].entry))
    /\ op' = [op EXCEPT ![t].step = "persist"]
    /\ UNCHANGED <<auditHead, table, calls, faults, failed, crossed, blind>>

(* ... and write it through ...                                            *)
Persist(t) ==
    /\ At(t, "persist")
    /\ table' = RowInserted(op[t].entry)
    /\ op' = [op EXCEPT ![t] = Idle]
    /\ UNCHANGED <<memory, auditHead, calls, faults, failed, crossed, blind>>

(* ... where a failure is logged and forgotten.                            *)
PersistFails(t) ==
    /\ At(t, "persist")
    /\ faults < MaxFaults
    /\ faults' = faults + 1
    /\ failed' = TRUE
    /\ op' = [op EXCEPT ![t] = Idle]
    /\ UNCHANGED <<memory, auditHead, table, calls, crossed, blind>>

(* The process ends and starts again: memory is gone, and the chain goes   *)
(* on from the newest row, or from nothing if it cannot be read.           *)
Restart(readable) ==
    /\ faults < MaxFaults
    /\ faults' = faults + 1
    /\ memory' = <<>>
    /\ auditHead' = IF readable THEN LatestRow ELSE NoRow
    /\ blind' = (blind \/ ~readable)
    /\ op' = [t \in Threads |-> Idle]
    /\ UNCHANGED <<table, calls, failed, crossed>>

AuditNext ==
    \/ \E t \in Threads :
          BuildEntry(t) \/ AppendEntry(t) \/ Persist(t) \/ PersistFails(t)
    \/ \E readable \in BOOLEAN : Restart(readable)

AuditSpec == AuditInit /\ [][AuditNext]_auditVars

-----------------------------------------------------------------------------
(* Properties *)

(* While calls do not cross, no insertion failed and every start could     *)
(* read the newest row, the stored rows are one chain from the first entry *)
(* on, across restarts: it is the form of the timestamps alone that keeps  *)
(* the loaded rows from verifying.                                         *)
StoredIsChain ==
    ~crossed /\ ~failed /\ ~blind =>
        /\ Verify(Stored)
        /\ Stored # <<>> => Stored[1].prev = AuditRoot
        /\ \A i \in 1..Len(Stored) : Stored[i].seq = i

(* While calls do not cross and every start could read the newest row, the *)
(* verification notices a hole: if the rows verify from the first entry    *)
(* on, the table has every entry of the window up to its newest row, also  *)
(* when insertions failed.                                                 *)
HoleIsSeen ==
    ~crossed /\ ~blind /\ Stored # <<>> /\ Verify(Stored) /\ Stored[1].prev = AuditRoot =>
        \A i \in 1..Len(memory) :
            memory[i].seq <= Stored[Len(Stored)].seq => table[memory[i].seq] = memory[i]

-----------------------------------------------------------------------------
(* What the code says of itself, checked against what it does.             *)

(* schema/014_audit_log.sql: the log outlives restarts and is verified by  *)
(* audit_log_verify, which loads the rows of the table.                    *)
LoadedVerifies == ~crossed /\ ~failed /\ ~blind => Verify(LoadedEvents)
=============================================================================
