------------------------------ MODULE PollCycle ------------------------------
(***************************************************************************)
(* One collection cycle of a source (run_cycle of pollers/base.py) and the *)
(* row of source_syncs it keeps, on PostgreSQL.                            *)
(*                                                                         *)
(* Whoever runs a cycle reads the row, collects with retries, and writes   *)
(* the row back from what was read.  The table accepts the sources its     *)
(* CHECK constraint names (Registered) and refuses the others.  Extra data *)
(* saved after a success (post_ingest) never fails the cycle: left out.    *)
(* Collected entities are upserts of their own tables; only whether all of *)
(* them were saved matters here.  Counts, messages and the other two times *)
(* of the row are left out.  Times are the numbers of cycles begun, not    *)
(* told apart beyond MaxClock.                                             *)
(***************************************************************************)
EXTENDS Integers

CONSTANTS
    Runners,       \* whoever runs cycles: worker processes, API threads
    Sources,       \* the enabled sources
    Registered,    \* the sources the table accepts
    Idle,          \* a runner that runs no cycle
    MaxRetries,    \* retries after the first attempt: 2 or 3 in the code
    MaxClock,      \* bound on the times told apart
    MaxFaults      \* bound on the failures of database and processes

ASSUME CycleAssumption ==
    MaxRetries \in Nat /\ MaxClock \in Nat /\ MaxFaults \in Nat

VARIABLES
    sync,          \* the row of each source
    run,           \* the cycle each runner runs and its local variables; prev
                   \* is the last_success_at of the row it has read
    clock,         \* the time, in cycles begun
    faults,        \* failures so far
    disturbed      \* history: cycles of one source have overlapped, or a
                   \* save was applied and reported failed

cycleVars == <<sync, run, clock, faults, disturbed>>

(* No row is a row without times. *)
NoSync == [status |-> "none", success |-> 0]

CycleInit ==
    /\ sync = [s \in Sources |-> NoSync]
    /\ run = [r \in Runners |-> Idle]
    /\ clock = 0
    /\ faults = 0
    /\ disturbed = FALSE

At(r, s) == run[r] # Idle /\ run[r].step = s

-----------------------------------------------------------------------------
(* The rows a cycle writes *)

SuccessRow(c) == [status |-> "success", success |-> c.started]

(* Mutant: an error forgets the last success.                              *)
ErrorForgets(c) == [status |-> "error", success |-> 0]

ErrorRow(c) == [status |-> "error", success |-> c.prev]

LastAttempt(c) == c.attempt > MaxRetries

(* What a failed attempt leads to: another one, or the error row.          *)
AfterFailure(c) ==
    IF LastAttempt(c) THEN [c EXCEPT !.step = "error"]
    ELSE [c EXCEPT !.step = "collect", !.attempt = @ + 1]

-----------------------------------------------------------------------------
(* Steps of a cycle *)

BeginCycle(r, s) ==
    /\ run[r] = Idle
    /\ clock' = IF clock < MaxClock THEN clock + 1 ELSE clock
    /\ run' = [run EXCEPT ![r] = [source |-> s, step |-> "read", started |-> clock',
                                  prev |-> 0, attempt |-> 1]]
    /\ disturbed' = (disturbed \/ \E q \in Runners : run[q] # Idle /\ run[q].source = s)
    /\ UNCHANGED <<sync, faults>>

ReadSync(r) ==
    /\ At(r, "read")
    /\ run' = [run EXCEPT ![r].prev = sync[run[r].source].success,
                          ![r].step = "collect"]
    /\ UNCHANGED <<sync, clock, faults, disturbed>>

(* ingest_collector: every record is collected, normalized and saved.      *)
Collect(r) ==
    /\ At(r, "collect")
    /\ run' = [run EXCEPT ![r].step = "success"]
    /\ UNCHANGED <<sync, clock, faults, disturbed>>

(* The source does not answer, or a record cannot be normalized or saved.  *)
CollectFails(r) ==
    /\ At(r, "collect")
    /\ run' = [run EXCEPT ![r] = AfterFailure(@)]
    /\ UNCHANGED <<sync, clock, faults, disturbed>>

SaveSuccess(r) ==
    /\ At(r, "success")
    /\ run[r].source \in Registered
    /\ sync' = [sync EXCEPT ![run[r].source] = SuccessRow(run[r])]
    /\ run' = [run EXCEPT ![r] = Idle]
    /\ UNCHANGED <<clock, faults, disturbed>>

(* The table refuses the row of the success: a failed attempt like others. *)
SuccessRefused(r) ==
    /\ At(r, "success")
    /\ run[r].source \notin Registered
    /\ run' = [run EXCEPT ![r] = AfterFailure(@)]
    /\ UNCHANGED <<sync, clock, faults, disturbed>>

(* The database fails at the save of the success, before or after it has   *)
(* taken effect.                                                           *)
SuccessUnsaved(r, applied) ==
    /\ At(r, "success")
    /\ run[r].source \in Registered
    /\ faults < MaxFaults
    /\ faults' = faults + 1
    /\ sync' = IF applied THEN [sync EXCEPT ![run[r].source] = SuccessRow(run[r])] ELSE sync
    /\ disturbed' = (disturbed \/ applied)
    /\ run' = [run EXCEPT ![r] = AfterFailure(@)]
    /\ UNCHANGED <<clock>>

SaveError(r) ==
    /\ At(r, "error")
    /\ run[r].source \in Registered
    /\ sync' = [sync EXCEPT ![run[r].source] = ErrorRow(run[r])]
    /\ run' = [run EXCEPT ![r] = Idle]
    /\ UNCHANGED <<clock, faults, disturbed>>

(* An exception nobody in run_cycle catches: the table refuses the row of  *)
(* the error, or the database fails outside the attempts.                  *)
Escape(r) ==
    /\ \/ At(r, "error") /\ run[r].source \notin Registered /\ faults' = faults
       \/ (At(r, "read") \/ At(r, "error")) /\ faults < MaxFaults /\ faults' = faults + 1
    /\ run' = [run EXCEPT ![r] = Idle]
    /\ UNCHANGED <<sync, clock, disturbed>>

(* The steps that leave the cycle running, and those that end it.          *)
Continue(r) ==
    \/ ReadSync(r) \/ Collect(r) \/ CollectFails(r) \/ SuccessRefused(r)
    \/ \E applied \in BOOLEAN : SuccessUnsaved(r, applied)
EndCycle(r) == SaveSuccess(r) \/ SaveError(r)
=============================================================================
