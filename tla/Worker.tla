------------------------------- MODULE Worker -------------------------------
(***************************************************************************)
(* The unified worker (worker.py): several instances, of which the holder  *)
(* of an advisory lock of the database is to poll the sources, while the   *)
(* others stand by; and the refresh a user asks for (assets_refresh of     *)
(* api/routes/assets.py), which runs a cycle in the API process without    *)
(* the lock.                                                               *)
(*                                                                         *)
(* The lock belongs to a session.  The database ends the session of a dead *)
(* process, and may end that of a live one, which goes on as the leader:   *)
(* it never looks at the connection again.                                 *)
(***************************************************************************)
EXTENDS PollCycle, Sequences

CONSTANTS
    Instances,     \* worker processes
    Refreshers,    \* API threads that run a refresh
    Refreshable,   \* the sources a refresh may name
    Order,         \* the sources in the order a worker polls them
    Deployments,   \* bound: the sets of runners that may exist together
    Nobody         \* the lock is free

ASSUME WorkerAssumption ==
    /\ Runners = Instances \cup Refreshers
    /\ Sources = {Order[i] : i \in 1..Len(Order)}
    /\ Refreshable \subseteq Sources
    /\ Deployments \subseteq SUBSET Runners
    /\ Nobody \notin Instances

VARIABLES
    deployed,      \* the runners that exist: chosen once
    inst,          \* the state of each worker process
    holder,        \* whose session holds the lock, for the database
    unguarded      \* history: a live leader's session has ended, or the lock
                   \* could not be asked for

vars == <<cycleVars, deployed, inst, holder, unguarded>>

(* lead: "down", the process does not run; "wanted", leader_conn is None;  *)
(* "held", leader_conn is set; "off", it polls without a lock.  due are    *)
(* the sources whose next_run has come, todo what is left of a pass.       *)
Down == [lead |-> "down", due |-> {}, todo |-> <<>>]

Polls(w) == inst[w].lead \in {"held", "off"}

(* Mutant: a lock kept in a table row, which nothing frees.                *)
NeverFreed(w) == FALSE

(* The lock of a session goes with the session.                            *)
FreedWithSession(w) == holder = w

(* Mutant: the lock is taken over from whoever holds it.                   *)
AlwaysFree(w) == TRUE

(* pg_try_advisory_lock on a new connection.                               *)
LockFree(w) == holder = Nobody

(* The sources of a pass: those whose time has come when it begins.        *)
DueNow(w) == SelectSeq(Order, LAMBDA s : s \in inst[w].due)

-----------------------------------------------------------------------------
Init ==
    /\ CycleInit
    /\ deployed \in Deployments
    /\ inst = [w \in Instances |-> Down]
    /\ holder = Nobody
    /\ unguarded = FALSE

(* The process starts: every source is due at once.                        *)
Start(w) ==
    /\ inst[w] = Down
    /\ inst' = [inst EXCEPT ![w] = [lead |-> "wanted", due |-> Sources, todo |-> <<>>]]
    /\ UNCHANGED <<cycleVars, holder, unguarded>>

AcquireLock(w) ==
    /\ inst[w].lead = "wanted"
    /\ LockFree(w)
    /\ holder' = w
    /\ inst' = [inst EXCEPT ![w].lead = "held"]
    /\ UNCHANGED <<cycleVars, unguarded>>

(* The lock is somebody else's: try again in five seconds.                 *)
StandBy(w) == inst[w].lead = "wanted" /\ ~LockFree(w) /\ UNCHANGED vars

(* The database cannot be asked: poll without the lock from now on.        *)
LockUnavailable(w) ==
    /\ inst[w].lead = "wanted"
    /\ faults < MaxFaults
    /\ faults' = faults + 1
    /\ inst' = [inst EXCEPT ![w].lead = "off"]
    /\ unguarded' = TRUE
    /\ UNCHANGED <<sync, run, clock, disturbed, holder>>

BeginPass(w) ==
    /\ Polls(w)
    /\ inst[w].todo = <<>>
    /\ DueNow(w) # <<>>
    /\ inst' = [inst EXCEPT ![w].todo = DueNow(w)]
    /\ UNCHANGED <<cycleVars, holder, unguarded>>

Poll(w) ==
    /\ inst[w].todo # <<>>
    /\ BeginCycle(w, Head(inst[w].todo))
    /\ UNCHANGED <<inst, holder, unguarded>>

(* A step of the cycle; when it has ended the source is due later.         *)
CycleStep(w) ==
    /\ \/ Continue(w) /\ inst' = inst
       \/ EndCycle(w) /\ inst' = [inst EXCEPT ![w].todo = Tail(@),
                                              ![w].due = @ \ {run[w].source}]
    /\ UNCHANGED <<holder, unguarded>>

(* An exception that leaves run_cycle ends the process.                    *)
Die(w) ==
    /\ Escape(w)
    /\ inst' = [inst EXCEPT ![w] = Down]
    /\ UNCHANGED <<holder, unguarded>>

(* poll_interval_seconds have passed since the source was polled.          *)
Elapse(w, s) ==
    /\ Polls(w)
    /\ s \notin inst[w].due
    /\ inst' = [inst EXCEPT ![w].due = @ \cup {s}]
    /\ UNCHANGED <<cycleVars, holder, unguarded>>

(* The process is killed, or its host lost.                                *)
Crash(w) ==
    /\ inst[w] # Down
    /\ faults < MaxFaults
    /\ faults' = faults + 1
    /\ inst' = [inst EXCEPT ![w] = Down]
    /\ run' = [run EXCEPT ![w] = Idle]
    /\ UNCHANGED <<sync, clock, disturbed, holder, unguarded>>

(* The session that holds the lock belongs to no live leader.              *)
Orphaned(w) == holder = w /\ inst[w].lead # "held"

EndOrphan(w) ==
    /\ Orphaned(w) /\ FreedWithSession(w)
    /\ holder' = Nobody
    /\ UNCHANGED <<cycleVars, inst, unguarded>>

(* The session of a live leader ends: the database restarted, the network  *)
(* dropped the connection.                                                 *)
LoseSession(w) ==
    /\ holder = w /\ ~Orphaned(w)
    /\ faults < MaxFaults
    /\ faults' = faults + 1
    /\ holder' = Nobody
    /\ unguarded' = TRUE
    /\ UNCHANGED <<sync, run, clock, disturbed, inst>>

(* POST assets/refresh *)
Refresh(r, s) == BeginCycle(r, s) /\ UNCHANGED <<inst, holder, unguarded>>

(* An exception becomes the answer of the request.                         *)
RefreshStep(r) ==
    /\ Continue(r) \/ EndCycle(r) \/ Escape(r)
    /\ UNCHANGED <<inst, holder, unguarded>>

Step ==
    \/ \E w \in Instances \cap deployed :
          \/ Start(w) \/ AcquireLock(w) \/ StandBy(w) \/ LockUnavailable(w)
          \/ BeginPass(w) \/ Poll(w) \/ CycleStep(w) \/ Die(w)
          \/ \E s \in Sources : Elapse(w, s)
          \/ Crash(w) \/ EndOrphan(w) \/ LoseSession(w)
    \/ \E r \in Refreshers \cap deployed :
          \/ \E s \in Refreshable : Refresh(r, s)
          \/ RefreshStep(r)

Next == Step /\ deployed' = deployed

(* Every worker keeps running: docker restarts one that ended (restart:    *)
(* unless-stopped), a call returns or raises (timeouts), and the database  *)
(* notices a dead session.  Nothing makes users refresh, time pass quickly *)
(* or faults happen.                                                       *)
Fairness ==
    \A w \in Instances :
        /\ WF_vars(w \in deployed /\ Start(w) /\ UNCHANGED deployed)
        /\ WF_vars(AcquireLock(w) /\ UNCHANGED deployed)
        /\ WF_vars((BeginPass(w) \/ Poll(w)) /\ UNCHANGED deployed)
        /\ WF_vars((CycleStep(w) \/ Die(w)) /\ UNCHANGED deployed)
        /\ WF_vars(EndOrphan(w) /\ UNCHANGED deployed)

Spec == Init /\ [][Next]_vars /\ Fairness

-----------------------------------------------------------------------------
(* Properties *)

(* One worker polls at a time, the one that holds the lock, for as long as *)
(* sessions live and the lock can be asked for: a restarted process waits  *)
(* until the session of its predecessor is gone.                           *)
OneWorkerPolls ==
    ~unguarded => \A w \in Instances : Polls(w) => holder = w

(* While cycles of one source do not overlap, its last success is never    *)
(* taken back: not by a failing cycle, a killed one or a takeover.         *)
SuccessIsKept ==
    [][~disturbed' => \A s \in Sources : sync'[s].success >= sync[s].success]_sync

(* Somebody always comes to poll: when the leader dies a standby or its    *)
(* own successor takes over, even if it dies again and again.              *)
Takeover == []<>(\E w \in Instances : Polls(w))

-----------------------------------------------------------------------------
(* What the documentation says of it, checked against what the code does.  *)

(* docs/collection-standards.md: a cycle whose attempts have all failed    *)
(* leaves status "error" in the row of its source.                         *)
FailedIsRecorded ==
    [][\A r \in Runners : At(r, "error") /\ run'[r] = Idle =>
          sync'[run[r].source].status = "error"]_vars
=============================================================================
