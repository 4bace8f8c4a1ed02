-------------------------- MODULE CollectionProofs --------------------------
(***************************************************************************)
(* Proofs about how records come in: Worker, which polls the sources, for  *)
(* any instances, refreshers, sources and bounds, ScanIngest, to which     *)
(* they are pushed, for any pushes, runs, assets, controls and flow rows,  *)
(* and AssetIdentity, which says what host they are about, for any names.  *)
(***************************************************************************)
EXTENDS Worker, ScanIngest, AssetIdentity, TLAPS, FiniteSetTheorems, SequenceTheorems,
        WellFoundedInduction

-----------------------------------------------------------------------------
(* What is known of each process: a record whose lead is one of these.     *)
Leads == {"down", "wanted", "held", "off"}

Processes ==
    /\ DOMAIN inst = Instances
    /\ \A w \in Instances :
          /\ DOMAIN inst[w] = {"lead", "due", "todo"}
          /\ inst[w].lead \in Leads

(* While nothing has gone unguarded, no process has given the lock up, and *)
(* one that believes it holds the lock does.                               *)
LockIsHeld ==
    ~unguarded => \A w \in Instances :
        /\ inst[w].lead # "off"
        /\ inst[w].lead = "held" => holder = w

Sound == Processes /\ LockIsHeld

-----------------------------------------------------------------------------
LEMMA SoundInit == Init => Sound
BY DEF Init, Sound, Processes, LockIsHeld, Leads, Down

(* A step that leaves the lock alone may change a process in any way that  *)
(* keeps its lead, or takes it down.                                       *)
LEMMA KeepsLead ==
    ASSUME Sound, NEW w \in Instances, NEW h,
           DOMAIN h = {"lead", "due", "todo"},
           h.lead \in {inst[w].lead, "down", "wanted"},
           inst' = [inst EXCEPT ![w] = h],
           UNCHANGED <<holder, unguarded>>
    PROVE  Sound'
<1>1. /\ DOMAIN inst' = Instances
      /\ \A v \in Instances : inst'[v] = IF v = w THEN h ELSE inst[v]
  BY DEF Sound, Processes
<1>2. Processes'
  BY <1>1 DEF Sound, Processes, Leads
<1>3. LockIsHeld'
  BY <1>1 DEF Sound, LockIsHeld
<1> QED
  BY <1>2, <1>3 DEF Sound

(* Nothing that the invariant speaks of changes.                           *)
LEMMA Stutter ==
    ASSUME Sound, UNCHANGED <<inst, holder, unguarded>>
    PROVE  Sound'
BY DEF Sound, Processes, LockIsHeld

(* What the steps of a pass make of a process.                             *)
LEMMA PassIsRecord ==
    ASSUME Sound, NEW w \in Instances, NEW due, NEW todo
    PROVE  LET h == [inst[w] EXCEPT !.due = due, !.todo = todo]
           IN  DOMAIN h = {"lead", "due", "todo"} /\ h.lead = inst[w].lead
BY DEF Sound, Processes

-----------------------------------------------------------------------------
(* Each step of a worker process *)

LEMMA WorkerStep ==
    ASSUME Sound, NEW w \in Instances,
           \/ Start(w) \/ AcquireLock(w) \/ StandBy(w) \/ LockUnavailable(w)
           \/ BeginPass(w) \/ Poll(w) \/ CycleStep(w) \/ Die(w)
           \/ \E s \in Sources : Elapse(w, s)
           \/ Crash(w) \/ EndOrphan(w) \/ LoseSession(w)
    PROVE  Sound'
<1>1. DOMAIN Down = {"lead", "due", "todo"} /\ Down.lead = "down"
  BY DEF Down
<1>2. CASE Start(w)
  <2> DEFINE h == [lead |-> "wanted", due |-> Sources, todo |-> <<>>]
  <2>1. DOMAIN h = {"lead", "due", "todo"} /\ h.lead = "wanted"
    OBVIOUS
  <2>2. inst' = [inst EXCEPT ![w] = h] /\ UNCHANGED <<holder, unguarded>>
    BY <1>2 DEF Start
  <2> HIDE DEF h
  <2> QED
    BY <2>1, <2>2, KeepsLead
<1>3. CASE AcquireLock(w)
  <2>1. holder = Nobody /\ holder' = w /\ unguarded' = unguarded
    BY <1>3 DEF AcquireLock, LockFree
  <2>2. inst' = [inst EXCEPT ![w] = [inst[w] EXCEPT !.lead = "held"]]
    BY <1>3 DEF AcquireLock
  <2>3. Processes'
    BY <2>2 DEF Sound, Processes, Leads
  <2>4. ~unguarded => \A v \in Instances : inst[v].lead \notin {"held", "off"}
    BY <2>1, WorkerAssumption DEF Sound, LockIsHeld
  <2>5. \A v \in Instances : inst'[v].lead = IF v = w THEN "held" ELSE inst[v].lead
    BY <2>2 DEF Sound, Processes
  <2> QED
    BY <2>1, <2>3, <2>4, <2>5 DEF Sound, LockIsHeld
<1>4. CASE StandBy(w)
  BY <1>4, Stutter DEF StandBy, vars
<1>5. CASE LockUnavailable(w)
  <2>1. inst' = [inst EXCEPT ![w] = [inst[w] EXCEPT !.lead = "off"]] /\ unguarded'
    BY <1>5 DEF LockUnavailable
  <2> QED
    BY <2>1 DEF Sound, Processes, LockIsHeld, Leads
<1>6. CASE BeginPass(w)
  <2> DEFINE h == [inst[w] EXCEPT !.todo = DueNow(w)]
  <2>1. DOMAIN h = {"lead", "due", "todo"} /\ h.lead = inst[w].lead
    BY DEF Sound, Processes
  <2>2. inst' = [inst EXCEPT ![w] = h] /\ UNCHANGED <<holder, unguarded>>
    BY <1>6 DEF BeginPass
  <2> HIDE DEF h
  <2> QED
    BY <2>1, <2>2, KeepsLead
<1>7. CASE Poll(w)
  BY <1>7, Stutter DEF Poll
<1>8. CASE CycleStep(w)
  <2>1. CASE inst' = inst
    BY <1>8, <2>1, Stutter DEF CycleStep
  <2>2. CASE inst' = [inst EXCEPT ![w].todo = Tail(@), ![w].due = @ \ {run[w].source}]
    <3> DEFINE todo == Tail(inst[w].todo)
               due == inst[w].due \ {run[w].source}
               h == [inst[w] EXCEPT !.due = due, !.todo = todo]
    <3>1. DOMAIN h = {"lead", "due", "todo"} /\ h.lead = inst[w].lead
      BY PassIsRecord
    <3>2. inst' = [inst EXCEPT ![w] = h]
      BY <2>2 DEF Sound, Processes
    <3>3. UNCHANGED <<holder, unguarded>>
      BY <1>8 DEF CycleStep
    <3> HIDE DEF h
    <3> QED
      BY <3>1, <3>2, <3>3, KeepsLead
  <2> QED
    BY <1>8, <2>1, <2>2 DEF CycleStep
<1>9. CASE Die(w)
  BY <1>1, <1>9, KeepsLead DEF Die
<1>10. ASSUME NEW s \in Sources, Elapse(w, s)
       PROVE  Sound'
  <2> DEFINE h == [inst[w] EXCEPT !.due = inst[w].due \cup {s}]
  <2>1. DOMAIN h = {"lead", "due", "todo"} /\ h.lead = inst[w].lead
    BY DEF Sound, Processes
  <2>2. inst' = [inst EXCEPT ![w] = h] /\ UNCHANGED <<holder, unguarded>>
    BY <1>10 DEF Elapse
  <2> HIDE DEF h
  <2> QED
    BY <2>1, <2>2, KeepsLead
<1>11. CASE Crash(w)
  BY <1>1, <1>11, KeepsLead DEF Crash
<1>12. CASE EndOrphan(w)
  BY <1>12 DEF EndOrphan, Orphaned, FreedWithSession, Sound, Processes, LockIsHeld
<1>13. CASE LoseSession(w)
  BY <1>13 DEF LoseSession, Sound, Processes, LockIsHeld
<1> QED
  BY <1>2, <1>3, <1>4, <1>5, <1>6, <1>7, <1>8, <1>9, <1>10, <1>11, <1>12, <1>13

LEMMA SoundStep == Sound /\ [Next]_vars => Sound'
<1> SUFFICES ASSUME Sound, [Next]_vars
             PROVE  Sound'
  OBVIOUS
<1>1. ASSUME NEW w \in Instances \cap deployed,
             \/ Start(w) \/ AcquireLock(w) \/ StandBy(w) \/ LockUnavailable(w)
             \/ BeginPass(w) \/ Poll(w) \/ CycleStep(w) \/ Die(w)
             \/ \E s \in Sources : Elapse(w, s)
             \/ Crash(w) \/ EndOrphan(w) \/ LoseSession(w)
      PROVE  Sound'
  BY <1>1, WorkerStep
<1>2. ASSUME NEW r \in Refreshers,
             (\E s \in Refreshable : Refresh(r, s)) \/ RefreshStep(r)
      PROVE  Sound'
  BY <1>2, Stutter DEF Refresh, RefreshStep
<1>3. CASE UNCHANGED vars
  BY <1>3, Stutter DEF vars
<1> QED
  BY <1>1, <1>2, <1>3 DEF Next, Step

(* However many instances there are, and however often they die, are       *)
(* killed or hand over: as long as sessions live and the lock can be asked *)
(* for, whoever polls holds the lock, so that one worker polls (the loop   *)
(* of worker.py).                                                          *)
THEOREM PollerHoldsLock == Spec => []OneWorkerPolls
<1>1. Sound => OneWorkerPolls
  BY DEF Sound, LockIsHeld, OneWorkerPolls, Polls
<1> QED
  BY SoundInit, SoundStep, <1>1, PTL DEF Spec

-----------------------------------------------------------------------------
(* The cycles.  What a runner has in hand is its own record, whose times   *)
(* have been; while nothing is disturbed it is the only one of its source, *)
(* began no earlier than the last success, and knows that success from the *)
(* moment it has read the row.                                             *)
Fields == {"source", "step", "started", "prev", "attempt"}

InCycle(r) == run[r] # Idle /\ run[r].source \in Sources

Clocked ==
    /\ clock \in Nat
    /\ DOMAIN run = Runners
    /\ sync \in [Sources -> [status : {"none", "success", "error"}, success : Nat]]
    /\ \A s \in Sources : sync[s].success <= clock
    /\ \A r \in Runners : run[r] # Idle => DOMAIN run[r] = Fields
    /\ \A r \in Runners : InCycle(r) =>
          /\ run[r].started \in Nat /\ run[r].started <= clock
          /\ run[r].prev \in Nat /\ run[r].prev <= clock

Alone ==
    \A q, r \in Runners : InCycle(q) /\ InCycle(r) /\ run[q].source = run[r].source => q = r

Informed ==
    \A r \in Runners : InCycle(r) =>
        /\ sync[run[r].source].success <= run[r].started
        /\ run[r].step # "read" => run[r].prev = sync[run[r].source].success

CyclesSound == Clocked /\ (~disturbed => Alone /\ Informed)

(* No success is taken back by this step.                                  *)
NoneTakenBack ==
    ~disturbed' => \A s \in Sources : sync'[s].success >= sync[s].success

LEMMA CyclesInit == Init => CyclesSound
BY DEF Init, CycleInit, NoSync, CyclesSound, Clocked, Alone, Informed, InCycle

(* A cycle that goes on with what it knows, or ends, without a save.       *)
LEMMA GoesOn ==
    ASSUME CyclesSound, NEW r \in Runners, NEW c,
           run' = [run EXCEPT ![r] = c],
           UNCHANGED <<sync, clock>>, disturbed => disturbed',
           \/ c = Idle
           \/ /\ run[r] # Idle /\ run[r].step # "read"
              /\ DOMAIN c = Fields
              /\ c.source = run[r].source
              /\ c.started = run[r].started
              /\ c.prev = run[r].prev
    PROVE  CyclesSound' /\ NoneTakenBack
<1>1. /\ DOMAIN run' = Runners
      /\ \A q \in Runners : run'[q] = IF q = r THEN c ELSE run[q]
  BY DEF CyclesSound, Clocked
<1>2. Clocked'
  BY <1>1 DEF CyclesSound, Clocked, InCycle
<1>3. ASSUME ~disturbed'
      PROVE  Alone' /\ Informed'
  <2>1. Alone'
    BY <1>1, <1>3 DEF CyclesSound, Alone, InCycle
  <2>2. Informed'
    BY <1>1, <1>3 DEF CyclesSound, Informed, InCycle
  <2> QED
    BY <2>1, <2>2
<1>4. NoneTakenBack
  BY DEF NoneTakenBack, CyclesSound, Clocked
<1> QED
  BY <1>2, <1>3, <1>4 DEF CyclesSound

LEMMA CycleBeginKeeps ==
    ASSUME CyclesSound, CycleAssumption, NEW r \in Runners, NEW s, BeginCycle(r, s)
    PROVE  CyclesSound' /\ NoneTakenBack
<1> DEFINE c == [source |-> s, step |-> "read", started |-> clock', prev |-> 0, attempt |-> 1]
<1>1. /\ DOMAIN c = Fields /\ c.source = s /\ c.step = "read"
      /\ c.started = clock' /\ c.prev = 0
  BY DEF Fields
<1>2. /\ run[r] = Idle
      /\ run' = [run EXCEPT ![r] = c]
      /\ sync' = sync
      /\ disturbed' = (disturbed \/ \E q \in Runners : run[q] # Idle /\ run[q].source = s)
  BY DEF BeginCycle
<1>3. clock' \in Nat /\ clock <= clock'
  BY DEF BeginCycle, CyclesSound, Clocked
<1> HIDE DEF c
<1>4. /\ DOMAIN run' = Runners
      /\ \A q \in Runners : run'[q] = IF q = r THEN c ELSE run[q]
  BY <1>2 DEF CyclesSound, Clocked
<1>5. Clocked'
  <2>1. \A t \in Sources : sync'[t].success <= clock'
    BY <1>2, <1>3 DEF CyclesSound, Clocked
  <2>2. \A q \in Runners : run'[q] # Idle => DOMAIN run'[q] = Fields
    BY <1>1, <1>4 DEF CyclesSound, Clocked
  <2>3. \A q \in Runners : InCycle(q)' =>
          /\ run'[q].started \in Nat /\ run'[q].started <= clock'
          /\ run'[q].prev \in Nat /\ run'[q].prev <= clock'
    BY <1>1, <1>3, <1>4 DEF CyclesSound, Clocked, InCycle
  <2> QED
    BY <1>2, <1>3, <1>4, <2>1, <2>2, <2>3 DEF CyclesSound, Clocked
<1>6. ASSUME ~disturbed'
      PROVE  Alone' /\ Informed'
  <2>1. ~disturbed /\ \A q \in Runners : run[q] # Idle => run[q].source # s
    BY <1>2, <1>6
  <2>2. Alone'
    BY <1>1, <1>4, <2>1 DEF CyclesSound, Alone, InCycle
  <2>3. \A t \in Sources : sync'[t] = sync[t] /\ sync[t].success <= clock'
    BY <1>2, <1>3 DEF CyclesSound, Clocked
  <2>4. Informed'
    BY <1>1, <1>4, <2>1, <2>3 DEF CyclesSound, Informed, InCycle
  <2> QED
    BY <2>2, <2>4
<1>7. NoneTakenBack
  BY <1>2 DEF NoneTakenBack, CyclesSound, Clocked
<1> QED
  BY <1>5, <1>6, <1>7 DEF CyclesSound

LEMMA ReadKeeps ==
    ASSUME CyclesSound, NEW r \in Runners, ReadSync(r)
    PROVE  CyclesSound' /\ NoneTakenBack
<1> DEFINE c == [run[r] EXCEPT !.prev = sync[run[r].source].success, !.step = "collect"]
<1>1. run[r] # Idle /\ DOMAIN run[r] = Fields
  BY DEF ReadSync, At, CyclesSound, Clocked
<1>2. /\ DOMAIN c = Fields
      /\ c.source = run[r].source
      /\ c.started = run[r].started
      /\ c.prev = sync[run[r].source].success
  BY <1>1 DEF Fields
<1>3. run' = [run EXCEPT ![r] = c]
  BY DEF ReadSync, CyclesSound, Clocked
<1>4. UNCHANGED <<sync, clock, disturbed>>
  BY DEF ReadSync
<1> HIDE DEF c
<1>5. /\ DOMAIN run' = Runners
      /\ \A q \in Runners : run'[q] = IF q = r THEN c ELSE run[q]
  BY <1>3 DEF CyclesSound, Clocked
<1>6. \A s \in Sources : sync[s].success \in Nat
  BY DEF CyclesSound, Clocked
<1>7. Clocked'
  BY <1>1, <1>2, <1>4, <1>5, <1>6 DEF CyclesSound, Clocked, InCycle
<1>8. ASSUME ~disturbed
      PROVE  Alone' /\ Informed'
  <2>1. Alone'
    BY <1>1, <1>2, <1>5, <1>8 DEF CyclesSound, Alone, InCycle
  <2>2. Informed'
    BY <1>1, <1>2, <1>4, <1>5, <1>8 DEF CyclesSound, Informed, InCycle
  <2> QED
    BY <2>1, <2>2
<1>9. NoneTakenBack
  BY <1>4, <1>6 DEF NoneTakenBack
<1> QED
  BY <1>4, <1>7, <1>8, <1>9 DEF CyclesSound

(* A save of a row whose success is that of a cycle: no other cycle of the *)
(* source is under way, or it is disturbed.                                *)
LEMMA CycleSaveKeeps ==
    ASSUME CyclesSound, NEW r \in Runners, NEW row, NEW c,
           run[r] # Idle, run[r].step # "read",
           row.success \in {run[r].started, run[r].prev},
           run[r].source \in Sources =>
               row \in [status : {"none", "success", "error"}, success : Nat],
           sync' = [sync EXCEPT ![run[r].source] = row],
           run' = [run EXCEPT ![r] = c],
           UNCHANGED clock, disturbed => disturbed',
           \/ c = Idle
           \/ /\ disturbed'
              /\ DOMAIN c = Fields
              /\ c.source = run[r].source
              /\ c.started = run[r].started
              /\ c.prev = run[r].prev
    PROVE  CyclesSound' /\ NoneTakenBack
<1> DEFINE s == run[r].source
<1>1. /\ DOMAIN run' = Runners
      /\ \A q \in Runners : run'[q] = IF q = r THEN c ELSE run[q]
  BY DEF CyclesSound, Clocked
<1>2. /\ sync' \in [Sources -> [status : {"none", "success", "error"}, success : Nat]]
      /\ \A t \in Sources : sync'[t] = IF t = s THEN row ELSE sync[t]
  BY DEF CyclesSound, Clocked
<1>3. s \in Sources => /\ run[r].started \in Nat /\ run[r].started <= clock
                       /\ run[r].prev \in Nat /\ run[r].prev <= clock
  BY DEF CyclesSound, Clocked, InCycle
<1>4. \A t \in Sources : sync'[t].success <= clock
  BY <1>2, <1>3 DEF CyclesSound, Clocked
<1>5. Clocked'
  BY <1>1, <1>2, <1>4 DEF CyclesSound, Clocked, InCycle
<1>6. ASSUME ~disturbed'
      PROVE  Alone' /\ Informed'
  <2>1. c = Idle /\ Alone /\ Informed
    BY <1>6 DEF CyclesSound
  <2>2. \A q \in Runners : InCycle(q)' =>
           run'[q] = run[q] /\ InCycle(q) /\ sync'[run[q].source] = sync[run[q].source]
    BY <1>1, <1>2, <2>1 DEF Alone, InCycle
  <2>3. Alone'
    BY <2>1, <2>2 DEF Alone
  <2>4. Informed'
    BY <2>1, <2>2 DEF Informed
  <2> QED
    BY <2>3, <2>4
<1>7. NoneTakenBack
  <2> SUFFICES ASSUME ~disturbed', NEW t \in Sources
               PROVE  sync'[t].success >= sync[t].success
    BY DEF NoneTakenBack
  <2>1. sync[t].success \in Nat
    BY DEF CyclesSound, Clocked
  <2>2. CASE t # s
    BY <1>2, <2>1, <2>2
  <2>3. CASE t = s
    <3>1. sync[s].success <= run[r].started /\ run[r].prev = sync[s].success
      BY <2>3 DEF CyclesSound, Informed, InCycle
    <3> QED
      BY <1>2, <1>3, <2>1, <2>3, <3>1
  <2> QED
    BY <2>2, <2>3
<1> QED
  BY <1>5, <1>6, <1>7 DEF CyclesSound

(* What a failed attempt leads to is the same cycle.                       *)
LEMMA FailureGoesOn ==
    ASSUME NEW c, DOMAIN c = Fields
    PROVE  LET d == AfterFailure(c)
           IN  DOMAIN d = Fields /\ d.source = c.source /\ d.started = c.started /\ d.prev = c.prev
BY DEF AfterFailure, Fields

LEMMA CycleKeeps ==
    ASSUME CyclesSound, NEW r \in Runners,
           Continue(r) \/ EndCycle(r) \/ Escape(r)
    PROVE  CyclesSound' /\ NoneTakenBack
<1>1. run[r] # Idle /\ DOMAIN run[r] = Fields
  BY DEF Continue, EndCycle, Escape, ReadSync, Collect, CollectFails, SuccessRefused,
         SuccessUnsaved, SaveSuccess, SaveError, At, CyclesSound, Clocked
<1> DEFINE d == AfterFailure(run[r])
<1>2. DOMAIN d = Fields /\ d.source = run[r].source /\ d.started = run[r].started
      /\ d.prev = run[r].prev
  BY <1>1, FailureGoesOn
<1> HIDE DEF d
<1>3. CASE ReadSync(r)
  BY <1>3, ReadKeeps
<1>4. CASE Collect(r)
  <2> DEFINE c == [run[r] EXCEPT !.step = "success"]
  <2>1. DOMAIN c = Fields /\ c.source = run[r].source /\ c.started = run[r].started
        /\ c.prev = run[r].prev
    BY <1>1 DEF Fields
  <2>2. run' = [run EXCEPT ![r] = c] /\ run[r].step = "collect"
        /\ UNCHANGED <<sync, clock, disturbed>>
    BY <1>4 DEF Collect, At
  <2> HIDE DEF c
  <2> QED
    BY <1>1, <2>1, <2>2, GoesOn
<1>5. CASE CollectFails(r) \/ SuccessRefused(r)
  <2>1. run' = [run EXCEPT ![r] = d] /\ run[r].step # "read"
        /\ UNCHANGED <<sync, clock, disturbed>>
    BY <1>5 DEF CollectFails, SuccessRefused, At, d
  <2> QED
    BY <1>1, <1>2, <2>1, GoesOn
<1>6. run[r].source \in Sources => run[r].started \in Nat /\ run[r].prev \in Nat
  BY <1>1 DEF CyclesSound, Clocked, InCycle
<1>7. /\ SuccessRow(run[r]).success = run[r].started
      /\ ErrorRow(run[r]).success = run[r].prev
      /\ run[r].source \in Sources =>
            {SuccessRow(run[r]), ErrorRow(run[r])}
               \subseteq [status : {"none", "success", "error"}, success : Nat]
  BY <1>6 DEF SuccessRow, ErrorRow
<1>8. ASSUME NEW applied \in BOOLEAN, SuccessUnsaved(r, applied)
      PROVE  CyclesSound' /\ NoneTakenBack
  <2>1. /\ run' = [run EXCEPT ![r] = d] /\ run[r].step # "read"
        /\ clock' = clock /\ disturbed' = (disturbed \/ applied)
        /\ sync' = IF applied THEN [sync EXCEPT ![run[r].source] = SuccessRow(run[r])] ELSE sync
    BY <1>8 DEF SuccessUnsaved, At, d
  <2>2. CASE ~applied
    BY <1>1, <1>2, <2>1, <2>2, GoesOn
  <2>3. CASE applied
    BY <1>1, <1>2, <1>7, <2>1, <2>3, CycleSaveKeeps
  <2> QED
    BY <2>2, <2>3
<1>9. CASE SaveSuccess(r)
  <2>1. /\ run' = [run EXCEPT ![r] = Idle] /\ run[r].step # "read"
        /\ UNCHANGED <<clock, disturbed>>
        /\ sync' = [sync EXCEPT ![run[r].source] = SuccessRow(run[r])]
    BY <1>9 DEF SaveSuccess, At
  <2> QED
    BY <1>1, <1>7, <2>1, CycleSaveKeeps
<1>10. CASE SaveError(r)
  <2>1. /\ run' = [run EXCEPT ![r] = Idle] /\ run[r].step # "read"
        /\ UNCHANGED <<clock, disturbed>>
        /\ sync' = [sync EXCEPT ![run[r].source] = ErrorRow(run[r])]
    BY <1>10 DEF SaveError, At
  <2> QED
    BY <1>1, <1>7, <2>1, CycleSaveKeeps
<1>11. CASE Escape(r)
  BY <1>11, GoesOn DEF Escape
<1> QED
  BY <1>3, <1>4, <1>5, <1>8, <1>9, <1>10, <1>11 DEF Continue, EndCycle

LEMMA CyclesStep == CyclesSound /\ [Next]_vars => CyclesSound' /\ NoneTakenBack
<1> SUFFICES ASSUME CyclesSound, [Next]_vars
             PROVE  CyclesSound' /\ NoneTakenBack
  OBVIOUS
<1>1. Instances \subseteq Runners /\ Refreshers \subseteq Runners
  BY WorkerAssumption
<1>2. ASSUME UNCHANGED <<sync, run, clock>>, disturbed => disturbed'
      PROVE  CyclesSound' /\ NoneTakenBack
  BY <1>2 DEF CyclesSound, Clocked, Alone, Informed, InCycle, NoneTakenBack
<1>3. ASSUME NEW w \in Instances,
             \/ Start(w) \/ AcquireLock(w) \/ StandBy(w) \/ LockUnavailable(w)
             \/ BeginPass(w) \/ EndOrphan(w) \/ LoseSession(w)
             \/ \E s \in Sources : Elapse(w, s)
      PROVE  CyclesSound' /\ NoneTakenBack
  BY <1>2, <1>3 DEF Start, AcquireLock, StandBy, LockUnavailable, BeginPass, EndOrphan,
                    LoseSession, Elapse, cycleVars, vars
<1>4. ASSUME NEW w \in Instances, Poll(w)
      PROVE  CyclesSound' /\ NoneTakenBack
  BY <1>1, <1>4, CycleBeginKeeps, CycleAssumption DEF Poll
<1>5. ASSUME NEW w \in Instances, CycleStep(w) \/ Die(w)
      PROVE  CyclesSound' /\ NoneTakenBack
  BY <1>1, <1>5, CycleKeeps DEF CycleStep, Die
<1>6. ASSUME NEW w \in Instances, Crash(w)
      PROVE  CyclesSound' /\ NoneTakenBack
  BY <1>1, <1>6, GoesOn DEF Crash
<1>7. ASSUME NEW r \in Refreshers, NEW s \in Refreshable, Refresh(r, s)
      PROVE  CyclesSound' /\ NoneTakenBack
  BY <1>1, <1>7, CycleBeginKeeps, CycleAssumption DEF Refresh
<1>8. ASSUME NEW r \in Refreshers, RefreshStep(r)
      PROVE  CyclesSound' /\ NoneTakenBack
  BY <1>1, <1>8, CycleKeeps DEF RefreshStep
<1>9. CASE UNCHANGED vars
  BY <1>2, <1>9 DEF vars, cycleVars
<1> QED
  BY <1>3, <1>4, <1>5, <1>6, <1>7, <1>8, <1>9 DEF Next, Step

(* While cycles of one source do not overlap and no save is applied and    *)
(* reported failed, the last success of a source is never taken back, by   *)
(* any number of instances, failures, kills and refreshes (run_cycle).     *)
THEOREM SuccessesStay == Spec => SuccessIsKept
<1>1. CyclesSound /\ [Next]_vars =>
         [~disturbed' => \A s \in Sources : sync'[s].success >= sync[s].success]_sync
  BY CyclesStep DEF NoneTakenBack
<1>2. CyclesSound /\ [Next]_vars => CyclesSound'
  BY CyclesStep
<1> QED
  BY CyclesInit, <1>1, <1>2, PTL DEF Spec, SuccessIsKept

(***************************************************************************)
(* ScanIngest: the invariant                                               *)
(***************************************************************************)

FlowRows == [source : {"pii_scan", "ai_flow", "manual"}, by : Pushes \cup {Officer},
             status : {"pending", "confirmed"}, seenBy : Pushes \cup {Officer, None}]

Vals == Pushes \cup {None} \cup FlowRows

(* A row says confirmed only of what an officer saw or typed, and one that *)
(* was added by hand says so.                                              *)
GoodRow(k, v) ==
    v # None =>
        /\ v \in FlowRows
        /\ v.status = "confirmed" => v.seenBy = v.by \/ v.by = Officer
        /\ k \in ManualRows => v.source = "manual"

(* What a cell may hold.                                                   *)
Fits(c, v) ==
    /\ c[1] = "flow" => GoodRow(c[2], v)
    /\ c[1] \in {"alert", "event", "evidence", "sync"} => v \in Pushes \cup {None}

(* What handlers write: no alert, evidence or sync is ever deleted.        *)
ScanWrites ==
    {x \in [cell : Cells, val : Vals, guarded : BOOLEAN] :
        /\ Fits(x.cell, x.val)
        /\ x.cell[1] \in {"alert", "evidence", "sync"} => x.val # None}

Handlers == [push : Pushes \cup {None}, todo : Seq(ScanWrites), put : BOOLEAN,
             lost : BOOLEAN, automatic : BOOLEAN, runs : SUBSET Runs, alone : BOOLEAN]

(* What is left of a handler's list, as a set.                             *)
Left(w) == ToSet(op[w].todo)

Concerns(x, r) ==
    x.cell = <<"event", r>> \/ \E c \in Controls : x.cell = <<"evidence", <<r, c>>>>

Given(writes, c) == tab[c] # None \/ \E x \in writes : x.cell = c

(* What a push has counted is stored, or is still to be written.           *)
Promised(writes, p) ==
    /\ \A f \in Found[p] : Given(writes, <<"alert", f>>)
    /\ KindOf[p] = "review" =>
          /\ Given(writes, <<"event", RunOf[p]>>) \/ RunOf[p] \in gone
          /\ \A c \in Controls : Given(writes, <<"evidence", <<RunOf[p], c>>>>)

(* If nothing fails or comes between, the cell will hold v.                *)
Ends(writes, c, v) ==
    /\ \A x \in writes : x.cell = c => x.val = v
    /\ tab[c] = v \/ \E x \in writes : x.cell = c

Settles(writes, r) ==
    \E v \in Pushes \cup {None} :
        /\ Ends(writes, <<"event", r>>, v)
        /\ v # None => \A c \in Controls : Ends(writes, <<"evidence", <<r, c>>>>, v)

HandsOff(writes) == \A x \in writes, k \in ManualRows : x.cell # <<"flow", k>>

Answered == {"review", "report"}

(* The types of tables, dictionaries and handlers.                         *)
ScanTypes ==
    /\ tab \in [Cells -> Vals] /\ \A c \in Cells : Fits(c, tab[c])
    /\ mem \in [Cached -> Vals] /\ \A c \in Cached : Fits(c, mem[c])
    /\ op \in [Workers -> Handlers \cup {None}]

(* What an automatic handler has left touches no row added by hand.        *)
ManualsApart == \A w \in Workers : Busy(w) /\ op[w].automatic => HandsOff(Left(w))

(* What a push was or may still be promised is stored or to be written.    *)
PromisesHold ==
    /\ kept \subseteq {p \in Pushes : KindOf[p] \in Answered}
    /\ \A p \in kept : Promised({}, p)
    /\ \A w \in Workers : Busy(w) /\ ~op[w].lost =>
          \A p \in Pushes : p = op[w].push /\ KindOf[p] \in Answered => Promised(Left(w), p)

(* A run whose event or evidence a handler has still to write is torn.     *)
RunsReserved ==
    \A w \in Workers : Busy(w) =>
        /\ op[w].runs \subseteq torn
        /\ \A x \in Left(w), r \in Runs : Concerns(x, r) => r \in op[w].runs

(* A handler that is alone ends with evidence and event of its runs equal. *)
AloneSettles ==
    \A w \in Workers : Busy(w) /\ op[w].alone =>
        /\ \A v \in Workers : v # w => ~Busy(v)
        /\ ~op[w].lost => \A r \in op[w].runs : Settles(Left(w), r)

ScanSound ==
    /\ ScanTypes /\ ManualsApart /\ PromisesHold /\ RunsReserved /\ AloneSettles
    /\ EvidenceMatchesScan

(***************************************************************************)
(* Lists of writes as sets                                                 *)
(***************************************************************************)

(* The elements of a finite set, each once.                                *)
LEMMA SeqOfSet ==
    ASSUME NEW S, IsFiniteSet(S)
    PROVE  /\ Cardinality(S) \in Nat
           /\ SetToSeq(S) \in [1..Cardinality(S) -> S]
           /\ Len(SetToSeq(S)) = Cardinality(S)
           /\ \A k \in S : \E i \in 1..Cardinality(S) : SetToSeq(S)[i] = k
<1> DEFINE n == Cardinality(S)
<1>1. n \in Nat /\ ExistsBijection(1..n, S)
  BY FS_CardinalityType
<1>2. IsFiniteSet(1..n) /\ Cardinality(1..n) = n
  BY <1>1, FS_Interval
<1>3. \E f \in [1..n -> S] : IsInjective(f)
  BY <1>1 DEF ExistsBijection, Bijection, Injection, IsInjective
<1>4. SetToSeq(S) \in [1..n -> S] /\ IsInjective(SetToSeq(S))
  BY <1>3 DEF SetToSeq
<1> HIDE DEF SetToSeq, n
<1>5. SetToSeq(S) \in Injection(1..n, S)
  BY <1>4 DEF Injection, IsInjective
<1>6. SetToSeq(S) \in Surjection(1..n, S)
  BY <1>2, <1>5, FS_Injection DEF n
<1>7. \A k \in S : \E i \in 1..n : SetToSeq(S)[i] = k
  BY <1>6 DEF Surjection
<1>8. Len(SetToSeq(S)) = n
  BY <1>1, <1>4
<1> QED
  BY <1>1, <1>4, <1>7, <1>8 DEF n

(* A list of its own elements.                                             *)
IsList(t) == t \in Seq(ToSet(t))

LEMMA ListOver ==
    ASSUME NEW S, NEW t \in Seq(S)
    PROVE  IsList(t) /\ ToSet(t) \subseteq S
BY DEF IsList, ToSet

LEMMA ListIn ==
    ASSUME NEW S, NEW t, IsList(t), ToSet(t) \subseteq S
    PROVE  t \in Seq(S)
BY DEF IsList

LEMMA EmptyList == IsList(<<>>) /\ ToSet(<<>>) = {}
BY DEF IsList, ToSet

LEMMA OneList ==
    ASSUME NEW x
    PROVE  IsList(<<x>>) /\ ToSet(<<x>>) = {x}
<1>1. <<x>> \in Seq({x}) /\ Len(<<x>>) = 1 /\ <<x>>[1] = x
  OBVIOUS
<1> QED
  BY <1>1 DEF IsList, ToSet

LEMMA JoinedList ==
    ASSUME NEW a, NEW b, IsList(a), IsList(b)
    PROVE  IsList(a \o b) /\ ToSet(a \o b) = ToSet(a) \cup ToSet(b)
<1> DEFINE S == ToSet(a) \cup ToSet(b)
<1>1. a \in Seq(S) /\ b \in Seq(S)
  BY DEF IsList
<1>2. /\ ToSet(a) = {a[i] : i \in 1..Len(a)} /\ Len(a) \in Nat
      /\ ToSet(b) = {b[i] : i \in 1..Len(b)} /\ Len(b) \in Nat
  BY DEF IsList, ToSet
<1> HIDE DEF S
<1>3. /\ a \o b \in Seq(S) /\ Len(a \o b) = Len(a) + Len(b)
      /\ \A i \in 1..(Len(a) + Len(b)) :
            (a \o b)[i] = IF i <= Len(a) THEN a[i] ELSE b[i - Len(a)]
  BY <1>1, ConcatProperties
<1>4. ToSet(a \o b) = {(a \o b)[i] : i \in 1..(Len(a) + Len(b))}
  BY <1>3 DEF ToSet
<1>5. ToSet(a \o b) \subseteq ToSet(a) \cup ToSet(b)
  <2> SUFFICES ASSUME NEW i \in 1..(Len(a) + Len(b))
               PROVE  (a \o b)[i] \in ToSet(a) \cup ToSet(b)
    BY <1>4
  <2>1. CASE i <= Len(a)
    BY <1>2, <1>3, <2>1
  <2>2. CASE ~(i <= Len(a))
    <3>1. i - Len(a) \in 1..Len(b)
      BY <1>2, <2>2
    <3> QED
      BY <1>2, <1>3, <2>2, <3>1
  <2> QED
    BY <2>1, <2>2
<1>6. ToSet(a) \subseteq ToSet(a \o b)
  <2> SUFFICES ASSUME NEW i \in 1..Len(a) PROVE a[i] \in ToSet(a \o b)
    BY <1>2
  <2>1. i \in 1..(Len(a) + Len(b)) /\ i <= Len(a)
    BY <1>2
  <2>2. (a \o b)[i] = a[i]
    BY <1>3, <2>1
  <2> QED
    BY <1>4, <2>1, <2>2
<1>7. ToSet(b) \subseteq ToSet(a \o b)
  <2> SUFFICES ASSUME NEW i \in 1..Len(b) PROVE b[i] \in ToSet(a \o b)
    BY <1>2
  <2>1. /\ i + Len(a) \in 1..(Len(a) + Len(b)) /\ ~(i + Len(a) <= Len(a))
        /\ (i + Len(a)) - Len(a) = i
    BY <1>2
  <2>2. (a \o b)[i + Len(a)] = b[i]
    BY <1>3, <2>1
  <2> QED
    BY <1>4, <2>1, <2>2
<1> QED
  BY <1>3, <1>5, <1>6, <1>7 DEF IsList, S

LEMMA FiveJoined ==
    ASSUME NEW a, NEW b, NEW c, NEW d, NEW e,
           IsList(a), IsList(b), IsList(c), IsList(d), IsList(e)
    PROVE  /\ IsList(a \o b \o c \o d \o e)
           /\ ToSet(a \o b \o c \o d \o e)
              = ToSet(a) \cup ToSet(b) \cup ToSet(c) \cup ToSet(d) \cup ToSet(e)
<1>1. IsList(a \o b) /\ ToSet(a \o b) = ToSet(a) \cup ToSet(b)
  BY JoinedList
<1>2. /\ IsList(a \o b \o c)
      /\ ToSet(a \o b \o c) = ToSet(a) \cup ToSet(b) \cup ToSet(c)
  BY <1>1, JoinedList
<1>3. /\ IsList(a \o b \o c \o d)
      /\ ToSet(a \o b \o c \o d) = ToSet(a) \cup ToSet(b) \cup ToSet(c) \cup ToSet(d)
  BY <1>2, JoinedList
<1> QED
  BY <1>3, JoinedList

LEMMA HeadAndTail ==
    ASSUME NEW S, NEW t \in Seq(S), t # <<>>
    PROVE  /\ Head(t) \in ToSet(t) /\ Head(t) \in S
           /\ Tail(t) \in Seq(S)
           /\ ToSet(t) = {Head(t)} \cup ToSet(Tail(t))
<1>1. /\ Len(t) \in Nat /\ Len(t) >= 1 /\ Head(t) = t[1]
      /\ Tail(t) \in Seq(S) /\ Len(Tail(t)) = Len(t) - 1
      /\ \A i \in 1..(Len(t) - 1) : Tail(t)[i] = t[i + 1]
  BY HeadTailProperties, EmptySeq
<1>2. ToSet(t) = {t[i] : i \in 1..Len(t)}
  BY <1>1 DEF ToSet
<1>3. ToSet(Tail(t)) = {Tail(t)[i] : i \in 1..(Len(t) - 1)}
  <2>1. DOMAIN Tail(t) = 1..(Len(t) - 1)
    BY <1>1
  <2> QED
    BY <2>1 DEF ToSet
<1>4. ToSet(t) \subseteq {Head(t)} \cup ToSet(Tail(t))
  <2> SUFFICES ASSUME NEW i \in 1..Len(t), i # 1
               PROVE  t[i] \in ToSet(Tail(t))
    BY <1>1, <1>2
  <2>1. i - 1 \in 1..(Len(t) - 1) /\ (i - 1) + 1 = i
    BY <1>1
  <2>2. Tail(t)[i - 1] = t[i]
    BY <1>1, <2>1
  <2> QED
    BY <1>3, <2>1, <2>2
<1>5. ToSet(Tail(t)) \subseteq ToSet(t)
  <2> SUFFICES ASSUME NEW i \in 1..(Len(t) - 1) PROVE Tail(t)[i] \in ToSet(t)
    BY <1>3
  <2>1. i + 1 \in 1..Len(t) /\ Tail(t)[i] = t[i + 1]
    BY <1>1
  <2> QED
    BY <1>2, <2>1
<1>6. 1 \in 1..Len(t) /\ t[1] \in S
  BY <1>1
<1> QED
  BY <1>1, <1>2, <1>4, <1>5, <1>6

(* A list that holds the write of each key, and no other.                  *)
IsListOf(t, table, vals, guarded) ==
    /\ IsList(t)
    /\ \A k \in DOMAIN vals : Write(table, k, vals[k], guarded) \in ToSet(t)
    /\ \A x \in ToSet(t) : \E k \in DOMAIN vals : x = Write(table, k, vals[k], guarded)

LEMMA WritesAre ==
    ASSUME NEW table, NEW vals, IsFiniteSet(DOMAIN vals), NEW guarded
    PROVE  IsListOf(Writes(table, vals, guarded), table, vals, guarded)
<1> DEFINE S == DOMAIN vals
           list == SetToSeq(S)
           n == Cardinality(S)
           t == [i \in 1..n |-> Write(table, list[i], vals[list[i]], guarded)]
           W == {Write(table, k, vals[k], guarded) : k \in S}
<1>1. /\ n \in Nat /\ list \in [1..n -> S] /\ Len(list) = n
      /\ \A k \in S : \E i \in 1..n : list[i] = k
  BY SeqOfSet
<1>2. Writes(table, vals, guarded) = t
  BY <1>1 DEF Writes
<1> HIDE DEF list, n, S
<1>3. \A i \in 1..n : t[i] \in W
  BY <1>1
<1>4. t \in Seq(W) /\ Len(t) = n
  BY <1>1, <1>3
<1>5. \A k \in S : \E i \in 1..n : t[i] = Write(table, k, vals[k], guarded)
  BY <1>1
<1>6. ToSet(t) = {t[i] : i \in 1..n}
  BY <1>4 DEF ToSet
<1> HIDE DEF t
<1>7. ToSet(t) = W
  BY <1>3, <1>5, <1>6
<1> HIDE DEF W
<1>8. IsList(t)
  BY <1>4, <1>7 DEF IsList
<1>9. /\ \A k \in S : Write(table, k, vals[k], guarded) \in ToSet(t)
      /\ \A x \in ToSet(t) : \E k \in S : x = Write(table, k, vals[k], guarded)
  BY <1>7 DEF W
<1>10. IsListOf(t, table, vals, guarded)
  BY <1>8, <1>9 DEF IsListOf, S
<1> QED
  BY <1>2, <1>10

(* What tells the writes of a run from the others.                         *)
LEMMA ConcernsTables ==
    ASSUME NEW x, NEW r, Concerns(x, r)
    PROVE  x.cell[1] \in {"event", "evidence"} /\ x.cell[2] \in {r} \cup ({r} \X Controls)
BY DEF Concerns

(***************************************************************************)
(* The sets of keys, and the writes of each table                          *)
(***************************************************************************)

LEMMA ItemsFinite ==
    ASSUME NEW kind
    PROVE  IsFiniteSet(Items(kind))
<1> DEFINE Q == {q \in Pushes : KindOf[q] = kind}
           T == {Found[p] : p \in Q}
           f == [p \in Q |-> Found[p]]
<1>1. IsFiniteSet(Q)
  BY FiniteAssumption, FS_Subset
<1>2. f \in Surjection(Q, T)
  BY DEF Surjection
<1> HIDE DEF f
<1>3. IsFiniteSet(T)
  BY <1>1, <1>2, FS_Surjection
<1>4. \A t \in T : IsFiniteSet(t)
  BY FiniteAssumption
<1> HIDE DEF T
<1>5. IsFiniteSet(UNION T)
  BY <1>3, <1>4, FS_UNION
<1> QED
  BY <1>5 DEF Items, T

LEMMA KeysFinite ==
    IsFiniteSet(Runs) /\ IsFiniteSet(FlowKeys) /\ IsFiniteSet(Controls)
<1>1. IsFiniteSet(Runs)
  <2> DEFINE Q == {q \in Pushes : KindOf[q] = "review"}
             f == [p \in Q |-> RunOf[p]]
  <2>1. IsFiniteSet(Q)
    BY FiniteAssumption, FS_Subset
  <2>2. f \in Surjection(Q, Runs)
    BY DEF Surjection, Runs
  <2> HIDE DEF f
  <2> QED
    BY <2>1, <2>2, FS_Surjection
<1>2. IsFiniteSet(FlowKeys)
  BY ItemsFinite, FiniteAssumption, FS_Union DEF FlowKeys
<1> QED
  BY <1>1, <1>2, FiniteAssumption

LEMMA PairsFinite ==
    ASSUME NEW S \in SUBSET Runs
    PROVE  IsFiniteSet(S \X Controls)
<1>1. IsFiniteSet(S)
  BY KeysFinite, FS_Subset
<1> QED
  BY <1>1, KeysFinite, FS_Product

LEMMA FoundIsItems ==
    ASSUME NEW p \in Pushes
    PROVE  /\ Found[p] \subseteq Items(KindOf[p])
           /\ KindOf[p] = "review" => RunOf[p] \in Runs
           /\ IsFiniteSet(Found[p])
BY FiniteAssumption DEF Items, Runs

LEMMA GoodWrites ==
    ASSUME NEW g \in BOOLEAN
    PROVE  /\ \A f \in Items("review") \cup Items("report"), p \in Pushes :
                 Write("alert", f, p, g) \in ScanWrites
           /\ \A p \in Scans : Write("sync", SourceOf[p], p, g) \in ScanWrites
           /\ \A e \in Runs \cup Items("envelope"), v \in Pushes \cup {None} :
                 Write("event", e, v, g) \in ScanWrites
           /\ \A rc \in Runs \X Controls, p \in Pushes :
                 Write("evidence", rc, p, g) \in ScanWrites
           /\ \A k \in FlowKeys : \A v :
                 GoodRow(k, v) => Write("flow", k, v, g) \in ScanWrites
           /\ \A p \in Pushes :
                 Write("setting", "privacy_flow_meta", p, g) \in ScanWrites
<1>1. ASSUME NEW f \in Items("review") \cup Items("report"), NEW p \in Pushes
      PROVE  Write("alert", f, p, g) \in ScanWrites
  <2>1. <<"alert", f>> \in Cells /\ Fits(<<"alert", f>>, p) /\ p \in Vals /\ p # None
    BY PushAssumption DEF Cells, Fits, Vals
  <2> QED
    BY <2>1 DEF Write, ScanWrites
<1>2. ASSUME NEW p \in Scans
      PROVE  Write("sync", SourceOf[p], p, g) \in ScanWrites
  <2>1. /\ <<"sync", SourceOf[p]>> \in Cells /\ Fits(<<"sync", SourceOf[p]>>, p)
        /\ p \in Vals /\ p # None
    BY PushAssumption DEF Cells, Fits, Vals, Scans
  <2> QED
    BY <2>1 DEF Write, ScanWrites
<1>3. ASSUME NEW e \in Runs \cup Items("envelope"), NEW v \in Pushes \cup {None}
      PROVE  Write("event", e, v, g) \in ScanWrites
  <2>1. <<"event", e>> \in Cells /\ Fits(<<"event", e>>, v) /\ v \in Vals
    BY DEF Cells, Fits, Vals
  <2> QED
    BY <2>1 DEF Write, ScanWrites
<1>4. ASSUME NEW rc \in Runs \X Controls, NEW p \in Pushes
      PROVE  Write("evidence", rc, p, g) \in ScanWrites
  <2>1. <<"evidence", rc>> \in Cells
    BY DEF Cells, Cached
  <2>2. Fits(<<"evidence", rc>>, p) /\ p \in Vals /\ p # None
    BY PushAssumption DEF Fits, Vals
  <2> QED
    BY <2>1, <2>2 DEF Write, ScanWrites
<1>5. ASSUME NEW k \in FlowKeys, NEW v, GoodRow(k, v)
      PROVE  Write("flow", k, v, g) \in ScanWrites
  <2>1. <<"flow", k>> \in Cells
    BY DEF Cells, Cached
  <2>2. Fits(<<"flow", k>>, v) /\ v \in Vals
    BY <1>5 DEF Fits, Vals, GoodRow
  <2> QED
    BY <2>1, <2>2 DEF Write, ScanWrites
<1>6. ASSUME NEW p \in Pushes
      PROVE  Write("setting", "privacy_flow_meta", p, g) \in ScanWrites
  <2>1. <<"setting", "privacy_flow_meta">> \in Cells
    BY DEF Cells, Cached
  <2>2. Fits(<<"setting", "privacy_flow_meta">>, p) /\ p \in Vals
    BY DEF Fits, Vals
  <2> QED
    BY <2>1, <2>2 DEF Write, ScanWrites
<1> QED
  BY <1>1, <1>2, <1>3, <1>4, <1>5, <1>6

LEMMA RowsAreGood ==
    ASSUME NEW k, NEW p \in Pushes
    PROVE  /\ GoodRow(k, None)
           /\ k \notin ManualRows =>
                 /\ \A old : GoodRow(k, SeedRow(old, p))
                 /\ GoodRow(k, Row("ai_flow", p))
           /\ GoodRow(k, Row("manual", Officer))
BY DEF GoodRow, SeedRow, Row, FlowRows, Officer

(***************************************************************************)
(* A handler begins                                                        *)
(***************************************************************************)

(* What a list of writes has to be when its handler begins.                *)
Prepared(p, t, automatic) ==
    /\ t \in Seq(ScanWrites)
    /\ automatic => HandsOff(ToSet(t))
    /\ p \in Pushes /\ KindOf[p] \in Answered => Promised(ToSet(t), p)
    /\ \A r \in RunsOf(t) : Settles(ToSet(t), r)

LEMMA RunsOfIs ==
    ASSUME NEW t \in Seq(ScanWrites)
    PROVE  RunsOf(t) = {r \in Runs : \E x \in ToSet(t) : Concerns(x, r)}
<1>1. ToSet(t) = {t[i] : i \in 1..Len(t)}
  BY DEF ToSet
<1> QED
  BY <1>1 DEF RunsOf, Concerns

LEMMA BeginKeeps ==
    ASSUME ScanSound, NEW w \in Workers, NEW h \in Handlers, Begin(w, h),
           UNCHANGED <<tab, kept, gone>>,
           mem' \in [Cached -> Vals], \A c \in Cached : Fits(c, mem'[c]),
           h.lost = FALSE, h.runs = RunsOf(h.todo), h.alone => \A v \in Workers : ~Busy(v),
           Prepared(h.push, h.todo, h.automatic)
    PROVE  ScanSound'
<1> USE DEF ScanSound
<1>1. /\ op' = [v \in Workers |-> IF v = w THEN h
                    ELSE IF Busy(v) THEN [op[v] EXCEPT !.alone = FALSE] ELSE None]
      /\ torn' = torn \cup h.runs
      /\ ~Busy(w)
  BY DEF Begin
<1>2. op'[w] = h
  BY <1>1
<1>3. ASSUME NEW v \in Workers, v # w, Busy(v)'
      PROVE  /\ Busy(v)
             /\ op'[v] = [op[v] EXCEPT !.alone = FALSE]
             /\ op'[v].push = op[v].push /\ op'[v].todo = op[v].todo
             /\ op'[v].lost = op[v].lost /\ op'[v].automatic = op[v].automatic
             /\ op'[v].runs = op[v].runs /\ op'[v].alone = FALSE
             /\ op'[v] \in Handlers
  <2>1. Busy(v) /\ op'[v] = [op[v] EXCEPT !.alone = FALSE]
    BY <1>1, <1>3 DEF Busy
  <2>2. op[v] \in Handlers
    BY <2>1 DEF ScanTypes, Busy
  <2> QED
    BY <2>1, <2>2 DEF Handlers
<1>4. ASSUME NEW v \in Workers, v # w, Busy(v)'
      PROVE  Left(v)' = Left(v)
  <2>1. op'[v].todo = op[v].todo
    BY <1>3, <1>4
  <2> QED
    BY <2>1 DEF Left, ToSet
<1>5. Left(w)' = ToSet(h.todo)
  BY <1>2 DEF Left, ToSet
<1>6. ScanTypes'
  <2>1. \A v \in Workers : op'[v] \in Handlers \cup {None}
    BY <1>2, <1>3 DEF Busy
  <2>2. op' \in [Workers -> Handlers \cup {None}]
    BY <1>1, <2>1
  <2> QED
    BY <2>2 DEF ScanTypes, Fits, GoodRow
<1>7. ManualsApart'
  <2> SUFFICES ASSUME NEW v \in Workers, Busy(v)', op'[v].automatic
               PROVE  HandsOff(Left(v))'
    BY DEF ManualsApart
  <2>1. CASE v = w
    <3>1. HandsOff(ToSet(h.todo))
      BY <1>2, <2>1 DEF Prepared
    <3> QED
      BY <1>5, <2>1, <3>1 DEF HandsOff
  <2>2. CASE v # w
    BY <1>3, <1>4, <2>2 DEF HandsOff, ManualsApart
  <2> QED
    BY <2>1, <2>2
<1>8. PromisesHold'
  <2>1. \A p \in kept' : Promised({}, p)'
    BY DEF PromisesHold, Promised, Given
  <2>2. ASSUME NEW v \in Workers, Busy(v)', ~op'[v].lost,
               NEW p \in Pushes, p = op'[v].push, KindOf[p] \in Answered
        PROVE  Promised(Left(v), p)'
    <3>1. CASE v = w
      <4>1. Promised(ToSet(h.todo), p)
        BY <1>2, <2>2, <3>1 DEF Prepared
      <4> QED
        BY <1>5, <3>1, <4>1 DEF Promised, Given
    <3>2. CASE v # w
      <4>1. Promised(Left(v), p)
        BY <1>3, <2>2, <3>2 DEF PromisesHold
      <4> QED
        BY <1>4, <2>2, <3>2, <4>1 DEF Promised, Given
    <3> QED
      BY <3>1, <3>2
  <2> QED
    BY <2>1, <2>2 DEF PromisesHold
<1>9. RunsReserved'
  <2> SUFFICES ASSUME NEW v \in Workers, Busy(v)'
               PROVE  /\ op'[v].runs \subseteq torn'
                      /\ \A x \in Left(v)', r \in Runs : Concerns(x, r) => r \in op'[v].runs
    BY DEF RunsReserved, Concerns
  <2>1. CASE v = w
    BY <1>1, <1>2, <1>5, <2>1, RunsOfIs DEF Prepared
  <2>2. CASE v # w
    BY <1>1, <1>3, <1>4, <2>2 DEF RunsReserved
  <2> QED
    BY <2>1, <2>2
<1>10. AloneSettles'
  <2> SUFFICES ASSUME NEW v \in Workers, Busy(v)', op'[v].alone
               PROVE  /\ \A u \in Workers : u # v => ~Busy(u)'
                      /\ ~op'[v].lost => \A r \in op'[v].runs : Settles(Left(v), r)'
    BY DEF AloneSettles
  <2>1. v = w
    BY <1>3
  <2>2. \A u \in Workers : ~Busy(u)
    BY <1>2, <2>1
  <2>3. \A u \in Workers : u # v => ~Busy(u)'
    BY <1>3, <2>1, <2>2
  <2>4. \A r \in h.runs : Settles(ToSet(h.todo), r)
    BY DEF Prepared
  <2>5. \A r \in h.runs : Settles(Left(v), r)'
    <3> SUFFICES ASSUME NEW r \in h.runs PROVE Settles(Left(v), r)'
      OBVIOUS
    <3>1. PICK z \in Pushes \cup {None} :
             /\ Ends(ToSet(h.todo), <<"event", r>>, z)
             /\ z # None =>
                  \A c \in Controls : Ends(ToSet(h.todo), <<"evidence", <<r, c>>>>, z)
      BY <2>4 DEF Settles
    <3>2. \A c : Ends(ToSet(h.todo), c, z) => Ends(Left(v), c, z)'
      BY <1>5, <2>1 DEF Ends
    <3>3. /\ Ends(Left(v), <<"event", r>>, z)'
          /\ z # None => \A c \in Controls : Ends(Left(v), <<"evidence", <<r, c>>>>, z)'
      BY <3>1, <3>2
    <3> QED
      BY <3>3 DEF Settles
  <2> QED
    BY <1>2, <2>1, <2>3, <2>5
<1>11. EvidenceMatchesScan'
  BY <1>1 DEF EvidenceMatchesScan
<1> QED
  BY <1>6, <1>7, <1>8, <1>9, <1>10, <1>11

LEMMA StartKeeps ==
    ASSUME ScanSound, NEW w \in Workers, NEW p \in Pushes \cup {None}, NEW t,
           NEW a \in BOOLEAN, StartHandler(w, p, t, a), Prepared(p, t, a)
    PROVE  ScanSound'
<1> DEFINE h == Handler(p, t, a)
<1>1. /\ h.push = p /\ h.todo = t /\ h.lost = FALSE /\ h.automatic = a
      /\ h.runs = RunsOf(t) /\ (h.alone => \A v \in Workers : ~Busy(v))
  BY DEF Handler
<1>2. RunsOf(t) \subseteq Runs
  BY DEF RunsOf
<1>3. h \in Handlers
  BY <1>2 DEF Handler, Handlers, Prepared
<1>4. Begin(w, h) /\ UNCHANGED <<tab, mem, kept, gone>>
  BY DEF StartHandler
<1>5. mem' \in [Cached -> Vals] /\ \A c \in Cached : Fits(c, mem'[c])
  BY <1>4 DEF ScanSound, ScanTypes
<1> HIDE DEF h
<1> QED
  BY <1>1, <1>3, <1>4, <1>5, BeginKeeps

(* A list that concerns no run and is not the answer to a push.            *)
LEMMA PlainPrepared ==
    ASSUME NEW p \in Pushes \cup {None}, NEW t, NEW a, IsList(t),
           ToSet(t) \subseteq ScanWrites, a => HandsOff(ToSet(t)),
           p = None \/ KindOf[p] \notin Answered,
           \A x \in ToSet(t), r \in Runs : ~Concerns(x, r)
    PROVE  Prepared(p, t, a)
<1>1. t \in Seq(ScanWrites)
  BY ListIn
<1>2. RunsOf(t) = {}
  BY <1>1, RunsOfIs
<1> QED
  BY <1>1, <1>2, PushAssumption DEF Prepared

(* The table of a write tells what it cannot concern.                      *)
LEMMA ByTable ==
    ASSUME NEW x
    PROVE  /\ x.cell[1] \in {"alert", "sync", "flow", "setting"} => \A r : ~Concerns(x, r)
           /\ x.cell[1] # "flow" => \A k : x.cell # <<"flow", k>>
BY DEF Concerns

LEMMA FindingsListed ==
    ASSUME NEW p \in Pushes, KindOf[p] \in Answered
    PROVE  /\ IsList(SaveFindings(p))
           /\ \A f \in Found[p] : \E x \in ToSet(SaveFindings(p)) : x.cell = <<"alert", f>>
           /\ \A x \in ToSet(SaveFindings(p)) : x \in ScanWrites /\ x.cell[1] = "alert"
<1> DEFINE vals == [f \in Found[p] |-> p]
           A == ToSet(SaveFindings(p))
<1>0. PICK g \in BOOLEAN : g = FALSE
  OBVIOUS
<1>1. DOMAIN vals = Found[p] /\ \A f \in Found[p] : vals[f] = p
  OBVIOUS
<1>2. SaveFindings(p) = Writes("alert", vals, g)
  BY <1>0 DEF SaveFindings
<1> HIDE DEF vals
<1>3. Found[p] \subseteq Items("review") \cup Items("report") /\ IsFiniteSet(DOMAIN vals)
  BY <1>1, FoundIsItems DEF Answered
<1>4. IsListOf(SaveFindings(p), "alert", vals, g)
  BY <1>2, <1>3, WritesAre
<1>5. /\ IsList(SaveFindings(p))
      /\ \A f \in Found[p] : Write("alert", f, p, g) \in A
      /\ \A x \in A : \E f \in Found[p] : x = Write("alert", f, p, g)
  BY <1>1, <1>4 DEF IsListOf
<1>6. ASSUME NEW x \in A PROVE x \in ScanWrites /\ x.cell[1] = "alert"
  <2>1. PICK f \in Found[p] : x = Write("alert", f, p, g)
    BY <1>5
  <2>2. x.cell = <<"alert", f>>
    BY <2>1 DEF Write
  <2>4. Write("alert", f, p, g) \in ScanWrites
    BY <1>3, GoodWrites
  <2> QED
    BY <2>1, <2>2, <2>4
<1>7. ASSUME NEW f \in Found[p] PROVE \E x \in A : x.cell = <<"alert", f>>
  <2>1. Write("alert", f, p, g).cell = <<"alert", f>>
    BY DEF Write
  <2> QED
    BY <1>5, <2>1
<1> QED
  BY <1>5, <1>6, <1>7

LEMMA SyncListed ==
    ASSUME NEW p \in Pushes, KindOf[p] \in Answered
    PROVE  /\ IsList(SaveSync(p))
           /\ \A x \in ToSet(SaveSync(p)) : x \in ScanWrites /\ x.cell[1] = "sync"
<1> DEFINE y == Write("sync", SourceOf[p], p, TRUE)
<1>1. y.cell = <<"sync", SourceOf[p]>>
  BY DEF Write
<1>2. TRUE \in BOOLEAN /\ p \in Scans
  BY DEF Scans, Answered
<1>3. y \in ScanWrites
  BY <1>2, GoodWrites
<1>4. IsList(SaveSync(p)) /\ ToSet(SaveSync(p)) = {y}
  BY OneList DEF SaveSync
<1> HIDE DEF y
<1> QED
  BY <1>1, <1>3, <1>4

LEMMA EventListed ==
    ASSUME NEW r \in Runs \cup Items("envelope"), NEW v \in Pushes \cup {None},
           NEW g \in BOOLEAN
    PROVE  LET y == Write("event", r, v, g)
           IN  /\ IsList(<<y>>) /\ ToSet(<<y>>) = {y}
               /\ y \in ScanWrites /\ y.cell = <<"event", r>> /\ y.val = v
<1>1. Write("event", r, v, g) \in ScanWrites
  BY GoodWrites
<1>2. Write("event", r, v, g).cell = <<"event", r>> /\ Write("event", r, v, g).val = v
  BY DEF Write
<1> QED
  BY <1>1, <1>2, OneList

LEMMA PromoteListed ==
    ASSUME NEW S \in SUBSET Runs, NEW scans \in [S -> Pushes]
    PROVE  /\ IsList(PromoteScans(scans))
           /\ \A r \in S, c \in Controls :
                 \E x \in ToSet(PromoteScans(scans)) : x.cell = <<"evidence", <<r, c>>>>
           /\ \A x \in ToSet(PromoteScans(scans)) :
                 /\ x \in ScanWrites
                 /\ \E r \in S, c \in Controls :
                       x.cell = <<"evidence", <<r, c>>>> /\ x.val = scans[r]
<1> DEFINE proofs == [rc \in S \X Controls |-> scans[rc[1]]]
           D == ToSet(PromoteScans(scans))
<1>1. DOMAIN proofs = S \X Controls /\ \A rc \in S \X Controls : proofs[rc] = scans[rc[1]]
  OBVIOUS
<1>2. PromoteScans(scans) = Writes("evidence", proofs, TRUE)
  BY DEF PromoteScans
<1> HIDE DEF proofs
<1>3. IsFiniteSet(DOMAIN proofs)
  BY <1>1, PairsFinite
<1>4. IsListOf(PromoteScans(scans), "evidence", proofs, TRUE)
  BY <1>2, <1>3, WritesAre
<1>5. /\ IsList(PromoteScans(scans))
      /\ \A rc \in S \X Controls : Write("evidence", rc, scans[rc[1]], TRUE) \in D
      /\ \A x \in D : \E rc \in S \X Controls : x = Write("evidence", rc, scans[rc[1]], TRUE)
  <2>1. /\ IsList(PromoteScans(scans))
        /\ \A k \in DOMAIN proofs : Write("evidence", k, proofs[k], TRUE) \in D
        /\ \A x \in D : \E k \in DOMAIN proofs : x = Write("evidence", k, proofs[k], TRUE)
    BY <1>4 DEF IsListOf
  <2>2. \A rc \in S \X Controls : Write("evidence", rc, scans[rc[1]], TRUE) \in D
    BY <1>1, <2>1
  <2>3. \A x \in D : \E rc \in S \X Controls : x = Write("evidence", rc, proofs[rc], TRUE)
    BY <1>1, <2>1, Zenon
  <2>4. ASSUME NEW x \in D
        PROVE  \E rc \in S \X Controls : x = Write("evidence", rc, scans[rc[1]], TRUE)
    BY <1>1, <2>3
  <2> QED
    BY <2>1, <2>2, <2>4
<1>6. ASSUME NEW x \in D
      PROVE  /\ x \in ScanWrites
             /\ \E r \in S, c \in Controls :
                   x.cell = <<"evidence", <<r, c>>>> /\ x.val = scans[r]
  <2>1. PICK rc \in S \X Controls : x = Write("evidence", rc, scans[rc[1]], TRUE)
    BY <1>5
  <2>2. PICK r \in S, c \in Controls : rc = <<r, c>>
    OBVIOUS
  <2>3. x.cell = <<"evidence", rc>> /\ x.val = scans[rc[1]]
    BY <2>1 DEF Write
  <2>4. rc[1] = r /\ rc \in Runs \X Controls /\ scans[r] \in Pushes /\ TRUE \in BOOLEAN
    BY <2>2
  <2>5. Write("evidence", rc, scans[r], TRUE) \in ScanWrites
    BY <2>4, GoodWrites
  <2> QED
    BY <2>1, <2>2, <2>3, <2>4, <2>5
<1>7. ASSUME NEW r \in S, NEW c \in Controls
      PROVE  \E x \in D : x.cell = <<"evidence", <<r, c>>>>
  <2>1. <<r, c>> \in S \X Controls
    OBVIOUS
  <2>2. Write("evidence", <<r, c>>, scans[<<r, c>>[1]], TRUE).cell = <<"evidence", <<r, c>>>>
    BY DEF Write
  <2> QED
    BY <1>5, <2>1, <2>2
<1> QED
  BY <1>5, <1>6, <1>7

(* A list of flow rows that are good for their keys.                       *)
LEMMA RowsListed ==
    ASSUME NEW rows, DOMAIN rows \subseteq FlowKeys, NEW g \in BOOLEAN,
           \A k \in DOMAIN rows : GoodRow(k, rows[k])
    PROVE  /\ IsList(Writes("flow", rows, g))
           /\ \A x \in ToSet(Writes("flow", rows, g)) :
                 /\ x \in ScanWrites /\ x.cell[1] = "flow"
                 /\ \E k \in DOMAIN rows : x.cell = <<"flow", k>>
<1> DEFINE B == ToSet(Writes("flow", rows, g))
<1>1. IsFiniteSet(DOMAIN rows)
  BY KeysFinite, FS_Subset
<1>2. IsListOf(Writes("flow", rows, g), "flow", rows, g)
  BY <1>1, WritesAre
<1>3. /\ IsList(Writes("flow", rows, g))
      /\ \A x \in B : \E k \in DOMAIN rows : x = Write("flow", k, rows[k], g)
  BY <1>2 DEF IsListOf
<1>4. ASSUME NEW x \in B
      PROVE  /\ x \in ScanWrites /\ x.cell[1] = "flow"
             /\ \E k \in DOMAIN rows : x.cell = <<"flow", k>>
  <2>1. PICK k \in DOMAIN rows : x = Write("flow", k, rows[k], g)
    BY <1>3
  <2>2. x.cell = <<"flow", k>>
    BY <2>1 DEF Write
  <2>3. k \in FlowKeys /\ GoodRow(k, rows[k])
    OBVIOUS
  <2>4. Write("flow", k, rows[k], g) \in ScanWrites
    BY <2>3, GoodWrites
  <2> QED
    BY <2>1, <2>2, <2>4
<1> QED
  BY <1>3, <1>4

LEMMA ScannedIsNotManual ==
    ASSUME NEW k \in Items("review") \cup Items("flow")
    PROVE  k \in FlowKeys /\ k \notin ManualRows
BY IdAssumption DEF FlowKeys

LEMMA ReviewPrepared ==
    ASSUME NEW p \in Pushes, KindOf[p] = "review"
    PROVE  Prepared(p, TakeReview(p), TRUE)
<1> DEFINE q == RunOf[p]
           scans == [r \in {q} |-> p]
           rows == [f \in Found[p] |-> SeedRow(mem[<<"flow", f>>], p)]
           y == Write("event", q, p, TRUE)
           A == ToSet(SaveFindings(p))
           B == ToSet(SeedFlow(p))
           C == ToSet(RecordScan(p))
           D == ToSet(PromoteScans(scans))
           E == ToSet(SaveSync(p))
           U == A \cup B \cup C \cup D \cup E
           t == TakeReview(p)
<1>1. /\ Found[p] \subseteq Items("review") /\ q \in Runs
      /\ KindOf[p] \in Answered /\ TRUE \in BOOLEAN
  BY FoundIsItems DEF Answered
<1>2. /\ IsList(SaveFindings(p))
      /\ \A f \in Found[p] : \E x \in A : x.cell = <<"alert", f>>
      /\ \A x \in A : x \in ScanWrites /\ x.cell[1] = "alert"
  BY <1>1, FindingsListed
<1>3. /\ IsList(SeedFlow(p))
      /\ \A x \in B : /\ x \in ScanWrites /\ x.cell[1] = "flow"
                      /\ \A k \in ManualRows : x.cell # <<"flow", k>>
  <2>1. DOMAIN rows = Found[p] /\ \A f \in Found[p] : rows[f] = SeedRow(mem[<<"flow", f>>], p)
    OBVIOUS
  <2>2. SeedFlow(p) = Writes("flow", rows, TRUE)
    BY DEF SeedFlow
  <2> HIDE DEF rows
  <2>3. \A f \in Found[p] : f \in FlowKeys /\ f \notin ManualRows
    BY <1>1, ScannedIsNotManual
  <2>4. \A k \in DOMAIN rows : GoodRow(k, rows[k])
    BY <2>1, <2>3, RowsAreGood
  <2>5. DOMAIN rows \subseteq FlowKeys
    BY <2>1, <2>3
  <2>6. /\ IsList(Writes("flow", rows, TRUE))
        /\ \A x \in ToSet(Writes("flow", rows, TRUE)) :
              /\ x \in ScanWrites /\ x.cell[1] = "flow"
              /\ \E k \in DOMAIN rows : x.cell = <<"flow", k>>
    BY <1>1, <2>4, <2>5, RowsListed
  <2> QED
    <3>1. ASSUME NEW x \in B, NEW k \in ManualRows PROVE x.cell # <<"flow", k>>
      <4>1. PICK f \in DOMAIN rows : x.cell = <<"flow", f>>
        BY <2>2, <2>6
      <4> QED
        BY <2>1, <2>3, <4>1
    <3> QED
      BY <2>2, <2>6, <3>1
<1>4. /\ IsList(RecordScan(p)) /\ C = {y}
      /\ y \in ScanWrites /\ y.cell = <<"event", q>> /\ y.val = p
  BY <1>1, EventListed DEF RecordScan
<1>5. /\ IsList(PromoteScans(scans))
      /\ \A c \in Controls : \E x \in D : x.cell = <<"evidence", <<q, c>>>>
      /\ \A x \in D : /\ x \in ScanWrites
                      /\ \E c \in Controls :
                            x.cell = <<"evidence", <<q, c>>>> /\ x.val = p
  <2>1. {q} \in SUBSET Runs /\ scans \in [{q} -> Pushes] /\ scans[q] = p
    BY <1>1
  <2> HIDE DEF scans
  <2> QED
    BY <2>1, PromoteListed
<1>6. /\ IsList(SaveSync(p))
      /\ \A x \in E : x \in ScanWrites /\ x.cell[1] = "sync"
  BY <1>1, SyncListed
<1>7. IsList(t) /\ ToSet(t) = U
  <2>1. t = SaveFindings(p) \o SeedFlow(p) \o RecordScan(p) \o PromoteScans(scans)
            \o SaveSync(p)
    BY DEF TakeReview
  <2> QED
    <3>1. /\ IsList(SaveFindings(p)) /\ IsList(SeedFlow(p)) /\ IsList(RecordScan(p))
          /\ IsList(PromoteScans(scans)) /\ IsList(SaveSync(p))
      BY <1>2, <1>3, <1>4, <1>5, <1>6
    <3> HIDE DEF scans, t
    <3>2. IsList(t) /\ ToSet(t) = A \cup B \cup C \cup D \cup E
      BY <2>1, <3>1, FiveJoined
    <3> QED
      BY <3>2
<1> HIDE DEF A, B, C, D, E, t, y, q
<1>8. ASSUME NEW x \in U
      PROVE  /\ x \in ScanWrites
             /\ \A k \in ManualRows : x.cell # <<"flow", k>>
             /\ \A r \in Runs : Concerns(x, r) => r = q
             /\ \A r \in Runs : x.cell = <<"event", r>> => x.val = p
             /\ \A r \in Runs, c \in Controls : x.cell = <<"evidence", <<r, c>>>> => x.val = p
  <2>1. CASE x \in A
    BY <1>2, <2>1, ByTable
  <2>2. CASE x \in B
    BY <1>3, <2>2, ByTable
  <2>3. CASE x \in C
    <3>1. x \in ScanWrites /\ x.cell = <<"event", q>> /\ x.val = p
      BY <1>4, <2>3
    <3> QED
      BY <3>1 DEF Concerns
  <2>4. CASE x \in D
    <3>1. PICK c \in Controls : x.cell = <<"evidence", <<q, c>>>> /\ x.val = p
      BY <1>5, <2>4
    <3>2. x.cell[1] = "evidence" /\ x.cell[2] = <<q, c>>
      BY <3>1
    <3>3. x \in ScanWrites
      BY <1>5, <2>4
    <3>4. \A r, d : <<r, d>> = <<q, c>> => r = q
      OBVIOUS
    <3> QED
      BY <3>1, <3>2, <3>3, <3>4 DEF Concerns
  <2>5. CASE x \in E
    BY <1>6, <2>5, ByTable
  <2> QED
    BY <2>1, <2>2, <2>3, <2>4, <2>5 DEF U
<1>9. /\ \A f \in Found[p] : \E x \in U : x.cell = <<"alert", f>>
      /\ \E x \in U : x.cell = <<"event", q>>
      /\ \A c \in Controls : \E x \in U : x.cell = <<"evidence", <<q, c>>>>
  <2>1. \A f \in Found[p] : \E x \in U : x.cell = <<"alert", f>>
    BY <1>2
  <2>2. \E x \in U : x.cell = <<"event", q>>
    BY <1>4
  <2>3. \A c \in Controls : \E x \in U : x.cell = <<"evidence", <<q, c>>>>
    BY <1>5
  <2> QED
    BY <2>1, <2>2, <2>3
<1> HIDE DEF U
<1>10. t \in Seq(ScanWrites)
  <2>1. ToSet(t) \subseteq ScanWrites
    BY <1>7, <1>8
  <2> QED
    BY <1>7, <2>1, ListIn
<1>11. HandsOff(ToSet(t))
  BY <1>7, <1>8 DEF HandsOff
<1>12. Promised(ToSet(t), p)
  BY <1>7, <1>9 DEF Promised, Given, q
<1>13. ASSUME NEW r \in RunsOf(t)
       PROVE  Settles(ToSet(t), r)
  <2>1. r \in Runs /\ r = q
    BY <1>7, <1>8, <1>10, RunsOfIs
  <2>2. Ends(U, <<"event", r>>, p)
    BY <1>8, <1>9, <2>1 DEF Ends
  <2>3. \A c \in Controls : Ends(U, <<"evidence", <<r, c>>>>, p)
    BY <1>8, <1>9, <2>1 DEF Ends
  <2> QED
    BY <1>7, <2>2, <2>3 DEF Settles
<1>14. Prepared(p, t, TRUE)
  BY <1>10, <1>11, <1>12, <1>13 DEF Prepared
<1> QED
  BY <1>14 DEF t

LEMMA ReportPrepared ==
    ASSUME NEW p \in Pushes, KindOf[p] = "report"
    PROVE  Prepared(p, TakeReport(p), TRUE)
<1> DEFINE A == ToSet(SaveFindings(p))
           E == ToSet(SaveSync(p))
           t == TakeReport(p)
<1>1. KindOf[p] \in Answered /\ KindOf[p] # "review"
  BY DEF Answered
<1>2. /\ IsList(SaveFindings(p))
      /\ \A f \in Found[p] : \E x \in A : x.cell = <<"alert", f>>
      /\ \A x \in A : x \in ScanWrites /\ x.cell[1] = "alert"
  BY <1>1, FindingsListed
<1>3. /\ IsList(SaveSync(p))
      /\ \A x \in E : x \in ScanWrites /\ x.cell[1] = "sync"
  BY <1>1, SyncListed
<1>4. IsList(t) /\ ToSet(t) = A \cup E
  BY <1>2, <1>3, JoinedList DEF TakeReport
<1> HIDE DEF A, E, t
<1>5. t \in Seq(ScanWrites)
  <2>1. ToSet(t) \subseteq ScanWrites
    BY <1>2, <1>3, <1>4
  <2> QED
    BY <1>4, <2>1, ListIn
<1>6. ASSUME NEW x \in ToSet(t)
      PROVE  (\A r : ~Concerns(x, r)) /\ (\A k : x.cell # <<"flow", k>>)
  BY <1>2, <1>3, <1>4, ByTable
<1>7. HandsOff(ToSet(t))
  BY <1>6 DEF HandsOff
<1>8. Promised(ToSet(t), p)
  BY <1>1, <1>2, <1>3, <1>4 DEF Promised, Given
<1>9. RunsOf(t) = {}
  BY <1>5, <1>6, RunsOfIs
<1>10. Prepared(p, t, TRUE)
  BY <1>5, <1>7, <1>8, <1>9 DEF Prepared
<1> QED
  BY <1>10 DEF t

LEMMA EnvelopesPrepared ==
    ASSUME NEW p \in Pushes, KindOf[p] = "envelope"
    PROVE  Prepared(p, TakeEnvelopes(p), TRUE)
<1> DEFINE vals == [e \in Found[p] |-> p]
           t == TakeEnvelopes(p)
<1>1. PICK g \in BOOLEAN : g = FALSE
  OBVIOUS
<1>2. DOMAIN vals = Found[p] /\ \A e \in Found[p] : vals[e] = p
  OBVIOUS
<1>3. t = Writes("event", vals, g)
  BY <1>1 DEF TakeEnvelopes
<1> HIDE DEF vals, t
<1>4. Found[p] \subseteq Items("envelope") /\ IsFiniteSet(DOMAIN vals)
  BY <1>2, FoundIsItems
<1>5. IsListOf(t, "event", vals, g)
  BY <1>3, <1>4, WritesAre
<1>6. /\ IsList(t)
      /\ \A x \in ToSet(t) : \E e \in Found[p] : x = Write("event", e, p, g)
  BY <1>2, <1>5 DEF IsListOf
<1>7. ASSUME NEW x \in ToSet(t)
      PROVE  /\ x \in ScanWrites
             /\ \A k : x.cell # <<"flow", k>>
             /\ \A r \in Runs : ~Concerns(x, r)
  <2>1. PICK e \in Found[p] : x = Write("event", e, p, g)
    BY <1>6
  <2>2. x.cell = <<"event", e>>
    BY <2>1 DEF Write
  <2>3. e \in Runs \cup Items("envelope") /\ p \in Pushes \cup {None}
    BY <1>4
  <2>4. Write("event", e, p, g) \in ScanWrites
    BY <2>3, GoodWrites
  <2>5. e \notin Runs
    BY <1>4, IdAssumption
  <2>6. x.cell[1] = "event" /\ x.cell[2] = e
    BY <2>2
  <2>7. \A k : x.cell # <<"flow", k>>
    BY <2>6
  <2>8. \A r \in Runs : ~Concerns(x, r)
    BY <2>5, <2>6 DEF Concerns
  <2> QED
    BY <2>1, <2>4, <2>7, <2>8
<1>8. ToSet(t) \subseteq ScanWrites /\ HandsOff(ToSet(t)) /\ KindOf[p] \notin Answered
  BY <1>7 DEF HandsOff, Answered
<1>9. Prepared(p, t, TRUE)
  BY <1>6, <1>7, <1>8, PlainPrepared
<1> QED
  BY <1>9 DEF t

LEMMA FlowPrepared ==
    ASSUME ScanTypes, NEW p \in Pushes, KindOf[p] = "flow"
    PROVE  Prepared(p, TakeFlow(p), TRUE)
<1> DEFINE old == [k \in {j \in FlowKeys : Automatic(j)} |-> None]
           new == [k \in Found[p] |-> Row("ai_flow", p)]
           y == Write("setting", "privacy_flow_meta", p, TRUE)
           A == ToSet(Writes("flow", old, FALSE))
           B == ToSet(Writes("flow", new, FALSE))
           C == ToSet(<<y>>)
           t == TakeFlow(p)
<1>1. ASSUME NEW k \in FlowKeys, Automatic(k) PROVE k \notin ManualRows
  <2>1. <<"flow", k>> \in Cached
    BY DEF Cached
  <2>2. Fits(<<"flow", k>>, mem[<<"flow", k>>])
    BY <2>1 DEF ScanTypes
  <2>3. GoodRow(k, mem[<<"flow", k>>])
    BY <2>2 DEF Fits
  <2> QED
    BY <1>1, <2>3 DEF GoodRow, Automatic
<1>2. FALSE \in BOOLEAN /\ TRUE \in BOOLEAN
  OBVIOUS
<1>3. /\ IsList(Writes("flow", old, FALSE))
      /\ \A x \in A : /\ x \in ScanWrites /\ x.cell[1] = "flow"
                      /\ \A k \in ManualRows : x.cell # <<"flow", k>>
  <2>1. DOMAIN old \subseteq FlowKeys /\ \A k \in DOMAIN old : k \notin ManualRows
    BY <1>1
  <2>2. \A k \in DOMAIN old : GoodRow(k, old[k])
    BY DEF GoodRow
  <2> HIDE DEF old
  <2>3. /\ IsList(Writes("flow", old, FALSE))
        /\ \A x \in A : /\ x \in ScanWrites /\ x.cell[1] = "flow"
                        /\ \E k \in DOMAIN old : x.cell = <<"flow", k>>
    BY <1>2, <2>1, <2>2, RowsListed
  <2>4. ASSUME NEW x \in A, NEW k \in ManualRows PROVE x.cell # <<"flow", k>>
    <3>1. PICK f \in DOMAIN old : x.cell = <<"flow", f>>
      BY <2>3
    <3> QED
      BY <2>1, <3>1
  <2> QED
    BY <2>3, <2>4
<1>4. /\ IsList(Writes("flow", new, FALSE))
      /\ \A x \in B : /\ x \in ScanWrites /\ x.cell[1] = "flow"
                      /\ \A k \in ManualRows : x.cell # <<"flow", k>>
  <2>1. DOMAIN new = Found[p] /\ \A k \in Found[p] : new[k] = Row("ai_flow", p)
    OBVIOUS
  <2> HIDE DEF new
  <2>2. \A k \in Found[p] : k \in FlowKeys /\ k \notin ManualRows
    BY FoundIsItems, ScannedIsNotManual
  <2>3. DOMAIN new \subseteq FlowKeys /\ \A k \in DOMAIN new : k \notin ManualRows
    BY <2>1, <2>2
  <2>4. \A k \in DOMAIN new : GoodRow(k, new[k])
    BY <2>1, <2>2, RowsAreGood
  <2>5. /\ IsList(Writes("flow", new, FALSE))
        /\ \A x \in B : /\ x \in ScanWrites /\ x.cell[1] = "flow"
                        /\ \E k \in DOMAIN new : x.cell = <<"flow", k>>
    BY <1>2, <2>3, <2>4, RowsListed
  <2>6. ASSUME NEW x \in B, NEW k \in ManualRows PROVE x.cell # <<"flow", k>>
    <3>1. PICK f \in DOMAIN new : x.cell = <<"flow", f>>
      BY <2>5
    <3> QED
      BY <2>3, <3>1
  <2> QED
    BY <2>5, <2>6
<1>5. IsList(<<y>>) /\ \A x \in C : x \in ScanWrites /\ x.cell[1] = "setting"
  <2>1. y \in ScanWrites
    BY <1>2, GoodWrites
  <2>2. y.cell[1] = "setting"
    BY DEF Write
  <2> HIDE DEF y
  <2>3. IsList(<<y>>) /\ C = {y}
    BY OneList
  <2> HIDE DEF C
  <2> QED
    BY <2>1, <2>2, <2>3
<1>6. IsList(t) /\ ToSet(t) = A \cup B \cup C
  <2> DEFINE a == Writes("flow", old, FALSE)
             b == Writes("flow", new, FALSE)
             c == <<y>>
  <2>1. t = a \o b \o c
    BY DEF TakeFlow
  <2>2. IsList(a) /\ IsList(b) /\ IsList(c)
    BY <1>3, <1>4, <1>5
  <2> HIDE DEF a, b, c, t
  <2>3. IsList(a \o b) /\ ToSet(a \o b) = ToSet(a) \cup ToSet(b)
    BY <2>2, JoinedList
  <2>4. IsList(a \o b \o c) /\ ToSet(a \o b \o c) = ToSet(a) \cup ToSet(b) \cup ToSet(c)
    BY <2>2, <2>3, JoinedList
  <2> QED
    BY <2>1, <2>4 DEF a, b, c
<1> HIDE DEF A, B, C, t
<1>7. ASSUME NEW x \in ToSet(t)
      PROVE  /\ x \in ScanWrites
             /\ \A k \in ManualRows : x.cell # <<"flow", k>>
             /\ \A r \in Runs : ~Concerns(x, r)
  <2>1. CASE x \in A
    BY <1>3, <2>1, ByTable
  <2>2. CASE x \in B
    BY <1>4, <2>2, ByTable
  <2>3. CASE x \in C
    BY <1>5, <2>3, ByTable
  <2> QED
    BY <1>6, <2>1, <2>2, <2>3
<1>8. ToSet(t) \subseteq ScanWrites /\ HandsOff(ToSet(t)) /\ KindOf[p] \notin Answered
  BY <1>7 DEF HandsOff, Answered
<1>9. Prepared(p, t, TRUE)
  BY <1>6, <1>7, <1>8, PlainPrepared
<1> QED
  BY <1>9 DEF t

LEMMA BackfillPrepared ==
    ASSUME ScanTypes, NEW S \in SUBSET Runs, \A r \in S : tab[<<"event", r>>] # None,
           NEW scans, scans = [r \in S |-> tab[<<"event", r>>]]
    PROVE  Prepared(None, PromoteScans(scans), TRUE)
<1> DEFINE t == PromoteScans(scans)
           D == ToSet(t)
<1>1. ASSUME NEW r \in S
      PROVE  tab[<<"event", r>>] \in Pushes
  <2>1. <<"event", r>> \in Cells /\ <<"event", r>>[1] = "event"
    BY DEF Cells
  <2>2. tab[<<"event", r>>] \in Pushes \cup {None}
    BY <2>1 DEF ScanTypes, Fits
  <2> QED
    BY <2>2
<1>2. scans \in [S -> Pushes] /\ \A r \in S : scans[r] = tab[<<"event", r>>]
  BY <1>1
<1>3. /\ IsList(t)
      /\ \A r \in S, c \in Controls : \E x \in D : x.cell = <<"evidence", <<r, c>>>>
      /\ \A x \in D : /\ x \in ScanWrites
                      /\ \E r \in S, c \in Controls :
                            x.cell = <<"evidence", <<r, c>>>> /\ x.val = scans[r]
  BY <1>2, PromoteListed
<1> HIDE DEF t, D
<1>4. ASSUME NEW x \in D
      PROVE  /\ x.cell[1] = "evidence"
             /\ \A r, c : x.cell = <<"evidence", <<r, c>>>> =>
                   r \in S /\ x.val = tab[<<"event", r>>]
  <2>1. PICK q \in S, d \in Controls : x.cell = <<"evidence", <<q, d>>>> /\ x.val = scans[q]
    BY <1>3
  <2>2. \A r, c : <<"evidence", <<r, c>>>> = <<"evidence", <<q, d>>>> => r = q
    OBVIOUS
  <2>3. x.cell[1] = "evidence"
    BY <2>1
  <2> QED
    BY <1>2, <2>1, <2>2, <2>3
<1>5. t \in Seq(ScanWrites)
  <2>1. D \subseteq ScanWrites
    BY <1>3
  <2> QED
    BY <1>3, <2>1, ListIn DEF D
<1>6. HandsOff(D)
  BY <1>4, ByTable DEF HandsOff
<1>7. ASSUME NEW r \in RunsOf(t)
      PROVE  Settles(D, r)
  <2>1. PICK x \in D : Concerns(x, r)
    BY <1>5, <1>7, RunsOfIs DEF D
  <2>2. x.cell # <<"event", r>>
    BY <1>4
  <2>3. r \in S
    BY <1>4, <2>1, <2>2 DEF Concerns
  <2>4. \A z \in D : z.cell # <<"event", r>>
    BY <1>4
  <2>5. Ends(D, <<"event", r>>, tab[<<"event", r>>])
    BY <2>4 DEF Ends
  <2>6. \A c \in Controls : Ends(D, <<"evidence", <<r, c>>>>, tab[<<"event", r>>])
    <3> SUFFICES ASSUME NEW c \in Controls
                 PROVE  Ends(D, <<"evidence", <<r, c>>>>, tab[<<"event", r>>])
      OBVIOUS
    <3>1. \E z \in D : z.cell = <<"evidence", <<r, c>>>>
      BY <1>3, <2>3
    <3>2. \A z \in D : z.cell = <<"evidence", <<r, c>>>> => z.val = tab[<<"event", r>>]
      BY <1>4
    <3> QED
      BY <3>1, <3>2 DEF Ends
  <2>7. tab[<<"event", r>>] \in Pushes \cup {None}
    BY <1>1, <2>3
  <2> QED
    BY <2>5, <2>6, <2>7 DEF Settles
<1>8. Prepared(None, t, TRUE)
  BY <1>5, <1>6, <1>7, PushAssumption DEF Prepared, D
<1> QED
  BY <1>8 DEF t

LEMMA DeletionPrepared ==
    ASSUME NEW r \in Runs
    PROVE  Prepared(None, <<Write("event", r, None, FALSE)>>, FALSE)
<1> DEFINE y == Write("event", r, None, FALSE)
           t == <<y>>
<1>1. r \in Runs \cup Items("envelope") /\ None \in Pushes \cup {None} /\ FALSE \in BOOLEAN
  OBVIOUS
<1>2. /\ IsList(t) /\ ToSet(t) = {y}
      /\ y \in ScanWrites /\ y.cell = <<"event", r>> /\ y.val = None
  BY <1>1, EventListed
<1> HIDE DEF y, t
<1>3. t \in Seq(ScanWrites)
  BY <1>2, ListIn
<1>4. \A q \in Runs : Concerns(y, q) => q = r
  BY <1>2 DEF Concerns
<1>5. \A q \in RunsOf(t) : q = r
  BY <1>2, <1>3, <1>4, RunsOfIs
<1>6. Ends(ToSet(t), <<"event", r>>, None)
  BY <1>2 DEF Ends
<1>7. Settles(ToSet(t), r)
  BY <1>6 DEF Settles
<1>8. Prepared(None, t, FALSE)
  BY <1>3, <1>5, <1>7, PushAssumption DEF Prepared
<1> QED
  BY <1>8 DEF t, y

LEMMA OneRowPrepared ==
    ASSUME NEW k \in FlowKeys, NEW v, GoodRow(k, v)
    PROVE  Prepared(None, <<Write("flow", k, v, FALSE)>>, FALSE)
<1> DEFINE y == Write("flow", k, v, FALSE)
           t == <<y>>
<1>1. FALSE \in BOOLEAN
  OBVIOUS
<1>2. y \in ScanWrites
  BY <1>1, GoodWrites
<1>3. y.cell[1] = "flow"
  BY DEF Write
<1> HIDE DEF y
<1>4. IsList(t) /\ ToSet(t) = {y}
  BY OneList
<1> HIDE DEF t
<1>5. ToSet(t) \subseteq ScanWrites /\ \A x \in ToSet(t), r \in Runs : ~Concerns(x, r)
  BY <1>2, <1>3, <1>4, ByTable
<1>6. Prepared(None, t, FALSE)
  BY <1>4, <1>5, PlainPrepared
<1> QED
  BY <1>6 DEF t, y

LEMMA RowsPrepared ==
    ASSUME NEW rows, DOMAIN rows \subseteq FlowKeys, NEW a \in BOOLEAN,
           \A k \in DOMAIN rows : GoodRow(k, rows[k]),
           a => DOMAIN rows \cap ManualRows = {}
    PROVE  Prepared(None, Writes("flow", rows, FALSE), a)
<1> DEFINE t == Writes("flow", rows, FALSE)
<1>1. FALSE \in BOOLEAN
  OBVIOUS
<1>2. /\ IsList(t)
      /\ \A x \in ToSet(t) : /\ x \in ScanWrites /\ x.cell[1] = "flow"
                             /\ \E k \in DOMAIN rows : x.cell = <<"flow", k>>
  BY <1>1, RowsListed
<1> HIDE DEF t
<1>3. ToSet(t) \subseteq ScanWrites /\ \A x \in ToSet(t), r \in Runs : ~Concerns(x, r)
  BY <1>2, ByTable
<1>4. a => HandsOff(ToSet(t))
  <2> SUFFICES ASSUME a, NEW x \in ToSet(t), NEW k \in ManualRows
               PROVE  x.cell # <<"flow", k>>
    BY DEF HandsOff
  <2>1. PICK j \in DOMAIN rows : x.cell = <<"flow", j>>
    BY <1>2
  <2> QED
    BY <2>1
<1>5. Prepared(None, t, a)
  BY <1>2, <1>3, <1>4, PlainPrepared
<1> QED
  BY <1>5 DEF t

LEMMA IngestKeeps ==
    ASSUME ScanSound, NEW w \in Workers, NEW p \in Pushes, Ingest(w, p)
    PROVE  ScanSound'
<1>1. StartHandler(w, p, Plan(p), TRUE) /\ TRUE \in BOOLEAN
  BY DEF Ingest
<1>2. Prepared(p, Plan(p), TRUE)
  <2>1. CASE KindOf[p] = "review"
    BY <2>1, ReviewPrepared DEF Plan
  <2>2. CASE KindOf[p] = "report"
    BY <2>2, ReportPrepared DEF Plan
  <2>3. CASE KindOf[p] = "flow"
    BY <2>3, FlowPrepared DEF Plan, ScanSound
  <2>4. CASE KindOf[p] = "envelope"
    BY <2>4, EnvelopesPrepared DEF Plan
  <2> QED
    BY <2>1, <2>2, <2>3, <2>4, PushAssumption
<1> QED
  BY <1>1, <1>2, StartKeeps

LEMMA BackfillKeeps ==
    ASSUME ScanSound, NEW w \in Workers, Backfill(w)
    PROVE  ScanSound'
<1> DEFINE S == {r \in Runs : tab[<<"event", r>>] # None}
           scans == [r \in S |-> tab[<<"event", r>>]]
<1>1. StartHandler(w, None, PromoteScans(scans), TRUE) /\ TRUE \in BOOLEAN
  BY DEF Backfill
<1>2. S \in SUBSET Runs /\ \A r \in S : tab[<<"event", r>>] # None
  OBVIOUS
<1>3. PICK s : s = scans
  OBVIOUS
<1> HIDE DEF S
<1>4. Prepared(None, PromoteScans(s), TRUE)
  BY <1>2, <1>3, BackfillPrepared DEF ScanSound
<1> QED
  BY <1>1, <1>3, <1>4, StartKeeps

LEMMA DeleteScanKeeps ==
    ASSUME ScanSound, NEW w \in Workers, NEW r \in Runs, DeleteScan(w, r)
    PROVE  ScanSound'
<1>1. /\ StartHandler(w, None, <<Write("event", r, None, FALSE)>>, FALSE)
      /\ FALSE \in BOOLEAN
  BY DEF DeleteScan
<1>2. Prepared(None, <<Write("event", r, None, FALSE)>>, FALSE)
  BY DeletionPrepared
<1> QED
  BY <1>1, <1>2, StartKeeps

LEMMA AddRowKeeps ==
    ASSUME ScanSound, NEW w \in Workers, NEW k \in ManualRows, AddRow(w, k)
    PROVE  ScanSound'
<1>1. /\ StartHandler(w, None, <<Write("flow", k, Row("manual", Officer), FALSE)>>, FALSE)
      /\ FALSE \in BOOLEAN
  BY DEF AddRow
<1>2. k \in FlowKeys /\ GoodRow(k, Row("manual", Officer))
  BY DEF FlowKeys, GoodRow, Row, FlowRows, Officer
<1>3. Prepared(None, <<Write("flow", k, Row("manual", Officer), FALSE)>>, FALSE)
  BY <1>2, OneRowPrepared
<1> QED
  BY <1>1, <1>3, StartKeeps

LEMMA DeleteRowsKeeps ==
    ASSUME ScanSound, NEW w \in Workers, NEW keys \in SUBSET FlowKeys, DeleteRows(w, keys)
    PROVE  ScanSound'
<1> DEFINE rows == [k \in {j \in keys : mem[<<"flow", j>>] # None} |-> None]
<1>1. StartHandler(w, None, Writes("flow", rows, FALSE), FALSE) /\ FALSE \in BOOLEAN
  BY DEF DeleteRows
<1>2. DOMAIN rows \subseteq FlowKeys /\ \A k \in DOMAIN rows : GoodRow(k, rows[k])
  BY DEF GoodRow
<1> HIDE DEF rows
<1>3. Prepared(None, Writes("flow", rows, FALSE), FALSE)
  BY <1>1, <1>2, RowsPrepared
<1> QED
  BY <1>1, <1>3, StartKeeps

LEMMA SeedKeeps ==
    ASSUME ScanSound, NEW w \in Workers, SeedFromScan(w)
    PROVE  ScanSound'
<1> DEFINE S == {f \in Items("review") : tab[<<"alert", f>>] # None}
           rows == [f \in S |-> SeedRow(mem[<<"flow", f>>], tab[<<"alert", f>>])]
<1>1. StartHandler(w, None, Writes("flow", rows, FALSE), TRUE) /\ TRUE \in BOOLEAN
  BY DEF SeedFromScan
<1>2. ASSUME NEW f \in S PROVE f \in FlowKeys /\ f \notin ManualRows /\ GoodRow(f, rows[f])
  <2>1. <<"alert", f>> \in Cells /\ <<"alert", f>>[1] = "alert"
    BY DEF Cells
  <2>2. tab[<<"alert", f>>] \in Pushes \cup {None}
    BY <2>1 DEF ScanSound, ScanTypes, Fits
  <2>3. tab[<<"alert", f>>] \in Pushes
    BY <2>2
  <2>4. f \in FlowKeys /\ f \notin ManualRows
    BY ScannedIsNotManual
  <2>5. rows[f] = SeedRow(mem[<<"flow", f>>], tab[<<"alert", f>>])
    OBVIOUS
  <2> QED
    BY <2>3, <2>4, <2>5, RowsAreGood
<1>3. DOMAIN rows = S
  OBVIOUS
<1> HIDE DEF rows, S
<1>4. Prepared(None, Writes("flow", rows, FALSE), TRUE)
  <2>1. DOMAIN rows \subseteq FlowKeys /\ DOMAIN rows \cap ManualRows = {}
    BY <1>2, <1>3
  <2>2. \A k \in DOMAIN rows : GoodRow(k, rows[k])
    BY <1>2, <1>3
  <2> QED
    BY <1>1, <2>1, <2>2, RowsPrepared
<1> QED
  BY <1>1, <1>4, StartKeeps

LEMMA ChangeRowKeeps ==
    ASSUME ScanSound, NEW w \in Workers, NEW k \in FlowKeys, ChangeRow(w, k)
    PROVE  ScanSound'
<1> DEFINE row == mem[<<"flow", k>>]
<1>1. PICK new \in {Edited(row), Confirmed(row), Reopened(row)} :
         /\ Begin(w, [Handler(None, <<Write("flow", k, new, FALSE)>>, FALSE)
                        EXCEPT !.put = TRUE])
         /\ mem' = [mem EXCEPT ![<<"flow", k>>] = new]
  BY DEF ChangeRow
<1>2. row # None /\ UNCHANGED <<tab, kept, gone>>
  BY DEF ChangeRow
<1>3. GoodRow(k, row)
  <2>1. <<"flow", k>> \in Cached
    BY DEF Cached
  <2>2. Fits(<<"flow", k>>, row)
    BY <2>1 DEF ScanSound, ScanTypes
  <2> QED
    BY <2>2 DEF Fits
<1>4. GoodRow(k, new)
  BY <1>1, <1>2, <1>3 DEF GoodRow, FlowRows, Edited, Confirmed, Reopened, Officer
<1> DEFINE t == <<Write("flow", k, new, FALSE)>>
           g == Handler(None, t, FALSE)
           h == [g EXCEPT !.put = TRUE]
<1>5. Prepared(None, t, FALSE)
  BY <1>4, OneRowPrepared
<1>6. RunsOf(t) \subseteq Runs
  BY DEF RunsOf
<1>7. Begin(w, h)
  BY <1>1
<1> HIDE DEF t
<1>8. /\ h.push = None /\ h.todo = t /\ h.lost = FALSE /\ h.automatic = FALSE
      /\ h.runs = RunsOf(t) /\ (h.alone => \A v \in Workers : ~Busy(v))
  BY DEF Handler
<1>9. h \in Handlers
  BY <1>5, <1>6 DEF Handler, Handlers, Prepared
<1>10. mem' \in [Cached -> Vals] /\ \A c \in Cached : Fits(c, mem'[c])
  <2>1. <<"flow", k>> \in Cached /\ new \in Vals
    BY <1>4 DEF Cached, Vals, GoodRow
  <2>2. Fits(<<"flow", k>>, new)
    BY <1>4 DEF Fits
  <2>3. mem \in [Cached -> Vals] /\ \A c \in Cached : Fits(c, mem[c])
    BY DEF ScanSound, ScanTypes
  <2>4. \A c \in Cached : mem'[c] = IF c = <<"flow", k>> THEN new ELSE mem[c]
    BY <1>1, <2>3
  <2> QED
    BY <1>1, <2>1, <2>2, <2>3, <2>4
<1> HIDE DEF h
<1> QED
  BY <1>2, <1>5, <1>7, <1>8, <1>9, <1>10, BeginKeeps

(***************************************************************************)
(* A handler goes on                                                       *)
(***************************************************************************)

(* The next write of a handler, and the rest of its list.                  *)
LEMMA DueIs ==
    ASSUME ScanTypes, NEW w \in Workers, Busy(w), op[w].todo # <<>>
    PROVE  /\ op[w] \in Handlers
           /\ Due(w) \in ScanWrites /\ Due(w) \in Left(w)
           /\ Tail(op[w].todo) \in Seq(ScanWrites)
           /\ Left(w) = {Due(w)} \cup ToSet(Tail(op[w].todo))
<1>1. op[w] \in Handlers /\ op[w].todo \in Seq(ScanWrites)
  BY DEF ScanTypes, Busy, Handlers
<1> QED
  BY <1>1, HeadAndTail DEF Due, Left

(* A handler that keeps its list and its record but for "put".             *)
LEMMA SameOp ==
    ASSUME NEW v, op'[v].todo = op[v].todo
    PROVE  Left(v)' = Left(v)
BY DEF Left, ToSet

(* What a step drops from a list without the answer telling of it.         *)
OnlySyncDropped(v) == \A x \in Left(v) : x.cell[1] = "sync" \/ x \in Left(v)'

LEMMA SameSettles ==
    ASSUME NEW v, NEW r, tab' = tab, Left(v)' \subseteq Left(v), OnlySyncDropped(v),
           Settles(Left(v), r)
    PROVE  Settles(Left(v), r)'
<1>1. PICK z \in Pushes \cup {None} :
         /\ Ends(Left(v), <<"event", r>>, z)
         /\ z # None => \A c \in Controls : Ends(Left(v), <<"evidence", <<r, c>>>>, z)
  BY DEF Settles
<1>2. ASSUME NEW c, c[1] # "sync", Ends(Left(v), c, z)
      PROVE  Ends(Left(v), c, z)'
  BY <1>2 DEF Ends, OnlySyncDropped
<1>3. <<"event", r>>[1] # "sync" /\ \A c : <<"evidence", <<r, c>>>>[1] # "sync"
  OBVIOUS
<1>4. /\ Ends(Left(v), <<"event", r>>, z)'
      /\ z # None => \A c \in Controls : Ends(Left(v), <<"evidence", <<r, c>>>>, z)'
  BY <1>1, <1>2, <1>3
<1> QED
  BY <1>4 DEF Settles

(* A step that stores nothing, where every handler keeps what is left of   *)
(* its list, or loses some of it and knows, or loses the sync row.         *)
LEMMA QuietKeeps ==
    ASSUME ScanSound, UNCHANGED <<tab, kept, torn, gone>>,
           mem' \in [Cached -> Vals], \A c \in Cached : Fits(c, mem'[c]),
           op' = [v \in Workers |-> op'[v]],
           \A v \in Workers : Busy(v)' =>
               /\ Busy(v) /\ op'[v] \in Handlers /\ Left(v)' \subseteq Left(v)
               /\ op'[v].push = op[v].push /\ op'[v].automatic = op[v].automatic
               /\ op'[v].runs = op[v].runs /\ op'[v].alone = op[v].alone
               /\ ~op'[v].lost => ~op[v].lost /\ OnlySyncDropped(v)
    PROVE  ScanSound'
<1> USE DEF ScanSound
<1>1. ScanTypes'
  <2>1. \A v \in Workers : op'[v] \in Handlers \cup {None}
    BY DEF Busy
  <2>2. op' \in [Workers -> Handlers \cup {None}]
    BY <2>1
  <2> QED
    BY <2>2 DEF ScanTypes, Fits, GoodRow
<1>2. ManualsApart'
  BY DEF ManualsApart, HandsOff
<1>3. PromisesHold'
  <2>1. \A p \in kept' : Promised({}, p)'
    BY DEF PromisesHold, Promised, Given
  <2>2. ASSUME NEW v \in Workers, Busy(v)', ~op'[v].lost,
               NEW p \in Pushes, p = op'[v].push, KindOf[p] \in Answered
        PROVE  Promised(Left(v), p)'
    <3>1. Promised(Left(v), p) /\ OnlySyncDropped(v)
      BY <2>2 DEF PromisesHold
    <3>2. ASSUME NEW c, c[1] # "sync", Given(Left(v), c)
          PROVE  Given(Left(v), c)'
      BY <3>1, <3>2 DEF Given, OnlySyncDropped
    <3>3. /\ \A f : <<"alert", f>>[1] # "sync" /\ <<"event", f>>[1] # "sync"
          /\ \A e : <<"evidence", e>>[1] # "sync"
      OBVIOUS
    <3> QED
      BY <3>1, <3>2, <3>3 DEF Promised
  <2> QED
    BY <2>1, <2>2 DEF PromisesHold
<1>4. RunsReserved'
  BY DEF RunsReserved, Concerns
<1>5. AloneSettles'
  <2> SUFFICES ASSUME NEW v \in Workers, Busy(v)', op'[v].alone
               PROVE  /\ \A u \in Workers : u # v => ~Busy(u)'
                      /\ ~op'[v].lost => \A r \in op'[v].runs : Settles(Left(v), r)'
    BY DEF AloneSettles
  <2>1. \A u \in Workers : u # v => ~Busy(u)'
    BY DEF AloneSettles
  <2>2. ASSUME ~op'[v].lost, NEW r \in op'[v].runs
        PROVE  Settles(Left(v), r)'
    <3>1. Settles(Left(v), r) /\ Left(v)' \subseteq Left(v) /\ OnlySyncDropped(v)
      BY <2>2 DEF AloneSettles
    <3> QED
      BY <3>1, SameSettles
  <2> QED
    BY <2>1, <2>2
<1>6. EvidenceMatchesScan'
  BY DEF EvidenceMatchesScan
<1> QED
  BY <1>1, <1>2, <1>3, <1>4, <1>5, <1>6

LEMMA PutKeeps ==
    ASSUME ScanSound, NEW w \in Workers, PutInMemory(w)
    PROVE  ScanSound'
<1>1. /\ Busy(w) /\ op[w].todo # <<>> /\ Due(w).cell \in Cached
      /\ mem' = [mem EXCEPT ![Due(w).cell] = Due(w).val]
      /\ op' = [op EXCEPT ![w].put = TRUE]
      /\ UNCHANGED <<tab, kept, torn, gone>>
  BY DEF PutInMemory
<1>2. ScanTypes
  BY DEF ScanSound
<1>3. op[w] \in Handlers /\ Due(w) \in ScanWrites
  BY <1>1, <1>2, DueIs
<1>4. ASSUME NEW v \in Workers, Busy(v)'
      PROVE  /\ Busy(v) /\ op'[v] \in Handlers /\ Left(v)' = Left(v)
             /\ op'[v].push = op[v].push /\ op'[v].automatic = op[v].automatic
             /\ op'[v].runs = op[v].runs /\ op'[v].alone = op[v].alone
             /\ op'[v].lost = op[v].lost
  <2>1. CASE v = w
    <3>1. op'[w] = [op[w] EXCEPT !.put = TRUE]
      BY <1>1, <1>2 DEF ScanTypes
    <3>2. /\ op'[w] \in Handlers
          /\ op'[w].push = op[w].push /\ op'[w].todo = op[w].todo
          /\ op'[w].lost = op[w].lost /\ op'[w].automatic = op[w].automatic
          /\ op'[w].runs = op[w].runs /\ op'[w].alone = op[w].alone
      BY <1>3, <3>1 DEF Handlers
    <3> QED
      BY <1>1, <2>1, <3>2, SameOp
  <2>2. CASE v # w
    <3>1. op'[v] = op[v]
      BY <1>1, <1>2, <2>2 DEF ScanTypes
    <3>2. Busy(v)
      BY <1>4, <3>1 DEF Busy
    <3> QED
      BY <1>2, <3>1, <3>2, SameOp DEF ScanTypes, Busy
  <2> QED
    BY <2>1, <2>2
<1>5. mem' \in [Cached -> Vals] /\ \A c \in Cached : Fits(c, mem'[c])
  <2>1. Due(w).val \in Vals /\ Fits(Due(w).cell, Due(w).val)
    BY <1>3 DEF ScanWrites
  <2>2. mem \in [Cached -> Vals] /\ \A c \in Cached : Fits(c, mem[c])
    BY <1>2 DEF ScanTypes
  <2>3. \A c \in Cached : mem'[c] = IF c = Due(w).cell THEN Due(w).val ELSE mem[c]
    BY <1>1, <2>2
  <2> QED
    BY <1>1, <2>1, <2>2, <2>3
<1>6. op' = [v \in Workers |-> op'[v]]
  BY <1>1, <1>2 DEF ScanTypes
<1>7. \A v \in Workers : Busy(v)' =>
          /\ Busy(v) /\ op'[v] \in Handlers /\ Left(v)' \subseteq Left(v)
          /\ op'[v].push = op[v].push /\ op'[v].automatic = op[v].automatic
          /\ op'[v].runs = op[v].runs /\ op'[v].alone = op[v].alone
          /\ ~op'[v].lost => ~op[v].lost /\ OnlySyncDropped(v)
  BY <1>4 DEF OnlySyncDropped
<1> QED
  BY <1>1, <1>5, <1>6, <1>7, QuietKeeps

(* What is promised of a push after a step, when R is left to be written.  *)
StillPromised(R, p) ==
    LET Will(c) == tab'[c] # None \/ \E y \in R : y.cell = c
    IN  /\ \A f \in Found[p] : Will(<<"alert", f>>)
        /\ KindOf[p] = "review" =>
              /\ Will(<<"event", RunOf[p]>>) \/ RunOf[p] \in gone'
              /\ \A c \in Controls : Will(<<"evidence", <<RunOf[p], c>>>>)

(* A push stays stored, or promised, when one write of a list is done.     *)
LEMMA SavedPromise ==
    ASSUME NEW x \in ScanWrites, NEW U, NEW R, U \subseteq R \cup {x}, ScanTypes,
           tab' = [tab EXCEPT ![x.cell] = x.val],
           gone \subseteq gone',
           x.cell[1] = "event" /\ x.val = None => x.cell[2] \in gone',
           NEW p \in Pushes, KindOf[p] \in Answered, Promised(U, p)
    PROVE  StillPromised(R, p)
<1>1. /\ tab \in [Cells -> Vals] /\ x.cell \in Cells
      /\ x.cell[1] \in {"alert", "evidence", "sync"} => x.val # None
  BY DEF ScanTypes, ScanWrites
<1>2. ASSUME NEW c, c[1] \in {"alert", "evidence", "sync"}, c \in Cells, Given(U, c)
      PROVE  tab'[c] # None \/ \E y \in R : y.cell = c
  <2>1. CASE x.cell = c
    BY <1>1, <1>2, <2>1
  <2>2. CASE x.cell # c
    BY <1>1, <1>2, <2>2 DEF Given
  <2> QED
    BY <2>1, <2>2
<1>3. Found[p] \subseteq Items("review") \cup Items("report")
  BY FoundIsItems DEF Answered
<1>4. ASSUME NEW f \in Found[p]
      PROVE  tab'[<<"alert", f>>] # None \/ \E y \in R : y.cell = <<"alert", f>>
  <2>1. <<"alert", f>> \in Cells /\ <<"alert", f>>[1] = "alert"
    BY <1>3 DEF Cells
  <2>2. Given(U, <<"alert", f>>)
    BY DEF Promised
  <2> QED
    BY <1>2, <2>1, <2>2
<1>5. ASSUME KindOf[p] = "review"
      PROVE  \/ tab'[<<"event", RunOf[p]>>] # None
             \/ \E y \in R : y.cell = <<"event", RunOf[p]>>
             \/ RunOf[p] \in gone'
  <2> DEFINE e == <<"event", RunOf[p]>>
  <2>1. e \in Cells /\ e[1] = "event" /\ e[2] = RunOf[p]
    BY <1>5, FoundIsItems DEF Cells
  <2>2. Given(U, e) \/ RunOf[p] \in gone
    BY <1>5 DEF Promised
  <2> HIDE DEF e
  <2>3. tab'[e] # None \/ (\E y \in R : y.cell = e) \/ RunOf[p] \in gone'
    <3>1. CASE x.cell = e
      BY <1>1, <2>1, <3>1
    <3>2. CASE x.cell # e
      BY <1>1, <2>1, <2>2, <3>2 DEF Given
    <3> QED
      BY <3>1, <3>2
  <2> QED
    BY <2>3 DEF e
<1>6. ASSUME KindOf[p] = "review", NEW c \in Controls
      PROVE  \/ tab'[<<"evidence", <<RunOf[p], c>>>>] # None
             \/ \E y \in R : y.cell = <<"evidence", <<RunOf[p], c>>>>
  <2>1. RunOf[p] \in Runs
    BY <1>6, FoundIsItems
  <2>2. <<"evidence", <<RunOf[p], c>>>> \in Cells
    BY <2>1 DEF Cells, Cached
  <2>3. <<"evidence", <<RunOf[p], c>>>>[1] = "evidence"
    OBVIOUS
  <2>4. Given(U, <<"evidence", <<RunOf[p], c>>>>)
    BY <1>6 DEF Promised
  <2> QED
    BY <1>2, <2>2, <2>3, <2>4
<1> QED
  BY <1>4, <1>5, <1>6 DEF StillPromised

LEMMA SaveKeeps ==
    ASSUME ScanSound, NEW w \in Workers, Save(w)
    PROVE  ScanSound'
<1> USE DEF ScanSound
<1> DEFINE x == Due(w)
           R == ToSet(Tail(op[w].todo))
<1>1. /\ Busy(w) /\ op[w].todo # <<>>
      /\ tab' = [tab EXCEPT ![x.cell] = x.val]
      /\ gone' = IF x.cell[1] = "event" /\ x.val = None THEN gone \cup {x.cell[2]} ELSE gone
      /\ op' = [op EXCEPT ![w].todo = Tail(@), ![w].put = FALSE]
      /\ UNCHANGED <<mem, kept, torn>>
  BY DEF Save, Ready, Stored
<1>2. /\ op[w] \in Handlers /\ x \in ScanWrites /\ x \in Left(w)
      /\ Tail(op[w].todo) \in Seq(ScanWrites) /\ Left(w) = {x} \cup R
  BY <1>1, DueIs
<1>3. x.cell \in Cells /\ x.val \in Vals /\ Fits(x.cell, x.val)
  BY <1>2 DEF ScanWrites
<1> HIDE DEF x
<1>4. /\ tab \in [Cells -> Vals]
      /\ \A c \in Cells : tab'[c] = IF c = x.cell THEN x.val ELSE tab[c]
  BY <1>1, <1>3 DEF ScanTypes
<1>5. /\ op'[w] \in Handlers
      /\ op'[w].push = op[w].push /\ op'[w].todo = Tail(op[w].todo)
      /\ op'[w].lost = op[w].lost /\ op'[w].automatic = op[w].automatic
      /\ op'[w].runs = op[w].runs /\ op'[w].alone = op[w].alone
  <2>1. op'[w] = [op[w] EXCEPT !.todo = Tail(@), !.put = FALSE]
    BY <1>1 DEF ScanTypes
  <2> QED
    BY <1>2, <2>1 DEF Handlers
<1>6. Left(w)' = R
  BY <1>5 DEF Left, ToSet
<1>7. ASSUME NEW v \in Workers, v # w
      PROVE  op'[v] = op[v] /\ Left(v)' = Left(v) /\ (Busy(v)' <=> Busy(v))
  <2>1. op'[v] = op[v]
    BY <1>1, <1>7 DEF ScanTypes
  <2> QED
    BY <2>1, SameOp DEF Busy
<1> HIDE DEF R
<1>8. ScanTypes'
  <2>1. op' \in [Workers -> Handlers \cup {None}]
    <3>1. \A v \in Workers : op'[v] \in Handlers \cup {None}
      BY <1>5, <1>7 DEF ScanTypes
    <3>2. op' = [v \in Workers |-> op'[v]]
      BY <1>1 DEF ScanTypes
    <3> QED
      BY <3>1, <3>2
  <2>2. tab' \in [Cells -> Vals]
    BY <1>1, <1>3, <1>4
  <2>3. \A c \in Cells : Fits(c, tab'[c])
    BY <1>3, <1>4 DEF ScanTypes
  <2> QED
    BY <1>1, <2>1, <2>2, <2>3 DEF ScanTypes, Fits, GoodRow
<1>9. ManualsApart'
  <2> SUFFICES ASSUME NEW v \in Workers, Busy(v)', op'[v].automatic
               PROVE  HandsOff(Left(v))'
    BY DEF ManualsApart
  <2>1. CASE v = w
    BY <1>1, <1>2, <1>5, <1>6, <2>1 DEF ManualsApart, HandsOff
  <2>2. CASE v # w
    BY <1>7, <2>2 DEF ManualsApart, HandsOff
  <2> QED
    BY <2>1, <2>2
<1>10. PromisesHold'
  <2>1. gone \subseteq gone' /\ (x.cell[1] = "event" /\ x.val = None => x.cell[2] \in gone')
    BY <1>1
  <2>2. ASSUME NEW p \in kept'
        PROVE  Promised({}, p)'
    <3>1. p \in Pushes /\ KindOf[p] \in Answered /\ Promised({}, p)
      BY <1>1 DEF PromisesHold
    <3>2. {} \subseteq {} \cup {x}
      OBVIOUS
    <3>3. StillPromised({}, p)
      BY <1>1, <1>2, <2>1, <3>1, <3>2, SavedPromise
    <3> QED
      BY <3>3 DEF StillPromised, Promised, Given
  <2>3. ASSUME NEW v \in Workers, Busy(v)', ~op'[v].lost,
               NEW p \in Pushes, p = op'[v].push, KindOf[p] \in Answered
        PROVE  Promised(Left(v), p)'
    <3>1. PICK U : U = Left(v)
      OBVIOUS
    <3>2. PICK Z : Z = Left(v)'
      OBVIOUS
    <3>3. Promised(U, p)
      <4>1. Promised(Left(v), p)
        BY <1>1, <1>5, <1>7, <2>3 DEF PromisesHold
      <4> QED
        BY <3>1, <4>1
    <3>4. U \subseteq Z \cup {x}
      BY <1>2, <1>6, <1>7, <3>1, <3>2
    <3>5. StillPromised(Z, p)
      BY <1>1, <1>2, <2>1, <2>3, <3>3, <3>4, SavedPromise
    <3> QED
      BY <3>2, <3>5 DEF StillPromised, Promised, Given
  <2> QED
    BY <1>1, <2>2, <2>3 DEF PromisesHold
<1>11. RunsReserved'
  <2> SUFFICES ASSUME NEW v \in Workers, Busy(v)'
               PROVE  /\ op'[v].runs \subseteq torn'
                      /\ \A y \in Left(v)', r \in Runs : Concerns(y, r) => r \in op'[v].runs
    BY DEF RunsReserved, Concerns
  <2>1. CASE v = w
    BY <1>1, <1>2, <1>5, <1>6, <2>1 DEF RunsReserved
  <2>2. CASE v # w
    BY <1>1, <1>7, <2>2 DEF RunsReserved
  <2> QED
    BY <2>1, <2>2
<1>12. AloneSettles'
  <2> SUFFICES ASSUME NEW v \in Workers, Busy(v)', op'[v].alone
               PROVE  /\ \A u \in Workers : u # v => ~Busy(u)'
                      /\ ~op'[v].lost => \A r \in op'[v].runs : Settles(Left(v), r)'
    BY DEF AloneSettles
  <2>1. v = w
    BY <1>1, <1>7 DEF AloneSettles
  <2>2. op[w].alone
    BY <1>5, <2>1
  <2>3. \A u \in Workers : u # v => ~Busy(u)'
    BY <1>1, <1>7, <2>1, <2>2 DEF AloneSettles
  <2>4. ASSUME ~op'[v].lost, NEW r \in op'[v].runs
        PROVE  Settles(Left(v), r)'
    <3>1. Settles(Left(w), r)
      BY <1>1, <1>5, <2>1, <2>2, <2>4 DEF AloneSettles
    <3>2. PICK z \in Pushes \cup {None} :
             /\ Ends(Left(w), <<"event", r>>, z)
             /\ z # None => \A c \in Controls : Ends(Left(w), <<"evidence", <<r, c>>>>, z)
      BY <3>1 DEF Settles
    <3>3. ASSUME NEW c \in Cells, Ends(Left(w), c, z)
          PROVE  Ends(Left(w), c, z)'
      <4>1. \A y \in R : y.cell = c => y.val = z
        BY <1>2, <3>3 DEF Ends
      <4>2. tab'[c] = z \/ \E y \in R : y.cell = c
        <5>1. CASE c = x.cell
          BY <1>2, <1>4, <3>3, <5>1 DEF Ends
        <5>2. CASE c # x.cell
          BY <1>2, <1>4, <3>3, <5>2 DEF Ends
        <5> QED
          BY <5>1, <5>2
      <4> QED
        BY <1>6, <4>1, <4>2 DEF Ends
    <3>4. r \in Runs
      BY <1>2, <1>5, <2>1, <2>4 DEF Handlers
    <3>5. <<"event", r>> \in Cells /\ \A c \in Controls : <<"evidence", <<r, c>>>> \in Cells
      BY <3>4 DEF Cells, Cached
    <3>6. Ends(Left(w), <<"event", r>>, z)'
      BY <3>2, <3>3, <3>5
    <3>7. z # None => \A c \in Controls : Ends(Left(w), <<"evidence", <<r, c>>>>, z)'
      BY <3>2, <3>3, <3>5
    <3> QED
      BY <2>1, <3>6, <3>7 DEF Settles
  <2> QED
    BY <2>3, <2>4
<1>13. EvidenceMatchesScan'
  <2> SUFFICES ASSUME NEW r \in Runs \ torn, tab'[<<"event", r>>] # None, NEW c \in Controls
               PROVE  tab'[<<"evidence", <<r, c>>>>] = tab'[<<"event", r>>]
    BY <1>1 DEF EvidenceMatchesScan
  <2>1. ~Concerns(x, r)
    BY <1>1, <1>2 DEF RunsReserved
  <2>2. x.cell # <<"event", r>> /\ x.cell # <<"evidence", <<r, c>>>>
    BY <2>1 DEF Concerns
  <2>3. <<"event", r>> \in Cells /\ <<"evidence", <<r, c>>>> \in Cells
    BY DEF Cells, Cached
  <2>4. /\ tab'[<<"event", r>>] = tab[<<"event", r>>]
        /\ tab'[<<"evidence", <<r, c>>>>] = tab[<<"evidence", <<r, c>>>>]
    BY <1>4, <2>2, <2>3
  <2> QED
    BY <2>4 DEF EvidenceMatchesScan
<1> QED
  BY <1>8, <1>9, <1>10, <1>11, <1>12, <1>13

LEMMA SaveFailsKeeps ==
    ASSUME ScanSound, NEW w \in Workers, SaveFails(w)
    PROVE  ScanSound'
<1>1. /\ Busy(w) /\ op[w].todo # <<>>
      /\ op' = [op EXCEPT ![w] = IF Due(w).guarded THEN Skipped(@) ELSE None]
      /\ UNCHANGED <<tab, mem, kept, torn, gone>>
  BY DEF SaveFails, Ready
<1>2. ScanTypes
  BY DEF ScanSound
<1>3. /\ op[w] \in Handlers /\ Tail(op[w].todo) \in Seq(ScanWrites)
      /\ Left(w) = {Due(w)} \cup ToSet(Tail(op[w].todo))
  BY <1>1, <1>2, DueIs
<1>4. ASSUME NEW v \in Workers, Busy(v)'
      PROVE  /\ Busy(v) /\ op'[v] \in Handlers /\ Left(v)' \subseteq Left(v)
             /\ op'[v].push = op[v].push /\ op'[v].automatic = op[v].automatic
             /\ op'[v].runs = op[v].runs /\ op'[v].alone = op[v].alone
             /\ ~op'[v].lost => ~op[v].lost /\ OnlySyncDropped(v)
  <2>1. CASE v = w
    <3>1. op'[w] = Skipped(op[w])
      BY <1>1, <1>2, <1>4, <2>1 DEF ScanTypes, Busy
    <3>2. /\ op'[w] \in Handlers
          /\ op'[w].push = op[w].push /\ op'[w].todo = Tail(op[w].todo)
          /\ op'[w].lost = (op[w].lost \/ Due(w).cell[1] # "sync")
          /\ op'[w].automatic = op[w].automatic
          /\ op'[w].runs = op[w].runs /\ op'[w].alone = op[w].alone
      BY <1>3, <3>1 DEF Handlers, Skipped, Due
    <3>3. Left(w)' = ToSet(Tail(op[w].todo))
      BY <3>2 DEF Left, ToSet
    <3> QED
      BY <1>1, <1>3, <2>1, <3>2, <3>3 DEF OnlySyncDropped
  <2>2. CASE v # w
    <3>1. op'[v] = op[v]
      BY <1>1, <1>2, <2>2 DEF ScanTypes
    <3>2. Busy(v)
      BY <1>4, <3>1 DEF Busy
    <3> QED
      BY <1>2, <3>1, <3>2, SameOp DEF ScanTypes, Busy, OnlySyncDropped
  <2> QED
    BY <2>1, <2>2
<1>5. mem' \in [Cached -> Vals] /\ \A c \in Cached : Fits(c, mem'[c])
  BY <1>1, <1>2 DEF ScanTypes
<1>6. op' = [v \in Workers |-> op'[v]]
  BY <1>1, <1>2 DEF ScanTypes
<1>7. \A v \in Workers : Busy(v)' =>
          /\ Busy(v) /\ op'[v] \in Handlers /\ Left(v)' \subseteq Left(v)
          /\ op'[v].push = op[v].push /\ op'[v].automatic = op[v].automatic
          /\ op'[v].runs = op[v].runs /\ op'[v].alone = op[v].alone
          /\ ~op'[v].lost => ~op[v].lost /\ OnlySyncDropped(v)
  BY <1>4
<1> QED
  BY <1>1, <1>5, <1>6, <1>7, QuietKeeps

LEMMA RestartKeeps ==
    ASSUME ScanSound, Restart
    PROVE  ScanSound'
<1>1. /\ mem' = [c \in Cached |-> tab[c]]
      /\ op' = [w \in Workers |-> None]
      /\ UNCHANGED <<tab, kept, torn, gone>>
  BY DEF Restart
<1>2. mem' \in [Cached -> Vals] /\ \A c \in Cached : Fits(c, mem'[c])
  <2>1. Cached \subseteq Cells
    BY DEF Cells
  <2> QED
    BY <1>1, <2>1 DEF ScanSound, ScanTypes
<1>3. op' = [v \in Workers |-> op'[v]] /\ \A v \in Workers : ~Busy(v)'
  BY <1>1 DEF Busy
<1> QED
  BY <1>1, <1>2, <1>3, QuietKeeps

LEMMA StutterKeeps ==
    ASSUME ScanSound, UNCHANGED <<tab, mem, op, kept, torn, gone>>
    PROVE  ScanSound'
<1>1. mem' \in [Cached -> Vals] /\ \A c \in Cached : Fits(c, mem'[c])
  BY DEF ScanSound, ScanTypes
<1>2. op' = [v \in Workers |-> op'[v]]
  BY DEF ScanSound, ScanTypes
<1>3. \A v \in Workers : Busy(v)' =>
          /\ Busy(v) /\ op'[v] \in Handlers /\ Left(v)' \subseteq Left(v)
          /\ op'[v].push = op[v].push /\ op'[v].automatic = op[v].automatic
          /\ op'[v].runs = op[v].runs /\ op'[v].alone = op[v].alone
          /\ ~op'[v].lost => ~op[v].lost /\ OnlySyncDropped(v)
  BY SameOp DEF ScanSound, ScanTypes, Busy, OnlySyncDropped
<1> QED
  BY <1>1, <1>2, <1>3, QuietKeeps

LEMMA AnswerKeeps ==
    ASSUME ScanSound, NEW w \in Workers, Answer(w)
    PROVE  ScanSound'
<1> USE DEF ScanSound
<1>1. /\ Busy(w) /\ op[w].todo = <<>>
      /\ kept' = IF ~op[w].lost
                 THEN kept \cup {p \in {op[w].push} \cap Pushes : KindOf[p] \in Answered}
                 ELSE kept
      /\ torn' = IF ~op[w].lost /\ op[w].alone THEN torn \ op[w].runs ELSE torn
      /\ op' = [op EXCEPT ![w] = None]
      /\ UNCHANGED <<tab, mem, gone>>
  BY DEF Answer, Answered, Scans
<1>2. Left(w) = {}
  BY <1>1, EmptyList DEF Left
<1>3. ASSUME NEW v \in Workers, Busy(v)'
      PROVE  v # w /\ op'[v] = op[v] /\ Left(v)' = Left(v) /\ Busy(v)
  <2>1. v # w
    BY <1>1, <1>3 DEF ScanTypes, Busy
  <2>2. op'[v] = op[v]
    BY <1>1, <2>1 DEF ScanTypes
  <2> QED
    BY <1>3, <2>1, <2>2, SameOp DEF Busy
<1>4. ScanTypes'
  <2>1. op' \in [Workers -> Handlers \cup {None}]
    BY <1>1 DEF ScanTypes
  <2> QED
    BY <1>1, <2>1 DEF ScanTypes, Fits, GoodRow
<1>5. ManualsApart'
  BY <1>3 DEF ManualsApart, HandsOff
<1>6. PromisesHold'
  <2>1. ASSUME NEW p \in kept'
        PROVE  p \in Pushes /\ KindOf[p] \in Answered /\ Promised({}, p)'
    <3>1. CASE p \in kept
      <4>1. p \in Pushes /\ KindOf[p] \in Answered /\ Promised({}, p)
        BY <3>1 DEF PromisesHold
      <4> QED
        BY <1>1, <4>1 DEF Promised, Given
    <3>2. CASE p \notin kept
      <4>1. ~op[w].lost /\ p = op[w].push /\ p \in Pushes /\ KindOf[p] \in Answered
        BY <1>1, <2>1, <3>2
      <4>2. Promised(Left(w), p)
        BY <1>1, <4>1 DEF PromisesHold
      <4>3. Promised({}, p)
        BY <1>2, <4>2
      <4> QED
        BY <1>1, <4>1, <4>3 DEF Promised, Given
    <3> QED
      BY <3>1, <3>2
  <2>2. ASSUME NEW v \in Workers, Busy(v)', ~op'[v].lost,
               NEW p \in Pushes, p = op'[v].push, KindOf[p] \in Answered
        PROVE  Promised(Left(v), p)'
    <3>1. Promised(Left(v), p)
      BY <1>3, <2>2 DEF PromisesHold
    <3> QED
      BY <1>1, <1>3, <2>2, <3>1 DEF Promised, Given
  <2> QED
    BY <2>1, <2>2 DEF PromisesHold
<1>7. RunsReserved'
  <2> SUFFICES ASSUME NEW v \in Workers, Busy(v)'
               PROVE  /\ op'[v].runs \subseteq torn'
                      /\ \A y \in Left(v)', r \in Runs : Concerns(y, r) => r \in op'[v].runs
    BY DEF RunsReserved, Concerns
  <2>1. ~op[w].alone
    BY <1>1, <1>3 DEF AloneSettles
  <2>2. torn' = torn
    BY <1>1, <2>1
  <2> QED
    BY <1>3, <2>2 DEF RunsReserved
<1>8. AloneSettles'
  <2> SUFFICES ASSUME NEW v \in Workers, Busy(v)', op'[v].alone
               PROVE  FALSE
    BY DEF AloneSettles
  <2> QED
    BY <1>1, <1>3 DEF AloneSettles
<1>9. EvidenceMatchesScan'
  <2> SUFFICES ASSUME NEW r \in Runs \ torn', tab[<<"event", r>>] # None, NEW c \in Controls
               PROVE  tab[<<"evidence", <<r, c>>>>] = tab[<<"event", r>>]
    BY <1>1 DEF EvidenceMatchesScan
  <2>1. CASE r \notin torn
    BY <2>1 DEF EvidenceMatchesScan
  <2>2. CASE r \in torn
    <3>1. ~op[w].lost /\ op[w].alone /\ r \in op[w].runs
      BY <1>1, <2>2
    <3>2. Settles({}, r)
      BY <1>1, <1>2, <3>1 DEF AloneSettles
    <3> QED
      BY <3>2 DEF Settles, Ends
  <2> QED
    BY <2>1, <2>2
<1> QED
  BY <1>4, <1>5, <1>6, <1>7, <1>8, <1>9

(***************************************************************************)
(* What the runs check, for every value of the constants                   *)
(***************************************************************************)

LEMMA ScanSoundInit == ScanInit => ScanSound
<1> SUFFICES ASSUME ScanInit PROVE ScanSound
  OBVIOUS
<1>1. /\ \A c \in Cells : tab[c] = None
      /\ \A c \in Cached : mem[c] = None
      /\ \A w \in Workers : ~Busy(w)
      /\ kept = {}
  BY DEF ScanInit, Busy
<1>2. ScanTypes
  <2>1. \A c : Fits(c, None)
    BY DEF Fits, GoodRow
  <2> QED
    BY <1>1, <2>1 DEF ScanTypes, ScanInit, Vals
<1>3. EvidenceMatchesScan
  <2>1. \A r \in Runs : <<"event", r>> \in Cells
    BY DEF Cells
  <2> QED
    BY <1>1, <2>1 DEF EvidenceMatchesScan
<1> QED
  BY <1>1, <1>2, <1>3 DEF ScanSound, ManualsApart, PromisesHold, RunsReserved, AloneSettles

LEMMA ScanSoundStep == ScanSound /\ [ScanNext]_scanVars => ScanSound'
<1> SUFFICES ASSUME ScanSound, [ScanNext]_scanVars PROVE ScanSound'
  OBVIOUS
<1>1. ASSUME NEW w \in Workers, NEW p \in Pushes, Ingest(w, p) PROVE ScanSound'
  BY <1>1, IngestKeeps
<1>2. ASSUME NEW w \in Workers, NEW r \in Runs, DeleteScan(w, r) PROVE ScanSound'
  BY <1>2, DeleteScanKeeps
<1>3. ASSUME NEW w \in Workers, NEW k \in ManualRows, AddRow(w, k) PROVE ScanSound'
  BY <1>3, AddRowKeeps
<1>4. ASSUME NEW w \in Workers, NEW k \in FlowKeys, ChangeRow(w, k) PROVE ScanSound'
  BY <1>4, ChangeRowKeeps
<1>5. ASSUME NEW w \in Workers, NEW k \in FlowKeys, DeleteRows(w, {k}) PROVE ScanSound'
  <2>1. {k} \in SUBSET FlowKeys
    OBVIOUS
  <2> QED
    BY <1>5, <2>1, DeleteRowsKeeps
<1>6. ASSUME NEW w \in Workers, DeleteRows(w, FlowKeys) PROVE ScanSound'
  BY <1>6, DeleteRowsKeeps
<1>7. ASSUME NEW w \in Workers, Backfill(w) PROVE ScanSound'
  BY <1>7, BackfillKeeps
<1>8. ASSUME NEW w \in Workers, SeedFromScan(w) PROVE ScanSound'
  BY <1>8, SeedKeeps
<1>9. ASSUME NEW w \in Workers, PutInMemory(w) PROVE ScanSound'
  BY <1>9, PutKeeps
<1>10. ASSUME NEW w \in Workers, Save(w) PROVE ScanSound'
  BY <1>10, SaveKeeps
<1>11. ASSUME NEW w \in Workers, SaveFails(w) PROVE ScanSound'
  BY <1>11, SaveFailsKeeps
<1>12. ASSUME NEW w \in Workers, Answer(w) PROVE ScanSound'
  BY <1>12, AnswerKeeps
<1>13. ASSUME NEW p \in Pushes, Forget(p) PROVE ScanSound'
  <2>1. UNCHANGED <<tab, mem, op, kept, torn, gone>>
    BY <1>13 DEF Forget
  <2> QED
    BY <2>1, StutterKeeps
<1>14. CASE Restart
  BY <1>14, RestartKeeps
<1>15. CASE UNCHANGED scanVars
  <2>1. UNCHANGED <<tab, mem, op, kept, torn, gone>>
    BY <1>15 DEF scanVars
  <2> QED
    BY <2>1, StutterKeeps
<1> QED
  BY <1>1, <1>2, <1>3, <1>4, <1>5, <1>6, <1>7, <1>8, <1>9, <1>10, <1>11, <1>12, <1>13,
     <1>14, <1>15 DEF ScanNext

(* In every behaviour the invariant holds: cells and list entries are of   *)
(* their tables, what is promised is stored or still to be written, and a  *)
(* handler alone leaves the evidence of its runs as the event says.        *)
THEOREM ScanIngestSound == ScanSpec => []ScanSound
<1>1. ScanInit => ScanSound
  BY ScanSoundInit
<1>2. ScanSound /\ [ScanNext]_scanVars => ScanSound'
  BY ScanSoundStep
<1> QED
  BY <1>1, <1>2, PTL DEF ScanSpec

(* A push answered with every step counted is in the tables whole          *)
(* (ingest_code_review, ingest_trivy, ingest_wazuh).                       *)
THEOREM AnswersAreTrue == ScanSpec => []AnswerIsTrue
<1>1. ScanSound => AnswerIsTrue
  <2> SUFFICES ASSUME ScanSound, NEW p \in kept
               PROVE  /\ \A f \in Found[p] : tab[<<"alert", f>>] # None
                      /\ KindOf[p] = "review" =>
                            /\ tab[<<"event", RunOf[p]>>] # None \/ RunOf[p] \in gone
                            /\ \A c \in Controls :
                                  tab[<<"evidence", <<RunOf[p], c>>>>] # None
    BY DEF AnswerIsTrue
  <2>1. p \in Pushes /\ Promised({}, p)
    BY DEF ScanSound, PromisesHold
  <2> QED
    BY <2>1 DEF Promised, Given
<1> QED
  BY <1>1, ScanIngestSound, PTL

(* The control evidence of a recorded scan is that of what its event       *)
(* records, when the last handler of the run ran alone and to its end      *)
(* (_promote_scan_to_controls, backfill-evidence).                         *)
THEOREM EvidenceFollowsScan == ScanSpec => []EvidenceMatchesScan
<1>1. ScanSound => EvidenceMatchesScan
  BY DEF ScanSound
<1> QED
  BY <1>1, ScanIngestSound, PTL

(* No scan slips new content under the confirmation of an officer          *)
(* (seed_rows_from_findings, the review and edit of a flow row).           *)
THEOREM ConfirmationsWereSeen == ScanSpec => []ConfirmedWasSeen
<1>1. ScanSound => ConfirmedWasSeen
  <2> SUFFICES ASSUME ScanSound, NEW k \in FlowKeys,
                      NEW row \in {mem[<<"flow", k>>], tab[<<"flow", k>>]},
                      row # None, row.status = "confirmed"
               PROVE  row.seenBy = row.by \/ row.by = Officer
    BY DEF ConfirmedWasSeen
  <2>1. <<"flow", k>> \in Cached /\ <<"flow", k>> \in Cells
    BY DEF Cached, Cells
  <2>2. Fits(<<"flow", k>>, row)
    BY <2>1 DEF ScanSound, ScanTypes
  <2>3. GoodRow(k, row)
    BY <2>2 DEF Fits
  <2> QED
    BY <2>3 DEF GoodRow
<1> QED
  BY <1>1, ScanIngestSound, PTL

(* A stored row that an officer added is written only by what an officer   *)
(* asks for (ingest_privacy_flow, ingest_code_review, seed-from-scan).     *)
THEOREM ManualRowsKept == ScanSpec => ManualKept
<1> DEFINE Kept == \A k \in ManualRows :
              LET c == <<"flow", k>>
              IN  tab[c] # None /\ tab'[c] # tab[c] =>
                    \E w \in Workers : Ready(w) /\ ~op[w].automatic /\ Due(w).cell = c
<1>1. ScanSound /\ [ScanNext]_scanVars => [Kept]_scanVars
  <2> SUFFICES ASSUME ScanSound, [ScanNext]_scanVars, NEW k \in ManualRows,
                      tab'[<<"flow", k>>] # tab[<<"flow", k>>]
               PROVE  \E w \in Workers :
                          Ready(w) /\ ~op[w].automatic /\ Due(w).cell = <<"flow", k>>
    BY DEF Kept
  <2>1. PICK w \in Workers : Save(w)
    BY DEF ScanNext, scanVars, Ingest, DeleteScan, AddRow, ChangeRow, DeleteRows, Backfill,
           SeedFromScan, StartHandler, PutInMemory, SaveFails, Answer, Forget, Restart
  <2>2. Ready(w) /\ tab' = [tab EXCEPT ![Due(w).cell] = Due(w).val]
    BY <2>1 DEF Save, Stored
  <2>3. Due(w).cell = <<"flow", k>>
    <3>1. <<"flow", k>> \in Cells
      BY DEF Cells, Cached, FlowKeys
    <3> QED
      BY <2>2, <3>1 DEF ScanSound, ScanTypes
  <2>4. ~op[w].automatic
    <3>1. Busy(w) /\ Due(w) \in Left(w)
      BY <2>2, DueIs DEF Ready, ScanSound
    <3> QED
      BY <2>3, <3>1 DEF ScanSound, ManualsApart, HandsOff
  <2> QED
    BY <2>2, <2>3, <2>4
<1> QED
  BY <1>1, ScanIngestSound, PTL DEF ScanSpec, ManualKept

-----------------------------------------------------------------------------
(***************************************************************************)
(* AssetIdentity: the invariant                                            *)
(***************************************************************************)

Subjects == [kind : {"state", "event"}, about : SUBSET Machines]
Recs == [of : Subjects, aliases : Seq(Aliases)]
Ids == Buckets \X {Slug[a] : a \in Aliases}
Ents == [kind : {"host", "alias", "row"}, of : Subjects \cup Aliases, id : Ids \cup {NoHost}]
Jobs == [source : Systems, todo : Seq(Recs), writes : Seq(Ents)]

(* A record that was listed: some tie has all its aliases, the first of    *)
(* them as identity, and it names every machine it is about.               *)
Tells(T, s, rec) ==
    /\ rec.aliases # <<>> => \E t \in T : /\ t.bucket = BucketOf[s] /\ t.first = rec.aliases[1]
                                          /\ ToSet(rec.aliases) \subseteq t.names
    /\ \A m \in rec.of.about : m \in Known(s) /\ Named[s][m][1] \in ToSet(rec.aliases)

(* The types, and that what is still to be mapped was listed.              *)
IdentityTypes ==
    /\ mapper \in [Ingesters -> [Buckets -> [Aliases -> Ids \cup {NoHost}]]]
    /\ job \in [Ingesters -> Jobs \cup {NoHost}]
    /\ aliasHost \in [Systems \X Aliases -> Ids \cup {NoHost}]
    /\ hostRows \subseteq [source : Systems, of : Subjects, id : Ids \cup {NoHost}]
    /\ ties = [r \in Ingesters |-> ties[r]]
    /\ \A r \in Ingesters : job[r] # NoHost =>
          \A rec \in ToSet(job[r].todo) : Tells(ties[r], job[r].source, rec)

(* A mapper knows of a name only what it was listed with in its life.      *)
MapFits ==
    \A r \in Ingesters, b \in Buckets, a \in Aliases :
        /\ mapper[r][b][a] # NoHost => mapper[r][b][a] \in TiedHosts(ties[r], b, a)
        /\ TiedHosts(ties[r], b, a) \subseteq tied[b][a]

(* The first name of a machine, its hosts, and that they are one.          *)
First(s, m) == Named[s][m][1]
Own(td, s, m) == td[BucketOf[s]][First(s, m)]
One(td, s, m) == \A i, j \in Own(td, s, m) : i = j

WriteFits(td, s, e) ==
    /\ e.kind = "alias" => e.of \in Aliases /\ e.id \in td[BucketOf[s]][e.of]
    /\ e.kind = "row" => /\ e.of \in Subjects
                         /\ \A m \in e.of.about : m \in Known(s) /\ e.id \in Own(td, s, m)

(* The host and the first alias of a row are saved, or come before it; the *)
(* alias may since belong to another host the machine was tied to.         *)
Laid(td, hs, ah, s, w, i) ==
    \A m \in w[i].of.about :
        /\ \/ w[i].id \in hs
           \/ \E j \in 1..(i - 1) : w[j].kind = "host" /\ w[j].id = w[i].id
        /\ One(td, s, m) =>
              \/ ah[<<s, First(s, m)>>] = w[i].id
              \/ \E j \in 1..(i - 1) : /\ w[j].kind = "alias" /\ w[j].id = w[i].id
                                       /\ w[j].of = First(s, m)

JobFits(td, hs, ah, s, w) ==
    \A i \in 1..Len(w) :
        WriteFits(td, s, w[i]) /\ (w[i].kind = "row" => Laid(td, hs, ah, s, w, i))

WritesFit ==
    \A r \in Ingesters : job[r] # NoHost =>
        JobFits(tied, hosts, aliasHost, job[r].source, job[r].writes)

RowFits(td, hs, ah, x) ==
    \A m \in x.of.about :
        /\ m \in Known(x.source)
        /\ x.id \in Own(td, x.source, m) /\ x.id \in hs
        /\ One(td, x.source, m) => ah[<<x.source, First(x.source, m)>>] = x.id

RowsFit == \A x \in hostRows : RowFits(tied, hosts, aliasHost, x)

(* The invariant.                                                          *)
IdentitySound == IdentityTypes /\ MapFits /\ WritesFit /\ RowsFit

-----------------------------------------------------------------------------
(* Names and what ties them                                                *)

LEMMA KnownIs ==
    ASSUME NEW s \in Systems, NEW m \in Known(s)
    PROVE  /\ m \in Machines /\ Named[s][m] \in Seq(Aliases) /\ Named[s][m] # <<>>
           /\ Len(Named[s][m]) \in Nat \ {0}
           /\ First(s, m) \in Aliases /\ First(s, m) \in ToSet(Named[s][m])
<1>1. m \in Machines /\ Named[s][m] \in Seq(Aliases) /\ Named[s][m] # <<>>
  BY NameAssumption DEF Known
<1>2. PICK t : t = Named[s][m]
  OBVIOUS
<1>3. t \in Seq(Aliases) /\ t # <<>>
  BY <1>1, <1>2
<1>4. Len(t) \in Nat \ {0} /\ 1 \in DOMAIN t /\ t[1] \in Aliases
  BY <1>3
<1>5. t[1] \in ToSet(t)
  BY <1>4 DEF ToSet
<1> QED
  BY <1>1, <1>2, <1>4, <1>5 DEF First

(* What was tied stays tied.                                               *)
LEMMA TiedGrows ==
    ASSUME NEW T, NEW T2, T \subseteq T2, NEW b, NEW a
    PROVE  TiedHosts(T, b, a) \subseteq TiedHosts(T2, b, a)
<1>1. \A c, x : Reached(T, c, x) \subseteq Reached(T2, c, x)
  <2> SUFFICES ASSUME NEW c, NEW x, NEW y \in Reached(T, c, x)
               PROVE  y \in Reached(T2, c, x)
    OBVIOUS
  <2>1. /\ y \in Aliases
        /\ \A S \in {S \in SUBSET Aliases :
              \A t \in T : t.bucket = c /\ t.names \cap S # {} => t.names \subseteq S} :
           x \in S => y \in S
    BY DEF Reached
  <2>2. \A S \in {S \in SUBSET Aliases :
              \A t \in T2 : t.bucket = c /\ t.names \cap S # {} => t.names \subseteq S} :
           x \in S => y \in S
    BY <2>1
  <2> QED
    BY <2>1, <2>2 DEF Reached
<1>2. \A c, x : OwnHosts(T, c, x) \subseteq OwnHosts(T2, c, x)
  <2> SUFFICES ASSUME NEW c, NEW x, NEW h \in OwnHosts(T, c, x)
               PROVE  h \in OwnHosts(T2, c, x)
    OBVIOUS
  <2>1. PICK t \in T : t.bucket = c /\ t.first \in Reached(T, c, x) /\ h = <<c, Slug[t.first]>>
    BY DEF OwnHosts
  <2>2. t \in T2 /\ t.first \in Reached(T2, c, x)
    BY <1>1, <2>1
  <2> QED
    BY <2>1, <2>2 DEF OwnHosts
<1>3. \A h \in UNION {OwnHosts(T, c, y) : c \in {"pc", "server"}, y \in Reached(T, b, a)} :
         h \in UNION {OwnHosts(T2, c, y) : c \in {"pc", "server"}, y \in Reached(T2, b, a)}
  <2> SUFFICES ASSUME NEW c \in {"pc", "server"}, NEW y \in Reached(T, b, a),
                      NEW h \in OwnHosts(T, c, y)
               PROVE  h \in UNION {OwnHosts(T2, d, z) : d \in {"pc", "server"},
                                                        z \in Reached(T2, b, a)}
    OBVIOUS
  <2>1. y \in Reached(T2, b, a) /\ h \in OwnHosts(T2, c, y)
    BY <1>1, <1>2
  <2> QED
    BY <2>1
<1> QED
  BY <1>2, <1>3 DEF TiedHosts

(* The names of one tie are tied to the same hosts, that of its identity   *)
(* among them; a neutral name also to those its names have as an asset.    *)
LEMMA TiedTogether ==
    ASSUME NEW T, NEW t \in T, NEW b, t.bucket = b,
           NEW a \in Aliases, NEW x \in Aliases, a \in t.names, x \in t.names
    PROVE  /\ TiedHosts(T, b, x) \subseteq TiedHosts(T, b, a)
           /\ x = t.first => <<b, Slug[x]>> \in TiedHosts(T, b, a)
           /\ b = "neutral" => \A c \in {"pc", "server"} :
                 TiedHosts(T, c, x) \subseteq TiedHosts(T, b, a)
<1> DEFINE closed == {S \in SUBSET Aliases :
                         \A u \in T : u.bucket = b /\ u.names \cap S # {} => u.names \subseteq S}
<1>1. \A z : Reached(T, b, z) = {y \in Aliases : \A S \in closed : z \in S => y \in S}
  BY DEF Reached
<1>2. \A S \in closed : a \in S => x \in S
  OBVIOUS
<1> HIDE DEF closed
<1>3. x \in Reached(T, b, a) /\ Reached(T, b, x) \subseteq Reached(T, b, a)
  BY <1>1, <1>2
<1>4. OwnHosts(T, b, x) \subseteq OwnHosts(T, b, a)
  <2> SUFFICES ASSUME NEW h \in OwnHosts(T, b, x)
               PROVE  h \in OwnHosts(T, b, a)
    OBVIOUS
  <2>1. PICK u \in T : u.bucket = b /\ u.first \in Reached(T, b, x) /\ h = <<b, Slug[u.first]>>
    BY DEF OwnHosts
  <2>2. u.first \in Reached(T, b, a)
    BY <1>3, <2>1
  <2> QED
    BY <2>1, <2>2 DEF OwnHosts
<1>5. x = t.first => <<b, Slug[x]>> \in OwnHosts(T, b, a)
  BY <1>3 DEF OwnHosts
<1> DEFINE Bridged(z) == UNION {OwnHosts(T, c, y) : c \in {"pc", "server"}, y \in Reached(T, b, z)}
<1>6. Bridged(x) \subseteq Bridged(a)
  <2> SUFFICES ASSUME NEW c \in {"pc", "server"}, NEW y \in Reached(T, b, x),
                      NEW h \in OwnHosts(T, c, y)
               PROVE  h \in Bridged(a)
    OBVIOUS
  <2>1. y \in Reached(T, b, a)
    BY <1>3
  <2> QED
    BY <2>1
<1>7. \A c \in {"pc", "server"} : OwnHosts(T, c, x) \subseteq Bridged(a)
  BY <1>3
<1>8. \A z : TiedHosts(T, b, z) = IF b = "neutral" THEN OwnHosts(T, b, z) \cup Bridged(z)
                                  ELSE OwnHosts(T, b, z)
  BY DEF TiedHosts
<1>9. \A c \in {"pc", "server"} : TiedHosts(T, c, x) = OwnHosts(T, c, x)
  BY DEF TiedHosts
<1> HIDE DEF Bridged
<1> QED
  BY <1>4, <1>5, <1>6, <1>7, <1>8, <1>9

LEMMA TellsGrows ==
    ASSUME NEW T, NEW T2, T \subseteq T2, NEW s, NEW rec, Tells(T, s, rec)
    PROVE  Tells(T2, s, rec)
BY DEF Tells

-----------------------------------------------------------------------------
(* Sequences of sequences                                                  *)

(* A set of numbers has a least one.                                       *)
LEMMA LeastOf ==
    ASSUME NEW T \in SUBSET Nat, T # {}
    PROVE  \E m \in T : \A x \in T : m <= x
<1> DEFINE Less == {ss \in Nat \X Nat : ss[1] < ss[2]}
<1>1. IsWellFoundedOn(Less, Nat)
  <2>1. Less = OpToRel(<, Nat)
    BY DEF OpToRel
  <2> QED
    BY <2>1, NatLessThanWellFounded
<1>2. \A x, y \in Nat : x < y => <<x, y>> \in Less
  OBVIOUS
<1> HIDE DEF Less
<1>3. PICK m \in T : \A x \in T : <<x, m>> \notin Less
  BY <1>1, WFMin
<1>4. \A x \in T : x \in Nat /\ m \in Nat /\ ~(x < m)
  BY <1>2, <1>3
<1> QED
  BY <1>4

(* Concatenation from left to right.                                       *)
Joins(f, seqs, n) == f = [i \in 1..n |-> IF i = 1 THEN seqs[i] ELSE f[i - 1] \o seqs[i]]

LEMMA ConcatTwo ==
    ASSUME NEW S, NEW u \in Seq(S), NEW v \in Seq(S)
    PROVE  /\ u \o v \in Seq(S) /\ ToSet(u \o v) = ToSet(u) \cup ToSet(v)
           /\ u # <<>> => u \o v # <<>> /\ (u \o v)[1] = u[1]
<1>1. /\ u \o v \in Seq(S) /\ Len(u \o v) = Len(u) + Len(v)
      /\ \A i \in 1..(Len(u) + Len(v)) :
            (u \o v)[i] = IF i <= Len(u) THEN u[i] ELSE v[i - Len(u)]
  BY ConcatProperties
<1>2. ToSet(u \o v) \subseteq ToSet(u) \cup ToSet(v)
  <2> SUFFICES ASSUME NEW i \in 1..Len(u \o v) PROVE (u \o v)[i] \in ToSet(u) \cup ToSet(v)
    BY <1>1 DEF ToSet
  <2>1. CASE i <= Len(u)
    BY <1>1, <2>1 DEF ToSet
  <2>2. CASE ~(i <= Len(u))
    <3>1. i - Len(u) \in 1..Len(v)
      BY <1>1, <2>2
    <3> QED
      BY <1>1, <2>2, <3>1 DEF ToSet
  <2> QED
    BY <2>1, <2>2
<1>3. ToSet(u) \subseteq ToSet(u \o v)
  <2> SUFFICES ASSUME NEW i \in 1..Len(u) PROVE u[i] \in ToSet(u \o v)
    BY DEF ToSet
  <2>1. i \in 1..Len(u \o v) /\ (u \o v)[i] = u[i]
    BY <1>1
  <2> QED
    BY <1>1, <2>1 DEF ToSet
<1>4. ToSet(v) \subseteq ToSet(u \o v)
  <2> SUFFICES ASSUME NEW i \in 1..Len(v) PROVE v[i] \in ToSet(u \o v)
    BY DEF ToSet
  <2>1. PICK k \in 1..Len(u \o v) : k = Len(u) + i
    BY <1>1
  <2>2. (u \o v)[k] = v[i]
    BY <1>1, <2>1
  <2> QED
    BY <1>1, <2>2 DEF ToSet
<1>5. ASSUME u # <<>> PROVE u \o v # <<>> /\ (u \o v)[1] = u[1]
  <2>1. Len(u) >= 1
    BY <1>5
  <2>2. 1 \in 1..(Len(u) + Len(v)) /\ Len(u \o v) # 0
    BY <1>1, <2>1
  <2> QED
    BY <1>1, <2>1, <2>2
<1> QED
  BY <1>1, <1>2, <1>3, <1>4, <1>5

(* The first n sequences can be concatenated.                              *)
LEMMA JoinsExist ==
    ASSUME NEW S, NEW n \in Nat \ {0}, NEW seqs \in [1..n -> Seq(S)]
    PROVE  \E f : Joins(f, seqs, n)
<1> DEFINE Bad == {k \in 1..n : \A f \in [1..k -> Seq(S)] : ~Joins(f, seqs, k)}
<1>1. SUFFICES Bad = {}
  <2>1. n \in 1..n
    OBVIOUS
  <2> QED
    BY <1>1, <2>1
<1>2. SUFFICES ASSUME Bad # {} PROVE FALSE
  OBVIOUS
<1>3. PICK k \in Bad : \A x \in Bad : k <= x
  <2>1. Bad \in SUBSET Nat
    OBVIOUS
  <2> HIDE DEF Bad
  <2> QED
    BY <1>2, <2>1, LeastOf
<1>4. k \in 1..n /\ \A f \in [1..k -> Seq(S)] : ~Joins(f, seqs, k)
  OBVIOUS
<1>5. CASE k = 1
  <2> DEFINE g == [i \in 1..1 |-> seqs[i]]
  <2>1. g \in [1..1 -> Seq(S)]
    OBVIOUS
  <2>2. Joins(g, seqs, 1)
    BY DEF Joins
  <2> QED
    BY <1>4, <1>5, <2>1, <2>2
<1>6. CASE k # 1
  <2>1. k - 1 \in 1..n /\ k - 1 \notin Bad
    BY <1>3, <1>4, <1>6
  <2>2. PICK f \in [1..(k - 1) -> Seq(S)] : Joins(f, seqs, k - 1)
    BY <2>1
  <2> DEFINE g == [i \in 1..k |-> IF i = k THEN f[k - 1] \o seqs[k] ELSE f[i]]
  <2>3. g \in [1..k -> Seq(S)]
    <3>1. f[k - 1] \in Seq(S) /\ seqs[k] \in Seq(S)
      BY <1>4, <2>1
    <3>2. f[k - 1] \o seqs[k] \in Seq(S)
      BY <3>1
    <3>3. \A i \in 1..k : i # k => f[i] \in Seq(S)
      BY <1>4
    <3> QED
      BY <3>2, <3>3
  <2>4. \A i \in 1..k : g[i] = IF i = 1 THEN seqs[i] ELSE g[i - 1] \o seqs[i]
    <3> SUFFICES ASSUME NEW i \in 1..k
                 PROVE  g[i] = IF i = 1 THEN seqs[i] ELSE g[i - 1] \o seqs[i]
      OBVIOUS
    <3>1. CASE i = k
      <4>1. g[i - 1] = f[k - 1] /\ i # 1
        BY <1>4, <1>6, <3>1
      <4>2. g[i] = f[k - 1] \o seqs[k]
        BY <3>1
      <4> QED
        BY <3>1, <4>1, <4>2
    <3>2. CASE i # k
      <4>1. i \in 1..(k - 1) /\ g[i] = f[i]
        BY <1>4, <3>2
      <4>2. f[i] = IF i = 1 THEN seqs[i] ELSE f[i - 1] \o seqs[i]
        BY <2>2, <4>1 DEF Joins
      <4>3. i # 1 => g[i - 1] = f[i - 1]
        BY <1>4, <4>1
      <4> QED
        BY <4>1, <4>2, <4>3
    <3> QED
      BY <3>1, <3>2
  <2>5. g = [i \in 1..k |-> IF i = 1 THEN seqs[i] ELSE g[i - 1] \o seqs[i]]
    <3>1. DOMAIN g = 1..k /\ g = [i \in 1..k |-> g[i]]
      OBVIOUS
    <3> HIDE DEF g
    <3> QED
      BY <2>4, <3>1
  <2> HIDE DEF g
  <2> QED
    BY <1>4, <2>3, <2>5 DEF Joins
<1> QED
  BY <1>5, <1>6

(* What FlattenSeq gives: all that is in the sequences, the first of the   *)
(* first one at the head.                                                  *)
LEMMA FlattenIs ==
    ASSUME NEW S, NEW n \in Nat, NEW seqs \in [1..n -> Seq(S)], NEW t, t = FlattenSeq(seqs)
    PROVE  /\ n = 0 => t = <<>>
           /\ t \in Seq(S) /\ ToSet(t) = UNION {ToSet(seqs[i]) : i \in 1..n}
           /\ n # 0 /\ seqs[1] # <<>> => t # <<>> /\ t[1] = seqs[1][1]
<1>1. Len(seqs) = n
  OBVIOUS
<1>2. CASE n = 0
  <2>1. t = <<>>
    BY <1>1, <1>2 DEF FlattenSeq
  <2> QED
    BY <1>2, <2>1 DEF ToSet
<1>3. CASE n # 0
  <2>1. PICK f : Joins(f, seqs, n) /\ t = f[n]
    <3> DEFINE P(g) == g = [i \in 1..n |-> IF i = 1 THEN seqs[i] ELSE g[i - 1] \o seqs[i]]
    <3>1. P(CHOOSE g : P(g))
      <4>1. PICK f : Joins(f, seqs, n)
        BY <1>3, JoinsExist
      <4>2. P(f)
        BY <4>1 DEF Joins
      <4> HIDE DEF P
      <4> QED
        BY <4>2
    <3>2. t = (CHOOSE g : P(g))[n]
      BY <1>1, <1>3, Zenon DEF FlattenSeq
    <3> QED
      BY <3>1, <3>2 DEF Joins
  <2>2. \A i \in 1..n : f[i] = IF i = 1 THEN seqs[i] ELSE f[i - 1] \o seqs[i]
    BY <2>1 DEF Joins
  <2> DEFINE Good(k) == /\ f[k] \in Seq(S) /\ ToSet(f[k]) = UNION {ToSet(seqs[i]) : i \in 1..k}
                        /\ seqs[1] # <<>> => f[k] # <<>> /\ f[k][1] = seqs[1][1]
             Bad == {k \in 1..n : ~Good(k)}
  <2>3. Bad = {}
    <3>1. SUFFICES ASSUME Bad # {} PROVE FALSE
      OBVIOUS
    <3>2. PICK k \in Bad : \A x \in Bad : k <= x
      <4>1. Bad \in SUBSET Nat
        OBVIOUS
      <4> HIDE DEF Bad
      <4> QED
        BY <3>1, <4>1, LeastOf
    <3>3. k \in 1..n /\ ~Good(k)
      OBVIOUS
    <3>4. CASE k = 1
      <4>1. f[1] = seqs[1] /\ seqs[1] \in Seq(S)
        BY <1>3, <2>2
      <4>2. UNION {ToSet(seqs[i]) : i \in 1..1} = ToSet(seqs[1])
        OBVIOUS
      <4> QED
        BY <3>3, <3>4, <4>1, <4>2
    <3>5. CASE k # 1
      <4>1. k - 1 \in 1..n /\ ~(k <= k - 1)
        BY <3>3, <3>5
      <4>2. Good(k - 1)
        <5> HIDE DEF Good
        <5> QED
          BY <3>2, <4>1
      <4>3. f[k] = f[k - 1] \o seqs[k] /\ seqs[k] \in Seq(S)
        BY <2>2, <3>3, <3>5
      <4>4. /\ f[k] \in Seq(S) /\ ToSet(f[k]) = ToSet(f[k - 1]) \cup ToSet(seqs[k])
            /\ f[k - 1] # <<>> => f[k] # <<>> /\ f[k][1] = f[k - 1][1]
        BY <4>2, <4>3, ConcatTwo
      <4>5. UNION {ToSet(seqs[i]) : i \in 1..k}
              = (UNION {ToSet(seqs[i]) : i \in 1..(k - 1)}) \cup ToSet(seqs[k])
        <5> DEFINE I == 1..k
                   J == 1..(k - 1)
        <5>1. \A i : i \in I <=> i \in J \/ i = k
          BY <3>3, <3>5
        <5> HIDE DEF I, J
        <5>2. \A x : (\E i \in I : x \in ToSet(seqs[i]))
                       <=> (\E i \in J : x \in ToSet(seqs[i])) \/ x \in ToSet(seqs[k])
          BY <5>1
        <5>3. UNION {ToSet(seqs[i]) : i \in I}
                = (UNION {ToSet(seqs[i]) : i \in J}) \cup ToSet(seqs[k])
          BY <5>2
        <5> QED
          BY <5>3 DEF I, J
      <4> QED
        BY <3>3, <4>2, <4>4, <4>5
    <3> QED
      BY <3>4, <3>5
  <2>4. Good(n)
    <3>1. n \in 1..n
      BY <1>3
    <3> HIDE DEF Good
    <3> QED
      BY <2>3, <3>1
  <2> QED
    BY <1>3, <2>1, <2>4
<1> QED
  BY <1>2, <1>3

-----------------------------------------------------------------------------
(* The operators of the mapper                                             *)

(* A host that is found is that of one of the aliases.                     *)
LEMMA FoundIs ==
    ASSUME NEW map, NEW b, NEW list \in Seq(Aliases), FindBucketHost(map, b, list) # NoHost
    PROVE  \E a \in ToSet(list) : /\ a \in Aliases /\ map[b][a] # NoHost
                                  /\ FindBucketHost(map, b, list) = map[b][a]
<1> DEFINE hit == {i \in 1..Len(list) : map[b][list[i]] # NoHost}
<1>1. FindBucketHost(map, b, list) = IF hit = {} THEN NoHost ELSE map[b][list[Min(hit)]]
  BY DEF FindBucketHost
<1>2. hit # {} /\ hit \in SUBSET Nat
  BY <1>1
<1> HIDE DEF hit
<1>3. Min(hit) \in hit
  BY <1>2, LeastOf DEF Min
<1>4. PICK i \in 1..Len(list) : i = Min(hit) /\ map[b][list[i]] # NoHost
  BY <1>3 DEF hit
<1>5. list[i] \in Aliases /\ list[i] \in ToSet(list)
  BY <1>4 DEF ToSet
<1> QED
  BY <1>1, <1>2, <1>4, <1>5

(* A host that is bridged to is that of one of the names in a bucket of    *)
(* assets.                                                                 *)
LEMMA BridgeIs ==
    ASSUME NEW map, NEW list \in Seq(Aliases), Bridge(map, list) # NoHost
    PROVE  \E b \in {"pc", "server"}, a \in ToSet(list) :
              /\ a \in Aliases /\ map[b][a] # NoHost
              /\ Bridge(map, list) = map[b][a]
<1> DEFINE ids == {map[b][a] : b \in {"pc", "server"}, a \in ToSet(list)} \ {NoHost}
<1>1. Bridge(map, list) = IF Cardinality(ids) = 1 THEN CHOOSE id \in ids : TRUE ELSE NoHost
  BY DEF Bridge
<1>2. Cardinality(ids) = 1
  BY <1>1
<1>3. ids # {}
  <2> SUFFICES ASSUME ids = {} PROVE FALSE
    OBVIOUS
  <2> HIDE DEF ids
  <2>1. Cardinality(ids) = 0
    BY FS_EmptySet
  <2> QED
    BY <1>2, <2>1
<1>4. Bridge(map, list) \in ids
  <2> HIDE DEF ids
  <2> QED
    BY <1>1, <1>2, <1>3
<1>5. ToSet(list) \subseteq Aliases
  BY DEF ToSet
<1> QED
  BY <1>4, <1>5

LEMMA ResolvedIsId ==
    ASSUME NEW map \in [Buckets -> [Aliases -> Ids \cup {NoHost}]], NEW b \in Buckets,
           NEW list \in Seq(Aliases)
    PROVE  /\ Resolve(map, b, list) \in Ids \cup {NoHost}
           /\ list = <<>> => Resolve(map, b, list) = NoHost
<1> DEFINE found == FindBucketHost(map, b, list)
           bridged == IF b = "neutral" THEN Bridge(map, list) ELSE NoHost
<1>1. \A c \in Buckets, a \in Aliases : map[c][a] \in Ids \cup {NoHost}
  OBVIOUS
<1>2. Resolve(map, b, list) = IF list = <<>> THEN NoHost
                              ELSE IF found # NoHost THEN found
                              ELSE IF bridged # NoHost THEN bridged
                              ELSE ScopedHostId(b, list)
  BY DEF Resolve
<1>3. found # NoHost => found \in Ids
  BY <1>1, FoundIs
<1>4. bridged # NoHost => bridged \in Ids
  <2>1. Bridge(map, list) # NoHost => Bridge(map, list) \in Ids
    BY <1>1, BridgeIs DEF Buckets
  <2> QED
    BY <2>1
<1>5. list # <<>> => ScopedHostId(b, list) \in Ids
  <2>1. list # <<>> => list[1] \in Aliases
    OBVIOUS
  <2> QED
    BY <2>1 DEF ScopedHostId, Ids
<1> HIDE DEF found, bridged
<1> QED
  BY <1>2, <1>3, <1>4, <1>5

(* A record that was listed is put on a host that all its aliases are tied *)
(* to, whatever the mapper has been told before and in which order         *)
(* (_resolve_host_id).                                                     *)
LEMMA ResolvedIsTied ==
    ASSUME MapFits, NEW r \in Ingesters, NEW s \in Systems,
           NEW rec \in Recs, Tells(ties[r], s, rec), NEW a \in ToSet(rec.aliases)
    PROVE  Resolve(mapper[r], BucketOf[s], rec.aliases) \in TiedHosts(ties[r], BucketOf[s], a)
<1>1. PICK T, b, map, list : T = ties[r] /\ b = BucketOf[s] /\ map = mapper[r]
                             /\ list = rec.aliases
  OBVIOUS
<1> DEFINE found == FindBucketHost(map, b, list)
           bridged == IF b = "neutral" THEN Bridge(map, list) ELSE NoHost
<1>2. list \in Seq(Aliases) /\ b \in Buckets
  BY <1>1, NameAssumption DEF Recs
<1>3. list # <<>> /\ ToSet(list) \subseteq Aliases /\ list[1] \in ToSet(list)
  <2>1. list # <<>>
    BY <1>1 DEF ToSet
  <2> QED
    BY <1>2, <2>1 DEF ToSet
<1>4. PICK t \in T : t.bucket = b /\ t.first = list[1] /\ ToSet(list) \subseteq t.names
  BY <1>1, <1>3 DEF Tells
<1>5. \A c \in Buckets, x \in Aliases : map[c][x] # NoHost => map[c][x] \in TiedHosts(T, c, x)
  BY <1>1 DEF MapFits
<1>6. a \in ToSet(list) /\ a \in Aliases
  BY <1>1, <1>3
<1>7. \A x \in ToSet(list) :
         /\ TiedHosts(T, b, x) \subseteq TiedHosts(T, b, a)
         /\ x = t.first => <<b, Slug[x]>> \in TiedHosts(T, b, a)
         /\ b = "neutral" => \A c \in {"pc", "server"} :
               TiedHosts(T, c, x) \subseteq TiedHosts(T, b, a)
  <2> SUFFICES ASSUME NEW x \in ToSet(list)
               PROVE  /\ TiedHosts(T, b, x) \subseteq TiedHosts(T, b, a)
                      /\ x = t.first => <<b, Slug[x]>> \in TiedHosts(T, b, a)
                      /\ b = "neutral" => \A c \in {"pc", "server"} :
                            TiedHosts(T, c, x) \subseteq TiedHosts(T, b, a)
    OBVIOUS
  <2>1. x \in Aliases /\ x \in t.names /\ a \in t.names
    BY <1>3, <1>4, <1>6
  <2> QED
    BY <1>4, <1>6, <2>1, TiedTogether
<1>8. Resolve(map, b, list) = IF found # NoHost THEN found
                              ELSE IF bridged # NoHost THEN bridged
                              ELSE ScopedHostId(b, list)
  BY <1>3 DEF Resolve
<1>9. found # NoHost => found \in TiedHosts(T, b, a)
  <2> SUFFICES ASSUME found # NoHost PROVE found \in TiedHosts(T, b, a)
    OBVIOUS
  <2>1. PICK x \in ToSet(list) : x \in Aliases /\ map[b][x] # NoHost /\ found = map[b][x]
    BY <1>2, FoundIs
  <2>2. found \in TiedHosts(T, b, x)
    BY <1>2, <1>5, <2>1
  <2> QED
    BY <1>7, <2>2
<1>10. bridged # NoHost => bridged \in TiedHosts(T, b, a)
  <2> SUFFICES ASSUME bridged # NoHost PROVE bridged \in TiedHosts(T, b, a)
    OBVIOUS
  <2>1. b = "neutral" /\ bridged = Bridge(map, list)
    OBVIOUS
  <2>2. PICK c \in {"pc", "server"}, x \in ToSet(list) :
           x \in Aliases /\ map[c][x] # NoHost /\ bridged = map[c][x]
    BY <1>2, <2>1, BridgeIs
  <2>3. bridged \in TiedHosts(T, c, x)
    BY <1>5, <2>2 DEF Buckets
  <2> QED
    BY <1>7, <2>1, <2>2, <2>3
<1>11. ScopedHostId(b, list) \in TiedHosts(T, b, a)
  BY <1>3, <1>4, <1>7 DEF ScopedHostId
<1> HIDE DEF found, bridged
<1>12. Resolve(map, b, list) \in TiedHosts(T, b, a)
  BY <1>8, <1>9, <1>10, <1>11
<1> QED
  BY <1>1, <1>12

-----------------------------------------------------------------------------
(* What a step leaves: hosts are added and tied, and an alias changes its  *)
(* host only for one that it is tied to.                                   *)

Grows(td, hs, ah, td2, hs2, ah2) ==
    /\ hs \subseteq hs2
    /\ \A b \in Buckets, a \in Aliases : td[b][a] \subseteq td2[b][a]
    /\ \A s \in Systems, a \in Aliases :
          ah2[<<s, a>>] = ah[<<s, a>>] \/ ah2[<<s, a>>] \in td2[BucketOf[s]][a]

LEMMA OwnGrows ==
    ASSUME NEW td, NEW hs, NEW ah, NEW td2, NEW hs2, NEW ah2, Grows(td, hs, ah, td2, hs2, ah2),
           NEW s \in Systems, NEW m \in Known(s)
    PROVE  /\ Own(td, s, m) \subseteq Own(td2, s, m)
           /\ One(td2, s, m) => One(td, s, m)
           /\ One(td2, s, m) => \A id \in Own(td, s, m) :
                 ah[<<s, First(s, m)>>] = id => ah2[<<s, First(s, m)>>] = id
<1>1. PICK a, b : a = First(s, m) /\ b = BucketOf[s]
  OBVIOUS
<1>2. a \in Aliases /\ b \in Buckets
  BY <1>1, KnownIs, NameAssumption
<1>3. Own(td, s, m) = td[b][a] /\ Own(td2, s, m) = td2[b][a] /\ td[b][a] \subseteq td2[b][a]
  BY <1>1, <1>2 DEF Own, Grows
<1>4. ah2[<<s, a>>] = ah[<<s, a>>] \/ ah2[<<s, a>>] \in td2[b][a]
  BY <1>1, <1>2 DEF Grows
<1> QED
  BY <1>1, <1>3, <1>4 DEF One

LEMMA WriteStillFits ==
    ASSUME NEW td, NEW hs, NEW ah, NEW td2, NEW hs2, NEW ah2, Grows(td, hs, ah, td2, hs2, ah2),
           NEW s \in Systems, NEW e, WriteFits(td, s, e)
    PROVE  WriteFits(td2, s, e)
<1>1. e.kind = "alias" => e.of \in Aliases /\ e.id \in td2[BucketOf[s]][e.of]
  BY NameAssumption DEF Grows, WriteFits
<1>2. e.kind = "row" => \A m \in e.of.about : m \in Known(s) /\ e.id \in Own(td2, s, m)
  BY OwnGrows DEF WriteFits
<1> QED
  BY <1>1, <1>2 DEF WriteFits

LEMMA RowStillFits ==
    ASSUME NEW td, NEW hs, NEW ah, NEW td2, NEW hs2, NEW ah2, Grows(td, hs, ah, td2, hs2, ah2),
           NEW x, x.source \in Systems, RowFits(td, hs, ah, x)
    PROVE  RowFits(td2, hs2, ah2, x)
<1> SUFFICES ASSUME NEW m \in x.of.about
             PROVE  /\ m \in Known(x.source)
                    /\ x.id \in Own(td2, x.source, m) /\ x.id \in hs2
                    /\ One(td2, x.source, m) => ah2[<<x.source, First(x.source, m)>>] = x.id
  BY DEF RowFits
<1>1. /\ m \in Known(x.source) /\ x.id \in Own(td, x.source, m) /\ x.id \in hs
      /\ One(td, x.source, m) => ah[<<x.source, First(x.source, m)>>] = x.id
  BY DEF RowFits
<1>2. x.id \in hs2
  BY <1>1 DEF Grows
<1> QED
  BY <1>1, <1>2, OwnGrows

LEMMA JobStillFits ==
    ASSUME NEW td, NEW hs, NEW ah, NEW td2, NEW hs2, NEW ah2, Grows(td, hs, ah, td2, hs2, ah2),
           NEW s \in Systems, NEW w, JobFits(td, hs, ah, s, w)
    PROVE  JobFits(td2, hs2, ah2, s, w)
<1> SUFFICES ASSUME NEW i \in 1..Len(w)
             PROVE  /\ WriteFits(td2, s, w[i])
                    /\ w[i].kind = "row" => Laid(td2, hs2, ah2, s, w, i)
  BY DEF JobFits
<1>1. WriteFits(td, s, w[i]) /\ (w[i].kind = "row" => Laid(td, hs, ah, s, w, i))
  BY DEF JobFits
<1>2. WriteFits(td2, s, w[i])
  BY <1>1, WriteStillFits
<1>3. ASSUME w[i].kind = "row", NEW m \in w[i].of.about
      PROVE  /\ \/ w[i].id \in hs2
                \/ \E j \in 1..(i - 1) : w[j].kind = "host" /\ w[j].id = w[i].id
             /\ One(td2, s, m) =>
                   \/ ah2[<<s, First(s, m)>>] = w[i].id
                   \/ \E j \in 1..(i - 1) : /\ w[j].kind = "alias" /\ w[j].id = w[i].id
                                            /\ w[j].of = First(s, m)
  <2>1. m \in Known(s) /\ w[i].id \in Own(td, s, m)
    BY <1>1, <1>3 DEF WriteFits
  <2>2. /\ \/ w[i].id \in hs
           \/ \E j \in 1..(i - 1) : w[j].kind = "host" /\ w[j].id = w[i].id
        /\ One(td, s, m) =>
              \/ ah[<<s, First(s, m)>>] = w[i].id
              \/ \E j \in 1..(i - 1) : /\ w[j].kind = "alias" /\ w[j].id = w[i].id
                                       /\ w[j].of = First(s, m)
    BY <1>1, <1>3 DEF Laid
  <2>3. hs \subseteq hs2
    BY DEF Grows
  <2>4. /\ One(td2, s, m) => One(td, s, m)
        /\ One(td2, s, m) /\ ah[<<s, First(s, m)>>] = w[i].id => ah2[<<s, First(s, m)>>] = w[i].id
    BY <2>1, OwnGrows
  <2> QED
    BY <2>2, <2>3, <2>4
<1> QED
  BY <1>2, <1>3 DEF Laid

LEMMA SameGrows ==
    ASSUME NEW td, NEW td2, NEW hs, NEW ah,
           \A b \in Buckets, a \in Aliases : td[b][a] \subseteq td2[b][a]
    PROVE  Grows(td, hs, ah, td2, hs, ah)
BY DEF Grows

(* A step that saves nothing keeps the rows and what the others will save. *)
LEMMA OthersKept ==
    ASSUME IdentitySound, UNCHANGED <<hosts, aliasHost, hostRows>>,
           \A b \in Buckets, a \in Aliases : tied[b][a] \subseteq tied'[b][a]
    PROVE  /\ RowsFit'
           /\ \A q \in Ingesters : job[q] # NoHost =>
                 JobFits(tied', hosts', aliasHost', job[q].source, job[q].writes)
<1>1. WritesFit /\ RowsFit /\ IdentityTypes
  BY DEF IdentitySound
<1>2. Grows(tied, hosts, aliasHost, tied', hosts', aliasHost')
  BY SameGrows
<1>3. ASSUME NEW x \in hostRows PROVE RowFits(tied', hosts', aliasHost', x)
  <2>1. x.source \in Systems
    BY <1>1 DEF IdentityTypes
  <2> QED
    BY <1>1, <1>2, <2>1, RowStillFits DEF RowsFit
<1>4. ASSUME NEW q \in Ingesters, job[q] # NoHost
      PROVE  JobFits(tied', hosts', aliasHost', job[q].source, job[q].writes)
  <2>1. JobFits(tied, hosts, aliasHost, job[q].source, job[q].writes)
    BY <1>1, <1>4 DEF WritesFit
  <2>2. job[q].source \in Systems
    BY <1>1, <1>4 DEF IdentityTypes, Jobs
  <2> QED
    BY <1>2, <2>1, <2>2, JobStillFits
<1> QED
  BY <1>3, <1>4 DEF RowsFit

-----------------------------------------------------------------------------
(* A collection begins                                                     *)

LEMMA SetOf ==
    ASSUME NEW S, NEW n \in Nat, NEW t \in [1..n -> S]
    PROVE  t \in Seq(S) /\ ToSet(t) = {t[i] : i \in 1..n}
BY DEF ToSet

(* What a collection begins with, and what it lists, is all it disturbs.   *)
LEMMA BatchKeeps ==
    ASSUME IdentitySound, NEW r \in Ingesters, NEW s \in Systems, NEW records \in Seq(Recs),
           NEW listed, BeginBatch(r, s, records, listed),
           \A rec \in ToSet(records) : Tells(listed, s, rec)
    PROVE  IdentitySound'
<1> DEFINE new == [source |-> s, todo |-> records, writes |-> <<>>]
<1>1. /\ job' = [job EXCEPT ![r] = new]
      /\ ties' = [ties EXCEPT ![r] = ties[r] \cup listed]
      /\ tied' = [b \in Buckets |-> [a \in Aliases |->
                    tied[b][a] \cup TiedHosts(ties[r] \cup listed, b, a)]]
      /\ UNCHANGED <<hosts, aliasHost, hostRows, mapper>>
  BY DEF BeginBatch
<1>2. new \in Jobs /\ new.source = s /\ new.todo = records /\ new.writes = <<>>
  BY DEF Jobs
<1>3. IdentityTypes /\ MapFits
  BY DEF IdentitySound
<1> HIDE DEF new
<1>4. job'[r] = new /\ \A q \in Ingesters : q # r => job'[q] = job[q]
  BY <1>1, <1>3 DEF IdentityTypes
<1>5. job' \in [Ingesters -> Jobs \cup {NoHost}]
  BY <1>1, <1>2, <1>3 DEF IdentityTypes
<1>6. /\ ties' = [q \in Ingesters |-> ties'[q]] /\ ties'[r] = ties[r] \cup listed
      /\ \A q \in Ingesters : q # r => ties'[q] = ties[q]
  <2>1. PICK f : f = ties
    OBVIOUS
  <2>2. f = [q \in Ingesters |-> f[q]]
    BY <1>3, <2>1 DEF IdentityTypes
  <2>3. ties' = [f EXCEPT ![r] = f[r] \cup listed]
    BY <1>1, <2>1
  <2> HIDE <2>1
  <2>4. ties' = [q \in Ingesters |-> IF q = r THEN f[r] \cup listed ELSE f[q]]
    BY <2>2, <2>3
  <2>5. /\ ties' = [q \in Ingesters |-> ties'[q]] /\ ties'[r] = f[r] \cup listed
        /\ \A q \in Ingesters : q # r => ties'[q] = f[q]
    BY <2>4
  <2> QED
    BY <2>1, <2>5
<1>7. \A b \in Buckets, a \in Aliases :
         tied'[b][a] = tied[b][a] \cup TiedHosts(ties[r] \cup listed, b, a)
  BY <1>1
<1>8. ASSUME NEW q \in Ingesters, job'[q] # NoHost, NEW rec \in ToSet(job'[q].todo)
      PROVE  Tells(ties'[q], job'[q].source, rec)
  <2>1. CASE q = r
    <3>1. Tells(listed, s, rec)
      BY <1>2, <1>4, <1>8, <2>1
    <3> QED
      BY <1>2, <1>4, <1>6, <2>1, <3>1, TellsGrows
  <2>2. CASE q # r
    BY <1>3, <1>4, <1>6, <1>8, <2>2 DEF IdentityTypes
  <2> QED
    BY <2>1, <2>2
<1>9. IdentityTypes'
  BY <1>1, <1>3, <1>5, <1>6, <1>8 DEF IdentityTypes
<1>10. MapFits'
  <2> SUFFICES ASSUME NEW q \in Ingesters, NEW b \in Buckets, NEW a \in Aliases
               PROVE  /\ mapper[q][b][a] # NoHost =>
                            mapper[q][b][a] \in TiedHosts(ties'[q], b, a)
                      /\ TiedHosts(ties'[q], b, a) \subseteq tied'[b][a]
    BY <1>1 DEF MapFits
  <2>1. /\ mapper[q][b][a] # NoHost => mapper[q][b][a] \in TiedHosts(ties[q], b, a)
        /\ TiedHosts(ties[q], b, a) \subseteq tied[b][a]
    BY <1>3 DEF MapFits
  <2>2. TiedHosts(ties[r], b, a) \subseteq TiedHosts(ties[r] \cup listed, b, a)
    BY TiedGrows
  <2> QED
    BY <1>6, <1>7, <2>1, <2>2
<1>11. /\ RowsFit'
       /\ \A q \in Ingesters : job[q] # NoHost =>
             JobFits(tied', hosts', aliasHost', job[q].source, job[q].writes)
  BY <1>1, <1>7, OthersKept
<1>12. JobFits(tied', hosts', aliasHost', s, <<>>)
  BY DEF JobFits
<1>13. WritesFit'
  BY <1>2, <1>4, <1>11, <1>12 DEF WritesFit
<1> QED
  BY <1>9, <1>10, <1>11, <1>13 DEF IdentitySound

(* The names of a machine and, where it is listed with it alone, its       *)
(* address (_shared_primary_ips).                                          *)
LEMMA HostTells ==
    ASSUME NEW s \in Systems, NEW lease, NEW m \in Known(s), NEW T,
           MachineTie(s, m, lease) \in T
    PROVE  /\ HostRecord(s, m, lease) \in Recs /\ Tells(T, s, HostRecord(s, m, lease))
           /\ ReportRecord(s, m) \in Recs /\ Tells(T, s, ReportRecord(s, m))
<1>1. PICK names, tie : names = Named[s][m] /\ tie = MachineTie(s, m, lease)
  OBVIOUS
<1>2. /\ m \in Machines /\ names \in Seq(Aliases) /\ Len(names) \in Nat \ {0}
      /\ names # <<>> /\ First(s, m) \in ToSet(names) /\ First(s, m) = names[1]
  BY <1>1, KnownIs DEF First
<1>3. /\ tie \in T /\ tie.bucket = BucketOf[s] /\ tie.first = names[1]
      /\ ToSet(names) \subseteq tie.names
      /\ \A ip \in Ips : lease[m] = ip /\ (\A k \in Known(s) \ {m} : lease[k] # ip)
            => ip \in tie.names
  BY <1>1 DEF MachineTie, Names
<1>4. ASSUME NEW list \in Seq(Aliases), list # <<>>, list[1] = names[1],
             ToSet(names) \subseteq ToSet(list), ToSet(list) \subseteq tie.names,
             NEW rec, rec.aliases = list, rec.of.about = {m}
      PROVE  Tells(T, s, rec)
  BY <1>2, <1>3, <1>4 DEF Tells, First
<1>5. /\ HostRecord(s, m, lease).aliases = AliasesOf(s, m, lease)
      /\ HostRecord(s, m, lease).of.about = {m}
      /\ ReportRecord(s, m).aliases = names /\ ReportRecord(s, m).of.about = {m}
      /\ ReportRecord(s, m) \in Recs
      /\ AliasesOf(s, m, lease) \in Seq(Aliases) => HostRecord(s, m, lease) \in Recs
  BY <1>1, <1>2 DEF HostRecord, ReportRecord, Recs, Subjects
<1>6. Tells(T, s, ReportRecord(s, m))
  BY <1>2, <1>3, <1>4, <1>5
<1>7. CASE AliasesOf(s, m, lease) = names
  BY <1>2, <1>3, <1>4, <1>5, <1>6, <1>7
<1>8. CASE /\ lease[m] \in Ips \ SharedIps(s, lease)
           /\ AliasesOf(s, m, lease) = Append(names, lease[m])
  <2>1. PICK ip, S, list : ip = lease[m] /\ S = {k \in Known(s) : lease[k] = ip}
                           /\ list = AliasesOf(s, m, lease)
    OBVIOUS
  <2>2. ip \in Ips /\ ~(Cardinality(S) > 1)
    BY <1>8, <2>1 DEF SharedIps
  <2>3. IsFiniteSet(S)
    <3>1. S \subseteq Machines
      BY <2>1 DEF Known
    <3> QED
      BY <3>1, NameAssumption, FS_Subset
  <2>4. Cardinality(S) = 1
    <3>1. m \in S
      BY <2>1
    <3>2. Cardinality(S) \in Nat /\ Cardinality(S) # 0
      BY <2>3, <3>1, FS_CardinalityType, FS_EmptySet
    <3> QED
      BY <2>2, <3>2
  <2>5. \A k \in Known(s) \ {m} : lease[k] # ip
    <3>1. PICK x : S = {x}
      BY <2>3, <2>4, FS_Singleton
    <3> QED
      BY <2>1, <3>1
  <2>6. ip \in tie.names /\ ip \in Aliases
    BY <1>3, <2>1, <2>2, <2>5 DEF Aliases
  <2>7. list = Append(names, ip)
    BY <1>8, <2>1
  <2>8. /\ list \in Seq(Aliases) /\ Len(list) = Len(names) + 1
        /\ \A i \in 1..Len(names) : list[i] = names[i]
        /\ list[Len(names) + 1] = ip
    BY <1>2, <2>6, <2>7
  <2>9. list # <<>> /\ list[1] = names[1]
    BY <1>2, <2>8
  <2>10. ASSUME NEW a \in ToSet(list) PROVE a \in ToSet(names) \/ a = ip
    <3>1. PICK i \in 1..Len(list) : a = list[i]
      BY <2>8 DEF ToSet
    <3>2. i \in 1..Len(names) => a = names[i] /\ i \in DOMAIN names
      BY <1>2, <2>8, <3>1
    <3>3. i \notin 1..Len(names) => i = Len(names) + 1
      BY <1>2, <2>8
    <3> QED
      BY <2>8, <3>1, <3>2, <3>3 DEF ToSet
  <2>11. ASSUME NEW a \in ToSet(names) PROVE a \in ToSet(list)
    <3>1. PICK i \in 1..Len(names) : a = names[i]
      BY <1>2 DEF ToSet
    <3>2. i \in 1..Len(list) /\ list[i] = a
      BY <1>2, <2>8, <3>1
    <3> QED
      BY <2>8, <3>2 DEF ToSet
  <2> QED
    BY <1>3, <1>4, <1>5, <1>6, <2>1, <2>6, <2>8, <2>9, <2>10, <2>11
<1> QED
  BY <1>1, <1>7, <1>8 DEF AliasesOf

(* The names of all the hosts of a trigger (_extract_problem_host_aliases). *)
LEMMA ProblemTells ==
    ASSUME NEW s \in Systems, NEW t \in Seq(Known(s)), NEW T,
           t # <<>> => ProblemTie(s, t) \in T
    PROVE  ProblemRecord(s, t) \in Recs /\ Tells(T, s, ProblemRecord(s, t))
<1> DEFINE seqs == [i \in 1..Len(t) |-> Named[s][t[i]]]
<1>1. PICK n, list : n = Len(t) /\ list = FlattenSeq(seqs)
  OBVIOUS
<1>2. n \in Nat /\ \A i \in 1..n : t[i] \in Known(s)
  BY <1>1
<1>3. /\ seqs \in [1..n -> Seq(Aliases)]
      /\ \A i \in 1..n : seqs[i] = Named[s][t[i]] /\ seqs[i] # <<>>
  BY <1>1, <1>2, KnownIs
<1>4. ProblemRecord(s, t) = [of |-> [kind |-> "event", about |-> ToSet(t)], aliases |-> list]
  BY <1>1 DEF ProblemRecord
<1>5. ToSet(t) \subseteq Known(s) /\ ToSet(t) = {t[i] : i \in 1..n}
  BY <1>1, <1>2 DEF ToSet
<1> HIDE DEF seqs
<1>6. /\ n = 0 => list = <<>>
      /\ list \in Seq(Aliases) /\ ToSet(list) = UNION {ToSet(seqs[i]) : i \in 1..n}
      /\ n # 0 /\ seqs[1] # <<>> => list # <<>> /\ list[1] = seqs[1][1]
  <2>1. PICK sq : sq = seqs
    OBVIOUS
  <2>2. sq \in [1..n -> Seq(Aliases)] /\ list = FlattenSeq(sq)
    BY <1>1, <1>3, <2>1
  <2>3. /\ n = 0 => list = <<>>
        /\ list \in Seq(Aliases) /\ ToSet(list) = UNION {ToSet(sq[i]) : i \in 1..n}
        /\ n # 0 /\ sq[1] # <<>> => list # <<>> /\ list[1] = sq[1][1]
    <3>1. PICK S : S = Aliases
      OBVIOUS
    <3>2. n \in Nat /\ sq \in [1..n -> Seq(S)] /\ list = FlattenSeq(sq)
      BY <1>2, <2>2, <3>1
    <3>3. /\ n = 0 => list = <<>>
          /\ list \in Seq(S) /\ ToSet(list) = UNION {ToSet(sq[i]) : i \in 1..n}
          /\ n # 0 /\ sq[1] # <<>> => list # <<>> /\ list[1] = sq[1][1]
      BY ONLY <3>2, FlattenIs, SMTT(30)
    <3> QED
      BY <3>1, <3>3
  <2> QED
    BY <2>1, <2>3
<1>7. ProblemRecord(s, t) \in Recs
  <2>1. ToSet(t) \subseteq Machines
    BY <1>5 DEF Known
  <2> QED
    BY <1>4, <1>6, <2>1 DEF Recs, Subjects
<1>8. ASSUME list # <<>>
      PROVE  \E u \in T : /\ u.bucket = BucketOf[s] /\ u.first = list[1]
                          /\ ToSet(list) \subseteq u.names
  <2>1. n # 0 /\ 1 \in 1..n
    BY <1>2, <1>6, <1>8
  <2>2. ProblemTie(s, t) \in T
    BY <1>1, <2>1
  <2>3. list[1] = Named[s][t[1]][1]
    BY <1>3, <1>6, <2>1
  <2>4. ToSet(list) \subseteq Names(s, ToSet(t))
    <3> SUFFICES ASSUME NEW i \in 1..n, NEW a \in ToSet(seqs[i]) PROVE a \in Names(s, ToSet(t))
      BY <1>6
    <3>1. t[i] \in ToSet(t) /\ a \in ToSet(Named[s][t[i]])
      BY <1>3, <1>5
    <3> QED
      BY <3>1 DEF Names
  <2> QED
    BY <2>2, <2>3, <2>4 DEF ProblemTie
<1>9. ASSUME NEW m \in ToSet(t)
      PROVE  m \in Known(s) /\ Named[s][m][1] \in ToSet(list)
  <2>1. PICK i \in 1..n : m = t[i]
    BY <1>5
  <2>2. m \in Known(s) /\ First(s, m) \in ToSet(seqs[i])
    BY <1>2, <1>3, <2>1, KnownIs
  <2> QED
    BY <1>6, <2>2 DEF First
<1> QED
  BY <1>4, <1>7, <1>8, <1>9 DEF Tells

LEMMA BoundedIs ==
    ASSUME NEW S, NEW N \in Nat, NEW t \in BoundedSeq(S, N)
    PROVE  /\ Len(t) \in Nat /\ t \in [1..Len(t) -> S]
           /\ t \in Seq(S) /\ ToSet(t) = {t[i] : i \in 1..Len(t)}
<1>1. PICK n \in 0..N : t \in [1..n -> S]
  BY DEF BoundedSeq, SeqOf
<1>2. n \in Nat /\ t \in Seq(S) /\ Len(t) = n
  BY <1>1
<1> QED
  BY <1>1, <1>2 DEF ToSet

LEMMA ReportsKeep ==
    ASSUME IdentitySound, NEW r \in Ingesters, NEW s \in Systems, CollectReports(r, s)
    PROVE  IdentitySound'
<1> DEFINE none == [k \in Known(s) |-> NoHost]
<1>1. PICK list \in BoundedSeq(Known(s), MaxEvents) :
         BeginBatch(r, s, [i \in 1..Len(list) |-> ReportRecord(s, list[i])],
                    {MachineTie(s, m, none) : m \in ToSet(list)})
  BY DEF CollectReports
<1> HIDE DEF none
<1>2. PICK n : n = Len(list)
  OBVIOUS
<1>3. n \in Nat /\ list \in [1..n -> Known(s)] /\ ToSet(list) = {list[i] : i \in 1..n}
  <2>1. MaxEvents \in Nat
    BY NameAssumption
  <2> QED
    BY <1>2, <2>1, BoundedIs
<1>4. PICK records, listed : /\ records = [i \in 1..n |-> ReportRecord(s, list[i])]
                             /\ listed = {MachineTie(s, m, none) : m \in ToSet(list)}
  OBVIOUS
<1>5. \A i \in 1..n : /\ records[i] = ReportRecord(s, list[i]) /\ list[i] \in Known(s)
                      /\ MachineTie(s, list[i], none) \in listed
  BY <1>3, <1>4
<1>6. \A i \in 1..n : records[i] \in Recs /\ Tells(listed, s, records[i])
  BY <1>5, HostTells
<1>7. records \in [1..n -> Recs]
  BY <1>4, <1>6
<1>8. records \in Seq(Recs) /\ \A rec \in ToSet(records) : Tells(listed, s, rec)
  <2>1. records \in Seq(Recs) /\ ToSet(records) = {records[i] : i \in 1..n}
    BY <1>3, <1>7, SetOf
  <2> QED
    BY <1>6, <2>1
<1>9. BeginBatch(r, s, records, listed)
  BY <1>1, <1>2, <1>4
<1> QED
  BY <1>8, <1>9, BatchKeeps

LEMMA InventoryKeeps ==
    ASSUME IdentitySound, NEW r \in Ingesters, NEW s \in Systems, CollectInventory(r, s)
    PROVE  IdentitySound'
<1>1. PICK list : list = SetToSeq(Known(s))
  OBVIOUS
<1>2. PICK lease \in [Known(s) -> Ips \cup {NoHost}],
           problems \in BoundedSeq(Triggers[s], MaxEvents) :
         BeginBatch(r, s,
            [i \in 1..Len(list) |-> HostRecord(s, list[i], lease)]
            \o [i \in 1..Len(problems) |-> ProblemRecord(s, problems[i])],
            {MachineTie(s, m, lease) : m \in Known(s)}
            \cup {ProblemTie(s, t) : t \in ToSet(problems) \ {<<>>}})
  BY <1>1 DEF CollectInventory
<1>3. PICK n : n = Len(problems)
  OBVIOUS
<1>4. PICK a, b, listed :
         /\ a = [i \in 1..Len(list) |-> HostRecord(s, list[i], lease)]
         /\ b = [i \in 1..n |-> ProblemRecord(s, problems[i])]
         /\ listed = {MachineTie(s, m, lease) : m \in Known(s)}
                     \cup {ProblemTie(s, t) : t \in ToSet(problems) \ {<<>>}}
  OBVIOUS
<1>5. /\ n \in Nat /\ problems \in [1..n -> Triggers[s]]
      /\ ToSet(problems) = {problems[i] : i \in 1..n}
  BY <1>3, BoundedIs, NameAssumption
<1>6. BeginBatch(r, s, a \o b, listed)
  BY <1>2, <1>4, <1>3
<1>7. a \in Seq(Recs) /\ \A rec \in ToSet(a) : Tells(listed, s, rec)
  <2>1. IsFiniteSet(Known(s))
    <3>1. Known(s) \subseteq Machines
      BY DEF Known
    <3> QED
      BY <3>1, NameAssumption, FS_Subset
  <2>2. Len(list) \in Nat /\ list \in [1..Len(list) -> Known(s)]
    BY <1>1, <2>1, SeqOfSet
  <2>3. \A i \in 1..Len(list) : /\ a[i] = HostRecord(s, list[i], lease) /\ list[i] \in Known(s)
                                /\ MachineTie(s, list[i], lease) \in listed
    BY <1>4, <2>2
  <2>4. \A i \in 1..Len(list) : a[i] \in Recs /\ Tells(listed, s, a[i])
    BY <2>3, HostTells
  <2>5. a \in [1..Len(list) -> Recs]
    BY <1>4, <2>4
  <2>6. a \in Seq(Recs) /\ ToSet(a) = {a[i] : i \in 1..Len(list)}
    BY <2>2, <2>5, SetOf
  <2> QED
    BY <2>4, <2>6
<1>8. b \in Seq(Recs) /\ \A rec \in ToSet(b) : Tells(listed, s, rec)
  <2>1. \A i \in 1..n : /\ b[i] = ProblemRecord(s, problems[i])
                        /\ problems[i] \in Seq(Known(s))
                        /\ problems[i] # <<>> => ProblemTie(s, problems[i]) \in listed
    BY <1>4, <1>5, NameAssumption
  <2>2. \A i \in 1..n : b[i] \in Recs /\ Tells(listed, s, b[i])
    BY <2>1, ProblemTells
  <2>3. b \in [1..n -> Recs]
    BY <1>4, <2>2
  <2>4. b \in Seq(Recs) /\ ToSet(b) = {b[i] : i \in 1..n}
    BY <1>5, <2>3, SetOf
  <2> QED
    BY <2>2, <2>4
<1>9. a \o b \in Seq(Recs) /\ \A rec \in ToSet(a \o b) : Tells(listed, s, rec)
  BY <1>7, <1>8, ConcatTwo
<1> QED
  BY <1>6, <1>9, BatchKeeps

-----------------------------------------------------------------------------
(* A record is mapped                                                      *)

(* The host first, then n aliases, then the row; or the row alone.         *)
HostAliasesRow(w, n, rec, id) ==
    /\ n \in Nat /\ Len(w) = n + 2
    /\ w[1] = [kind |-> "host", of |-> rec.of, id |-> id]
    /\ \A i \in 1..n : w[i + 1] = [kind |-> "alias", of |-> rec.aliases[i], id |-> id]
    /\ w[n + 2] = [kind |-> "row", of |-> rec.of, id |-> id]

LEMMA EntitiesAre ==
    ASSUME NEW rec \in Recs, NEW id \in Ids \cup {NoHost}, NEW n, n = Len(rec.aliases),
           NEW w, w = Entities(rec, id)
    PROVE  /\ w \in Seq(Ents)
           /\ rec.aliases # <<>> => HostAliasesRow(w, n, rec, id)
           /\ rec.aliases = <<>> => w = <<[kind |-> "row", of |-> rec.of, id |-> id]>>
<1> DEFINE h == [kind |-> "host", of |-> rec.of, id |-> id]
           f == [i \in 1..n |-> [kind |-> "alias", of |-> rec.aliases[i], id |-> id]]
           row == [kind |-> "row", of |-> rec.of, id |-> id]
<1>1. n \in Nat /\ rec.of \in Subjects /\ \A i \in 1..n : rec.aliases[i] \in Aliases
  BY DEF Recs
<1>2. h \in Ents /\ row \in Ents
  BY <1>1 DEF Ents
<1>3. f \in [1..n -> Ents]
  BY <1>1 DEF Ents
<1>4. w = IF rec.aliases = <<>> THEN <<row>> ELSE <<h>> \o f \o <<row>>
  BY DEF Entities
<1>5. \A i \in 1..n : f[i] = [kind |-> "alias", of |-> rec.aliases[i], id |-> id]
  OBVIOUS
<1> HIDE DEF h, f, row
<1>6. f \in Seq(Ents) /\ Len(f) = n
  BY <1>1, <1>3
<1>7. PICK v : v = <<h>> \o f
  OBVIOUS
<1>8. /\ v \in Seq(Ents) /\ Len(v) = n + 1 /\ v[1] = h
      /\ \A i \in 1..n : v[i + 1] = f[i]
  <2>1. <<h>> \in Seq(Ents) /\ Len(<<h>>) = 1 /\ <<h>>[1] = h
    BY <1>2
  <2>2. /\ v \in Seq(Ents) /\ Len(v) = 1 + n
        /\ \A i \in 1..(1 + n) : v[i] = IF i <= 1 THEN <<h>>[i] ELSE f[i - 1]
    BY <1>6, <1>7, <2>1, ConcatProperties
  <2>3. v[1] = h
    BY <1>1, <2>1, <2>2
  <2>4. ASSUME NEW i \in 1..n PROVE v[i + 1] = f[i]
    <3>1. i + 1 \in 1..(1 + n) /\ ~(i + 1 <= 1) /\ i + 1 - 1 = i
      BY <1>1
    <3> QED
      BY <2>2, <3>1
  <2>5. Len(v) = n + 1
    BY <1>1, <2>2
  <2> QED
    BY <2>2, <2>3, <2>4, <2>5
<1>9. /\ v \o <<row>> \in Seq(Ents) /\ Len(v \o <<row>>) = n + 2
      /\ \A i \in 1..(n + 1) : (v \o <<row>>)[i] = v[i]
      /\ (v \o <<row>>)[n + 2] = row
  <2>1. <<row>> \in Seq(Ents) /\ Len(<<row>>) = 1 /\ <<row>>[1] = row
    BY <1>2
  <2>2. /\ v \o <<row>> \in Seq(Ents) /\ Len(v \o <<row>>) = n + 1 + 1
        /\ \A i \in 1..(n + 1 + 1) : (v \o <<row>>)[i] =
              IF i <= n + 1 THEN v[i] ELSE <<row>>[i - (n + 1)]
    BY <1>8, <2>1, ConcatProperties
  <2> QED
    BY <1>1, <2>1, <2>2
<1>10. CASE rec.aliases = <<>>
  <2>1. w = <<row>> /\ w \in Seq(Ents)
    BY <1>2, <1>4, <1>10
  <2> QED
    BY <1>10, <2>1 DEF row
<1>11. CASE rec.aliases # <<>>
  <2>1. w = v \o <<row>>
    BY <1>4, <1>7, <1>11
  <2>2. /\ w \in Seq(Ents) /\ Len(w) = n + 2 /\ w[n + 2] = row
        /\ \A i \in 1..(n + 1) : w[i] = v[i]
    BY <1>9, <2>1
  <2>3. w[1] = h
    BY <1>1, <1>8, <2>2
  <2>4. \A i \in 1..n : w[i + 1] = f[i]
    BY <1>1, <1>8, <2>2
  <2> QED
    BY <1>1, <1>5, <1>11, <2>2, <2>3, <2>4 DEF HostAliasesRow, h, row
<1> QED
  BY <1>10, <1>11

(* What is to be saved of a record: the host and the first alias of every  *)
(* machine it is about come before its row.                                *)
LEMMA EntitiesFit ==
    ASSUME NEW T, NEW s \in Systems, NEW rec \in Recs, Tells(T, s, rec),
           NEW id \in Ids \cup {NoHost}, NEW td,
           \A a \in ToSet(rec.aliases) : id \in td[BucketOf[s]][a], NEW hs, NEW ah
    PROVE  JobFits(td, hs, ah, s, Entities(rec, id))
<1>1. PICK n : n = Len(rec.aliases)
  OBVIOUS
<1>2. PICK w : w = Entities(rec, id)
  OBVIOUS
<1>3. \A m \in rec.of.about :
         m \in Known(s) /\ First(s, m) \in ToSet(rec.aliases) /\ id \in Own(td, s, m)
  BY DEF Tells, First, Own
<1>4. rec.of \in Subjects /\ rec.aliases \in Seq(Aliases)
  BY DEF Recs
<1>5. CASE rec.aliases = <<>>
  <2>1. w = <<[kind |-> "row", of |-> rec.of, id |-> id]>>
    BY <1>1, <1>2, <1>5, EntitiesAre
  <2>2. rec.of.about = {}
    BY <1>3, <1>5 DEF ToSet
  <2>3. Len(w) = 1 /\ w[1].kind = "row" /\ w[1].of = rec.of
    BY <2>1
  <2>4. WriteFits(td, s, w[1]) /\ Laid(td, hs, ah, s, w, 1)
    BY <1>4, <2>2, <2>3 DEF WriteFits, Laid
  <2> QED
    BY <1>2, <2>3, <2>4 DEF JobFits
<1>6. CASE rec.aliases # <<>>
  <2>1. /\ n \in Nat /\ Len(w) = n + 2
        /\ w[1] = [kind |-> "host", of |-> rec.of, id |-> id]
        /\ \A i \in 1..n : w[i + 1] = [kind |-> "alias", of |-> rec.aliases[i], id |-> id]
        /\ w[n + 2] = [kind |-> "row", of |-> rec.of, id |-> id]
    <3>1. HostAliasesRow(w, n, rec, id)
      BY <1>1, <1>2, <1>6, EntitiesAre
    <3> QED
      BY <3>1 DEF HostAliasesRow
  <2>2. /\ ToSet(rec.aliases) = {rec.aliases[i] : i \in 1..n}
        /\ ToSet(rec.aliases) \subseteq Aliases
    BY <1>1, <1>4 DEF ToSet
  <2> SUFFICES ASSUME NEW i \in 1..(n + 2)
               PROVE  WriteFits(td, s, w[i]) /\ (w[i].kind = "row" => Laid(td, hs, ah, s, w, i))
    BY <1>2, <2>1 DEF JobFits
  <2>3. CASE i = 1
    <3>1. w[i].kind = "host"
      BY <2>1, <2>3
    <3> QED
      BY <3>1 DEF WriteFits
  <2>4. CASE i \in 2..(n + 1)
    <3>1. PICK j \in 1..n : i = j + 1
      <4>1. n \in Nat
        BY <2>1
      <4>2. i - 1 \in 1..n /\ i = (i - 1) + 1
        BY <2>4, <4>1
      <4> QED
        BY <4>2
    <3>2. w[i].kind = "alias" /\ w[i].id = id /\ w[i].of = rec.aliases[j]
      <4>1. w[j + 1] = [kind |-> "alias", of |-> rec.aliases[j], id |-> id]
        BY <2>1
      <4> QED
        BY <3>1, <4>1
    <3>3. w[i].of \in ToSet(rec.aliases)
      BY <2>2, <3>2
    <3> QED
      BY <2>2, <3>2, <3>3 DEF WriteFits
  <2>5. CASE i = n + 2
    <3>1. w[i].kind = "row" /\ w[i].id = id /\ w[i].of = rec.of
      BY <2>1, <2>5
    <3>2. WriteFits(td, s, w[i])
      BY <1>3, <1>4, <3>1 DEF WriteFits
    <3>3. 1 \in 1..(i - 1) /\ w[1].kind = "host" /\ w[1].id = id
      BY <2>1, <2>5
    <3>4. ASSUME NEW m \in rec.of.about
          PROVE  \E j \in 1..(i - 1) : /\ w[j].kind = "alias" /\ w[j].id = id
                                       /\ w[j].of = First(s, m)
      <4>1. PICK k \in 1..n : rec.aliases[k] = First(s, m)
        BY <1>3, <2>2
      <4>2. PICK j \in 1..(i - 1) : j = k + 1
        BY <2>1, <2>5
      <4>3. w[j] = [kind |-> "alias", of |-> rec.aliases[k], id |-> id]
        BY <2>1, <4>2
      <4> QED
        BY <4>1, <4>3
    <3>5. Laid(td, hs, ah, s, w, i)
      BY <3>1, <3>3, <3>4 DEF Laid
    <3> QED
      BY <3>2, <3>5
  <2> QED
    BY <2>1, <2>3, <2>4, <2>5
<1> QED
  BY <1>5, <1>6

LEMMA MapKeeps ==
    ASSUME IdentitySound, NEW r \in Ingesters, MapEnvelope(r)
    PROVE  IdentitySound'
<1>1. PICK s : s = job[r].source
  OBVIOUS
<1>2. PICK todo : todo = job[r].todo
  OBVIOUS
<1>3. PICK rec : rec = Head(todo)
  OBVIOUS
<1>4. PICK id : id = Resolve(mapper[r], BucketOf[s], rec.aliases)
  OBVIOUS
<1> DEFINE new == [source |-> s, todo |-> Tail(todo), writes |-> Entities(rec, id)]
<1>5. /\ job[r] # NoHost /\ todo # <<>>
      /\ mapper' = [mapper EXCEPT ![r] = RegisterAliases(mapper[r], BucketOf[s], rec.aliases, id)]
      /\ job' = [job EXCEPT ![r] = new]
      /\ UNCHANGED <<hosts, aliasHost, hostRows, ties, tied>>
  BY <1>1, <1>2, <1>3, <1>4 DEF MapEnvelope
<1>6. IdentityTypes /\ MapFits
  BY DEF IdentitySound
<1>7. /\ job[r] \in Jobs /\ s \in Systems /\ todo \in Seq(Recs)
      /\ \A x \in ToSet(todo) : Tells(ties[r], s, x)
  BY <1>1, <1>2, <1>5, <1>6 DEF IdentityTypes, Jobs
<1>8. /\ rec \in Recs /\ rec \in ToSet(todo) /\ Tail(todo) \in Seq(Recs)
      /\ ToSet(Tail(todo)) \subseteq ToSet(todo)
  BY <1>3, <1>5, <1>7, HeadAndTail
<1>9. Tells(ties[r], s, rec) /\ BucketOf[s] \in Buckets /\ rec.aliases \in Seq(Aliases)
  BY <1>7, <1>8, NameAssumption DEF Recs
<1>10. id \in Ids \cup {NoHost}
  <2>1. mapper[r] \in [Buckets -> [Aliases -> Ids \cup {NoHost}]]
    BY <1>6 DEF IdentityTypes
  <2> QED
    BY <1>4, <1>9, <2>1, ResolvedIsId
<1>11. \A a \in ToSet(rec.aliases) : a \in Aliases /\ id \in TiedHosts(ties[r], BucketOf[s], a)
  <2>1. ToSet(rec.aliases) \subseteq Aliases
    BY <1>9 DEF ToSet
  <2> QED
    BY <1>4, <1>6, <1>7, <1>8, <1>9, <2>1, ResolvedIsTied
<1>12. Entities(rec, id) \in Seq(Ents)
  BY <1>8, <1>10, EntitiesAre
<1>13. new \in Jobs /\ new.source = s /\ new.todo = Tail(todo) /\ new.writes = Entities(rec, id)
  BY <1>7, <1>8, <1>12 DEF Jobs
<1> HIDE DEF new
<1>14. job'[r] = new /\ job' \in [Ingesters -> Jobs \cup {NoHost}]
       /\ \A q \in Ingesters : q # r => job'[q] = job[q]
  BY <1>5, <1>6, <1>13 DEF IdentityTypes
<1>15. /\ mapper' \in [Ingesters -> [Buckets -> [Aliases -> Ids \cup {NoHost}]]]
       /\ \A q \in Ingesters, b \in Buckets, a \in Aliases :
             mapper'[q][b][a] = IF q = r /\ b = BucketOf[s] /\ a \in ToSet(rec.aliases)
                                THEN id ELSE mapper[q][b][a]
  <2>1. PICK map : map = RegisterAliases(mapper[r], BucketOf[s], rec.aliases, id)
    OBVIOUS
  <2>2. mapper[r] \in [Buckets -> [Aliases -> Ids \cup {NoHost}]]
    BY <1>6 DEF IdentityTypes
  <2>3. /\ map \in [Buckets -> [Aliases -> Ids \cup {NoHost}]]
        /\ \A b \in Buckets, a \in Aliases :
              map[b][a] = IF b = BucketOf[s] /\ a \in ToSet(rec.aliases)
                          THEN id ELSE mapper[r][b][a]
    BY <1>9, <1>10, <2>1, <2>2 DEF RegisterAliases
  <2>4. mapper' = [mapper EXCEPT ![r] = map]
    BY <1>5, <2>1
  <2>5. mapper \in [Ingesters -> [Buckets -> [Aliases -> Ids \cup {NoHost}]]]
    BY <1>6 DEF IdentityTypes
  <2>6. mapper'[r] = map /\ \A q \in Ingesters : q # r => mapper'[q] = mapper[q]
    BY <2>4, <2>5
  <2>7. mapper' \in [Ingesters -> [Buckets -> [Aliases -> Ids \cup {NoHost}]]]
    BY <2>3, <2>4, <2>5
  <2> QED
    BY <2>3, <2>6, <2>7
<1>16. ASSUME NEW q \in Ingesters, job'[q] # NoHost, NEW x \in ToSet(job'[q].todo)
       PROVE  Tells(ties'[q], job'[q].source, x)
  <2>1. CASE q = r
    BY <1>5, <1>7, <1>8, <1>13, <1>14, <1>16, <2>1
  <2>2. CASE q # r
    BY <1>5, <1>6, <1>14, <1>16, <2>2 DEF IdentityTypes
  <2> QED
    BY <2>1, <2>2
<1>17. IdentityTypes'
  BY <1>5, <1>6, <1>14, <1>15, <1>16 DEF IdentityTypes
<1>18. MapFits'
  <2> SUFFICES ASSUME NEW q \in Ingesters, NEW b \in Buckets, NEW a \in Aliases
               PROVE  /\ mapper'[q][b][a] # NoHost =>
                            mapper'[q][b][a] \in TiedHosts(ties[q], b, a)
                      /\ TiedHosts(ties[q], b, a) \subseteq tied[b][a]
    BY <1>5 DEF MapFits
  <2>1. /\ mapper[q][b][a] # NoHost => mapper[q][b][a] \in TiedHosts(ties[q], b, a)
        /\ TiedHosts(ties[q], b, a) \subseteq tied[b][a]
    BY <1>6 DEF MapFits
  <2> QED
    BY <1>11, <1>15, <2>1
<1>19. /\ RowsFit'
       /\ \A q \in Ingesters : job[q] # NoHost =>
             JobFits(tied', hosts', aliasHost', job[q].source, job[q].writes)
  BY <1>5, OthersKept
<1>20. JobFits(tied', hosts', aliasHost', s, Entities(rec, id))
  <2>1. \A a \in ToSet(rec.aliases) : id \in tied'[BucketOf[s]][a]
    BY <1>5, <1>6, <1>9, <1>11 DEF MapFits
  <2> QED
    BY <1>7, <1>8, <1>9, <1>10, <2>1, EntitiesFit
<1>21. WritesFit'
  BY <1>13, <1>14, <1>19, <1>20 DEF WritesFit
<1> QED
  BY <1>17, <1>18, <1>19, <1>21 DEF IdentitySound

-----------------------------------------------------------------------------
(* An entity is saved, a save raises, the worker starts again              *)

(* A mapper and what was listed to it are forgotten together, or kept.     *)
Kept(r) ==
    \/ UNCHANGED <<mapper, ties>>
    \/ mapper' = [mapper EXCEPT ![r] = Empty] /\ ties' = [ties EXCEPT ![r] = {}]

LEMMA Forgets ==
    ASSUME IdentityTypes, MapFits, NEW r \in Ingesters, Kept(r), UNCHANGED tied
    PROVE  /\ mapper' \in [Ingesters -> [Buckets -> [Aliases -> Ids \cup {NoHost}]]]
           /\ ties' = [q \in Ingesters |-> ties'[q]]
           /\ \A q \in Ingesters : q # r => ties'[q] = ties[q]
           /\ MapFits'
<1>1. /\ mapper \in [Ingesters -> [Buckets -> [Aliases -> Ids \cup {NoHost}]]]
      /\ ties = [q \in Ingesters |-> ties[q]]
  BY DEF IdentityTypes
<1>2. /\ Empty \in [Buckets -> [Aliases -> Ids \cup {NoHost}]]
      /\ \A b \in Buckets, a \in Aliases : Empty[b][a] = NoHost
  BY DEF Empty
<1>3. CASE UNCHANGED <<mapper, ties>>
  BY <1>1, <1>3 DEF MapFits
<1>4. CASE mapper' = [mapper EXCEPT ![r] = Empty] /\ ties' = [ties EXCEPT ![r] = {}]
  <2>1. mapper'[r] = Empty /\ \A q \in Ingesters : q # r => mapper'[q] = mapper[q]
    BY <1>1, <1>4
  <2>2. mapper' \in [Ingesters -> [Buckets -> [Aliases -> Ids \cup {NoHost}]]]
    BY <1>1, <1>2, <1>4
  <2>3. /\ ties' = [q \in Ingesters |-> ties'[q]] /\ ties'[r] = {}
        /\ \A q \in Ingesters : q # r => ties'[q] = ties[q]
    <3>1. PICK f : f = ties
      OBVIOUS
    <3>2. f = [q \in Ingesters |-> f[q]] /\ ties' = [f EXCEPT ![r] = {}]
      BY <1>1, <1>4, <3>1
    <3> HIDE <3>1
    <3>3. ties' = [q \in Ingesters |-> IF q = r THEN {} ELSE f[q]]
      BY <3>2
    <3>4. /\ ties' = [q \in Ingesters |-> ties'[q]] /\ ties'[r] = {}
          /\ \A q \in Ingesters : q # r => ties'[q] = f[q]
      BY <3>3
    <3> QED
      BY <3>1, <3>4
  <2>4. \A b, a : TiedHosts({}, b, a) = {}
    BY DEF TiedHosts, OwnHosts
  <2>5. ASSUME NEW q \in Ingesters, NEW b \in Buckets, NEW a \in Aliases
        PROVE  /\ mapper'[q][b][a] # NoHost => mapper'[q][b][a] \in TiedHosts(ties'[q], b, a)
               /\ TiedHosts(ties'[q], b, a) \subseteq tied[b][a]
    <3>1. CASE q = r
      BY <1>2, <2>1, <2>3, <2>4, <3>1
    <3>2. CASE q # r
      BY <2>1, <2>3, <3>2 DEF MapFits
    <3> QED
      BY <3>1, <3>2
  <2> QED
    BY <2>2, <2>3, <2>5 DEF MapFits
<1> QED
  BY <1>3, <1>4 DEF Kept

(* What is left to be saved keeps its order.                               *)
LEMMA LeftFits ==
    ASSUME NEW td, NEW s \in Systems, NEW w \in Seq(Ents), w # <<>>,
           NEW hs, NEW ah \in [Systems \X Aliases -> Ids \cup {NoHost}],
           JobFits(td, hs, ah, s, w),
           NEW hs2, hs2 = IF Head(w).kind = "host" THEN hs \cup {Head(w).id} ELSE hs,
           NEW ah2, ah2 = IF Head(w).kind = "alias"
                          THEN [ah EXCEPT ![<<s, Head(w).of>>] = Head(w).id] ELSE ah,
           Grows(td, hs, ah, td, hs2, ah2)
    PROVE  JobFits(td, hs2, ah2, s, Tail(w))
<1>1. PICK left : left = Tail(w)
  OBVIOUS
<1>2. /\ Len(w) \in Nat /\ Head(w) = w[1] /\ Len(left) = Len(w) - 1
      /\ \A i \in 1..(Len(w) - 1) : left[i] = w[i + 1]
  BY <1>1, HeadTailProperties, EmptySeq
<1>3. JobFits(td, hs2, ah2, s, w)
  BY JobStillFits
<1> SUFFICES ASSUME NEW i \in 1..(Len(w) - 1)
             PROVE  WriteFits(td, s, left[i])
                    /\ (left[i].kind = "row" => Laid(td, hs2, ah2, s, left, i))
  BY <1>1, <1>2 DEF JobFits
<1>4. PICK k \in 1..Len(w) : k = i + 1
  BY <1>2
<1>5. left[i] = w[k]
  BY <1>2, <1>4
<1>6. WriteFits(td, s, w[k]) /\ (w[k].kind = "row" => Laid(td, hs2, ah2, s, w, k))
  BY <1>3 DEF JobFits
<1>7. ASSUME NEW j \in 1..(k - 1), j # 1
      PROVE  j - 1 \in 1..(i - 1) /\ left[j - 1] = w[j]
  <2>1. j - 1 \in 1..(i - 1) /\ j - 1 \in 1..(Len(w) - 1) /\ (j - 1) + 1 = j
    BY <1>2, <1>4, <1>7
  <2>2. left[j - 1] = w[(j - 1) + 1]
    BY <1>2, <2>1
  <2> QED
    BY <2>1, <2>2
<1>8. ASSUME w[k].kind = "row", NEW m \in w[k].of.about
      PROVE  /\ \/ w[k].id \in hs2
                \/ \E j \in 1..(i - 1) : left[j].kind = "host" /\ left[j].id = w[k].id
             /\ One(td, s, m) =>
                   \/ ah2[<<s, First(s, m)>>] = w[k].id
                   \/ \E j \in 1..(i - 1) : /\ left[j].kind = "alias" /\ left[j].id = w[k].id
                                            /\ left[j].of = First(s, m)
  <2>1. PICK a : a = First(s, m)
    OBVIOUS
  <2>2. a \in Aliases
    <3>1. m \in Known(s)
      BY <1>6, <1>8 DEF WriteFits
    <3> QED
      BY <2>1, <3>1, KnownIs
  <2>3. /\ \/ w[k].id \in hs2
           \/ \E j \in 1..(k - 1) : w[j].kind = "host" /\ w[j].id = w[k].id
        /\ One(td, s, m) =>
              \/ ah2[<<s, a>>] = w[k].id
              \/ \E j \in 1..(k - 1) : w[j].kind = "alias" /\ w[j].id = w[k].id /\ w[j].of = a
    BY <1>6, <1>8, <2>1 DEF Laid
  <2>4. ASSUME NEW j \in 1..(k - 1), w[j].kind = "host", w[j].id = w[k].id
        PROVE  \/ w[k].id \in hs2
               \/ \E l \in 1..(i - 1) : left[l].kind = "host" /\ left[l].id = w[k].id
    <3>1. CASE j = 1
      BY <1>2, <2>4, <3>1
    <3>2. CASE j # 1
      BY <1>7, <2>4, <3>2
    <3> QED
      BY <3>1, <3>2
  <2>5. ASSUME NEW j \in 1..(k - 1), w[j].kind = "alias", w[j].id = w[k].id, w[j].of = a
        PROVE  \/ ah2[<<s, a>>] = w[k].id
               \/ \E l \in 1..(i - 1) : /\ left[l].kind = "alias"
                                        /\ left[l].id = w[k].id /\ left[l].of = a
    <3>1. CASE j = 1
      <4>1. ah2 = [ah EXCEPT ![<<s, a>>] = w[k].id]
        BY <1>2, <2>5, <3>1
      <4> QED
        BY <2>2, <4>1
    <3>2. CASE j # 1
      BY <1>7, <2>5, <3>2
    <3> QED
      BY <3>1, <3>2
  <2> QED
    BY <2>1, <2>3, <2>4, <2>5
<1> QED
  BY <1>5, <1>6, <1>8 DEF Laid

LEMMA SaveEntityKeeps ==
    ASSUME IdentitySound, NEW r \in Ingesters, SaveEntity(r)
    PROVE  IdentitySound'
<1>1. PICK s : s = job[r].source
  OBVIOUS
<1>2. PICK w : w = job[r].writes
  OBVIOUS
<1>3. PICK e : e = Head(w)
  OBVIOUS
<1> DEFINE last == Tail(w) = <<>> /\ job[r].todo = <<>>
           new == IF last THEN NoHost ELSE [job[r] EXCEPT !.writes = Tail(w)]
<1>4. /\ job[r] # NoHost /\ w # <<>>
      /\ hosts' = IF e.kind = "host" THEN hosts \cup {e.id} ELSE hosts
      /\ aliasHost' = IF e.kind = "alias" THEN [aliasHost EXCEPT ![<<s, e.of>>] = e.id]
                      ELSE aliasHost
      /\ hostRows' = IF e.kind = "row" THEN SaveRow(s, e) ELSE hostRows
      /\ job' = [job EXCEPT ![r] = new]
      /\ mapper' = IF last THEN Forgotten(r) ELSE mapper
      /\ ties' = IF last THEN LifeEnded(r) ELSE ties
      /\ tied' = tied
  BY <1>1, <1>2, <1>3 DEF SaveEntity
<1>5. IdentityTypes /\ MapFits /\ WritesFit /\ RowsFit
  BY DEF IdentitySound
<1>6. /\ job[r] \in Jobs /\ s \in Systems /\ w \in Seq(Ents)
      /\ \A x \in ToSet(job[r].todo) : Tells(ties[r], s, x)
  BY <1>1, <1>2, <1>4, <1>5 DEF IdentityTypes, Jobs
<1>7. e \in Ents /\ Tail(w) \in Seq(Ents) /\ e = w[1] /\ 1 \in 1..Len(w)
  <2>1. e \in Ents /\ Tail(w) \in Seq(Ents)
    BY <1>3, <1>4, <1>6, HeadAndTail
  <2> QED
    BY <1>3, <1>4, <1>6, <2>1
<1>8. new \in Jobs \cup {NoHost}
  BY <1>6, <1>7 DEF Jobs
<1>9. new # NoHost => ~last /\ new.source = s /\ new.todo = job[r].todo /\ new.writes = Tail(w)
  BY <1>1, <1>6 DEF Jobs
<1>10. Kept(r) /\ (~last => ties' = ties)
  BY <1>4 DEF Kept, Forgotten, LifeEnded
<1> HIDE DEF new, last
<1>11. job'[r] = new /\ job' \in [Ingesters -> Jobs \cup {NoHost}]
       /\ \A q \in Ingesters : q # r => job'[q] = job[q]
  BY <1>4, <1>5, <1>8 DEF IdentityTypes
<1>12. /\ mapper' \in [Ingesters -> [Buckets -> [Aliases -> Ids \cup {NoHost}]]]
       /\ ties' = [q \in Ingesters |-> ties'[q]]
       /\ \A q \in Ingesters : q # r => ties'[q] = ties[q]
       /\ MapFits'
  BY <1>4, <1>5, <1>10, Forgets
<1>13. aliasHost \in [Systems \X Aliases -> Ids \cup {NoHost}] /\ e.id \in Ids \cup {NoHost}
  BY <1>5, <1>7 DEF IdentityTypes, Ents
<1>14. aliasHost' \in [Systems \X Aliases -> Ids \cup {NoHost}]
  BY <1>4, <1>13
<1>15. WriteFits(tied, s, e) /\ (e.kind = "row" => Laid(tied, hosts, aliasHost, s, w, 1))
  BY <1>1, <1>2, <1>4, <1>5, <1>7 DEF WritesFit, JobFits
<1>16. \A x \in hostRows' : \/ x \in hostRows
                            \/ /\ e.kind = "row"
                               /\ x = [source |-> s, of |-> e.of, id |-> e.id]
  BY <1>4 DEF SaveRow
<1>17. hostRows' \subseteq [source : Systems, of : Subjects, id : Ids \cup {NoHost}]
  BY <1>5, <1>6, <1>13, <1>15, <1>16 DEF IdentityTypes, WriteFits
<1>18. ASSUME NEW q \in Ingesters, job'[q] # NoHost, NEW x \in ToSet(job'[q].todo)
       PROVE  Tells(ties'[q], job'[q].source, x)
  <2>1. CASE q = r
    BY <1>6, <1>9, <1>10, <1>11, <1>18, <2>1
  <2>2. CASE q # r
    BY <1>5, <1>11, <1>12, <1>18, <2>2 DEF IdentityTypes
  <2> QED
    BY <2>1, <2>2
<1>19. IdentityTypes'
  BY <1>11, <1>12, <1>14, <1>17, <1>18 DEF IdentityTypes
<1>20. Grows(tied, hosts, aliasHost, tied, hosts', aliasHost')
  <2>1. ASSUME NEW t \in Systems, NEW a \in Aliases
        PROVE  \/ aliasHost'[<<t, a>>] = aliasHost[<<t, a>>]
               \/ aliasHost'[<<t, a>>] \in tied[BucketOf[t]][a]
    <3>1. <<t, a>> \in DOMAIN aliasHost
      BY <1>13
    <3>2. CASE e.kind = "alias" /\ t = s /\ a = e.of
      <4>1. aliasHost' = [aliasHost EXCEPT ![<<t, a>>] = e.id]
        BY <1>4, <3>2
      <4>2. e.id \in tied[BucketOf[t]][a]
        BY <1>15, <3>2 DEF WriteFits
      <4> QED
        BY <3>1, <4>1, <4>2
    <3>3. CASE ~(e.kind = "alias" /\ t = s /\ a = e.of)
      <4>1. <<s, e.of>> # <<t, a>> \/ e.kind # "alias"
        BY <3>3
      <4> QED
        BY <1>4, <3>1, <4>1
    <3> QED
      BY <3>2, <3>3
  <2> QED
    BY <1>4, <2>1 DEF Grows
<1>21. JobFits(tied, hosts', aliasHost', s, Tail(w))
  <2>1. JobFits(tied, hosts, aliasHost, s, w)
    BY <1>1, <1>2, <1>4, <1>5 DEF WritesFit
  <2> QED
    BY <1>3, <1>4, <1>6, <1>13, <1>20, <2>1, LeftFits
<1>22. WritesFit'
  <2> SUFFICES ASSUME NEW q \in Ingesters, job'[q] # NoHost
               PROVE  JobFits(tied, hosts', aliasHost', job'[q].source, job'[q].writes)
    BY <1>4 DEF WritesFit
  <2>1. CASE q = r
    BY <1>9, <1>11, <1>21, <2>1
  <2>2. CASE q # r
    <3>1. job[q].source \in Systems /\ job'[q] = job[q]
      BY <1>5, <1>11, <2>2 DEF IdentityTypes, Jobs
    <3>2. JobFits(tied, hosts, aliasHost, job[q].source, job[q].writes)
      BY <1>5, <3>1 DEF WritesFit
    <3> QED
      BY <1>20, <3>1, <3>2, JobStillFits
  <2> QED
    BY <2>1, <2>2
<1>23. RowsFit'
  <2> SUFFICES ASSUME NEW x \in hostRows' PROVE RowFits(tied, hosts', aliasHost', x)
    BY <1>4 DEF RowsFit
  <2>1. CASE x \in hostRows
    <3>1. x.source \in Systems /\ RowFits(tied, hosts, aliasHost, x)
      BY <1>5, <2>1 DEF IdentityTypes, RowsFit
    <3> QED
      BY <1>20, <3>1, RowStillFits
  <2>2. CASE e.kind = "row" /\ x = [source |-> s, of |-> e.of, id |-> e.id]
    <3>1. x.source = s /\ x.of = e.of /\ x.id = e.id
      BY <2>2
    <3>2. hosts' = hosts /\ aliasHost' = aliasHost
      BY <1>4, <2>2
    <3>3. \A m \in e.of.about : /\ m \in Known(s) /\ e.id \in Own(tied, s, m) /\ e.id \in hosts
                                /\ One(tied, s, m) => aliasHost[<<s, First(s, m)>>] = e.id
      <4>1. \A m \in e.of.about : m \in Known(s) /\ e.id \in Own(tied, s, m)
        BY <1>15, <2>2 DEF WriteFits
      <4>2. Laid(tied, hosts, aliasHost, s, w, 1) /\ w[1] = e
        BY <1>7, <1>15, <2>2
      <4>3. \A m \in e.of.about : /\ e.id \in hosts
                                  /\ One(tied, s, m) => aliasHost[<<s, First(s, m)>>] = e.id
        BY <4>2 DEF Laid
      <4> QED
        BY <4>1, <4>3
    <3> QED
      BY <3>1, <3>2, <3>3 DEF RowFits
  <2> QED
    BY <1>16, <2>1, <2>2
<1> QED
  BY <1>12, <1>19, <1>22, <1>23 DEF IdentitySound

(* The attempt of a runner ends, and its mapper may be forgotten; or it    *)
(* waits for another.                                                      *)
LEMMA EndKeeps ==
    ASSUME IdentitySound, NEW r \in Ingesters, UNCHANGED <<hosts, aliasHost, hostRows, tied>>,
           \/ job' = [job EXCEPT ![r] = NoHost] /\ Kept(r)
           \/ job[r] # NoHost /\ job' = [job EXCEPT ![r] = Again(job[r].source)]
              /\ UNCHANGED <<mapper, ties>>
    PROVE  IdentitySound'
<1>1. IdentityTypes /\ MapFits
  BY DEF IdentitySound
<1>2. Kept(r)
  BY DEF Kept
<1>3. /\ job' \in [Ingesters -> Jobs \cup {NoHost}]
      /\ \A q \in Ingesters : q # r => job'[q] = job[q]
      /\ job'[r] # NoHost => job'[r].todo = <<>> /\ job'[r].writes = <<>>
  <2>1. job[r] # NoHost => /\ Again(job[r].source) \in Jobs
                           /\ Again(job[r].source).todo = <<>> /\ Again(job[r].source).writes = <<>>
    BY <1>1 DEF IdentityTypes, Jobs, Again
  <2> QED
    BY <1>1, <2>1 DEF IdentityTypes
<1>4. /\ mapper' \in [Ingesters -> [Buckets -> [Aliases -> Ids \cup {NoHost}]]]
      /\ ties' = [q \in Ingesters |-> ties'[q]]
      /\ \A q \in Ingesters : q # r => ties'[q] = ties[q]
      /\ MapFits'
  BY <1>1, <1>2, Forgets
<1>5. ASSUME NEW q \in Ingesters, job'[q] # NoHost, NEW x \in ToSet(job'[q].todo)
      PROVE  Tells(ties'[q], job'[q].source, x)
  <2>1. CASE q = r
    BY <1>3, <1>5, <2>1 DEF ToSet
  <2>2. CASE q # r
    BY <1>1, <1>3, <1>4, <1>5, <2>2 DEF IdentityTypes
  <2> QED
    BY <2>1, <2>2
<1>6. IdentityTypes'
  BY <1>1, <1>3, <1>4, <1>5 DEF IdentityTypes
<1>7. /\ RowsFit'
      /\ \A q \in Ingesters : job[q] # NoHost =>
            JobFits(tied', hosts', aliasHost', job[q].source, job[q].writes)
  BY OthersKept
<1>8. WritesFit'
  <2> SUFFICES ASSUME NEW q \in Ingesters, job'[q] # NoHost
               PROVE  JobFits(tied', hosts', aliasHost', job'[q].source, job'[q].writes)
    BY DEF WritesFit
  <2>1. CASE q = r
    BY <1>3, <2>1 DEF JobFits
  <2>2. CASE q # r
    BY <1>3, <1>7, <2>2
  <2> QED
    BY <2>1, <2>2
<1> QED
  BY <1>4, <1>6, <1>7, <1>8 DEF IdentitySound

LEMMA IdentityStart ==
    ASSUME IdentityInit
    PROVE  IdentitySound
<1>1. \A r \in Ingesters : job[r] = NoHost /\ mapper[r] = Empty /\ ties[r] = {}
  BY DEF IdentityInit
<1>2. /\ Empty \in [Buckets -> [Aliases -> Ids \cup {NoHost}]]
      /\ \A b \in Buckets, a \in Aliases : Empty[b][a] = NoHost
  BY DEF Empty
<1>3. IdentityTypes
  <2>1. ties = [r \in Ingesters |-> ties[r]]
    BY DEF IdentityInit
  <2> QED
    BY <1>1, <1>2, <2>1 DEF IdentityInit, IdentityTypes
<1>4. MapFits
  <2>1. \A b, a : TiedHosts({}, b, a) = {}
    BY DEF TiedHosts, OwnHosts
  <2> QED
    BY <1>1, <1>2, <2>1 DEF MapFits
<1>5. WritesFit
  BY <1>1 DEF WritesFit
<1>6. RowsFit
  BY DEF IdentityInit, RowsFit
<1> QED
  BY <1>3, <1>4, <1>5, <1>6 DEF IdentitySound

-----------------------------------------------------------------------------
(* What is mapped and saved is what was listed: for any machines, systems, *)
(* names, triggers, addresses and runners, any order of collections,       *)
(* problems, pushes and failures, any restarts (normalization.py,          *)
(* ingestion.py).                                                          *)
THEOREM IdentityIsSound == IdentitySpec => []IdentitySound
<1>1. ASSUME IdentitySound, [IdentityNext]_identityVars PROVE IdentitySound'
  <2>1. ASSUME NEW r \in Ingesters, NEW s \in Inventories, CollectInventory(r, s)
        PROVE  IdentitySound'
    BY <1>1, <2>1, InventoryKeeps, NameAssumption
  <2>2. ASSUME NEW r \in Ingesters, NEW s \in Systems \ Inventories, CollectReports(r, s)
        PROVE  IdentitySound'
    BY <1>1, <2>2, ReportsKeep
  <2>3. ASSUME NEW r \in Ingesters, MapEnvelope(r) PROVE IdentitySound'
    BY <1>1, <2>3, MapKeeps
  <2>4. ASSUME NEW r \in Ingesters, SaveEntity(r) PROVE IdentitySound'
    BY <1>1, <2>4, SaveEntityKeeps
  <2>5. ASSUME NEW r \in Ingesters, SaveRaises(r) PROVE IdentitySound'
    BY <1>1, <2>5, EndKeeps DEF SaveRaises, Kept, Forgotten, LifeEnded
  <2>6. CASE RestartWorker
    <3>1. Worker \in Ingesters
      BY DEF Ingesters
    <3> QED
      BY <1>1, <2>6, <3>1, EndKeeps DEF RestartWorker, Kept
  <2>7. CASE UNCHANGED identityVars
    BY <1>1, <2>7 DEF identityVars, IdentitySound, IdentityTypes, MapFits, WritesFit, RowsFit
  <2> QED
    BY <1>1, <2>1, <2>2, <2>3, <2>4, <2>5, <2>6, <2>7 DEF IdentityNext
<1> QED
  BY <1>1, IdentityStart, PTL DEF IdentitySpec

(* A row about a machine is on a host that the listings of one life of a   *)
(* mapper tied the machine to, by names, an address it alone had, or a     *)
(* trigger over several hosts (_resolve_host_id, _register_bucket_aliases).*)
THEOREM HostsAreApart == IdentitySpec => []MachinesApart
<1>1. ASSUME IdentitySound PROVE MachinesApart
  BY <1>1 DEF IdentitySound, RowsFit, RowFits, MachinesApart, TiedTo, Own, First
<1> QED
  BY <1>1, IdentityIsSound, PTL

(* A machine has one host, across restarts, pushes and failed attempts,    *)
(* unless a listing tied its first name to a second host (_resolve_host_id,*)
(* the mapper of the worker).                                              *)
THEOREM MachinesHaveOneHost == IdentitySpec => []OneHost
<1>1. ASSUME IdentitySound PROVE OneHost
  <2> SUFFICES ASSUME NEW x \in hostRows, NEW y \in hostRows,
                      NEW m \in x.of.about \cap y.of.about,
                      BucketOf[x.source] = BucketOf[y.source],
                      Named[x.source][m][1] = Named[y.source][m][1],
                      Undivided(x.source, m)
               PROVE  x.id = y.id
    BY DEF OneHost
  <2>1. x.id \in Own(tied, x.source, m) /\ y.id \in Own(tied, y.source, m)
    BY <1>1 DEF IdentitySound, RowsFit, RowFits
  <2> QED
    BY <2>1 DEF Undivided, TiedTo, Own, First
<1> QED
  BY <1>1, IdentityIsSound, PTL

(* The host of a row about a machine exists, wherever an attempt was cut   *)
(* short, and has an alias of the source of the row, unless the machine    *)
(* was tied to a second host (build_crosscheck_payload).                   *)
THEOREM CoverageIsShown == IdentitySpec => []CoverageShown
<1>1. ASSUME IdentitySound PROVE CoverageShown
  <2> SUFFICES ASSUME NEW x \in hostRows, NEW m \in x.of.about
               PROVE  /\ x.id \in hosts
                      /\ Undivided(x.source, m) =>
                            \E a \in Aliases : aliasHost[<<x.source, a>>] = x.id
    BY DEF CoverageShown
  <2>1. /\ x.source \in Systems /\ m \in Known(x.source) /\ x.id \in hosts
        /\ One(tied, x.source, m) => aliasHost[<<x.source, First(x.source, m)>>] = x.id
    BY <1>1 DEF IdentitySound, IdentityTypes, RowsFit, RowFits
  <2>2. First(x.source, m) \in Aliases
    BY <2>1, KnownIs
  <2>3. Undivided(x.source, m) => One(tied, x.source, m)
    BY DEF Undivided, TiedTo, One, Own, First
  <2> QED
    BY <2>1, <2>2, <2>3
<1> QED
  BY <1>1, IdentityIsSound, PTL
=============================================================================
