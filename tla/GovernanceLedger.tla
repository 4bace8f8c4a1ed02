-------------------------- MODULE GovernanceLedger --------------------------
(***************************************************************************)
(* The event-sourced save path of the governance API:                      *)
(* api/routes/control_governance.py, _save, over the PostgreSQL repository *)
(* (repositories/state_postgres.py).                                       *)
(*                                                                         *)
(* A handler that has decided what to write calls _save, which             *)
(*   1. overwrites the projection row of the entity (own transaction),     *)
(*   2. reads the hash of the newest event of the whole ledger,            *)
(*   3. counts the events of its entity to number the revision,            *)
(*   4. inserts an event that carries the hash read in step 2.             *)
(* FastAPI runs the synchronous handlers in a thread pool and nothing      *)
(* locks, so the steps of two saves interleave; an exception in steps 2-4  *)
(* is swallowed, and so is a restart of the process in their midst.        *)
(*                                                                         *)
(* A record is a member of Payloads.  stamp stands for what makes an event *)
(* unlike every other one (its microsecond occurred_at): the number of the *)
(* save that wrote it.                                                     *)
(***************************************************************************)
EXTENDS Integers, Sequences, FiniteSets

CONSTANTS
    Workers,     \* the threads that run handlers
    Entities,    \* governed objects, (kind, id) in the code
    Payloads,    \* what a record may hold
    NoRecord,    \* no row in the projection
    NoCore,      \* a worker with no save under way
    LoadLimit,   \* the limit of load_governance_events: 2000 in the code
    MayFail,     \* whether an event may fail to be recorded
    MaxSaves     \* bound on the number of saves

ASSUME WorkersAssumption == IsFiniteSet(Workers)
ASSUME LimitAssumption == LoadLimit \in Nat \ {0}
ASSUME BoundAssumption == MaxSaves \in Nat
ASSUME FailAssumption == MayFail \in BOOLEAN

VARIABLES
    projection,  \* the latest record of each entity
    ledger,      \* the event table, in the order of seq
    pc,          \* where each worker is in _save
    core,        \* the event each worker is building
    head,        \* the prev_hash each worker has read
    clock,       \* number of saves begun
    lost,        \* events that were never recorded (what a log line reports)
    overlapped   \* history: a save has begun while another was under way

vars == <<projection, ledger, pc, core, head, clock, lost, overlapped>>

-----------------------------------------------------------------------------
(* The fields the hash covers, _EVENT_HASH_FIELDS; revision 0 is "not yet   *)
(* counted".                                                               *)
Core == [entity : Entities, revision : Nat, payload : Payloads, stamp : Nat]

ASSUME NoCoreAssumption == NoCore \notin Core

Genesis == <<>>

(* sha256 over the previous hash and the fields: no collisions.            *)
Hash(prev, c) == <<prev, c>>

(* Mutant: prev_hash is overwritten with the new hash.                     *)
SelfLinkedEvent(prev, c) ==
    [core |-> c, prev |-> Hash(prev, c), hash |-> Hash(prev, c)]

(* build_governance_event                                                  *)
Event(prev, c) == [core |-> c, prev |-> prev, hash |-> Hash(prev, c)]

(* Hash of the k-th event; the chain starts from the literal "GENESIS".    *)
Digest(s, k) == IF k = 0 THEN Genesis ELSE s[k].hash

(* Mutant: the oldest event instead, ORDER BY seq ASC.                     *)
OldestEvent == IF ledger = <<>> THEN Genesis ELSE Digest(ledger, 1)

(* latest_governance_event: highest seq, or the literal when there is none *)
Latest == Digest(ledger, Len(ledger))

Smaller(m, n) == IF m <= n THEN m ELSE n

(* load_governance_events(): the oldest LoadLimit events                   *)
Loaded(s) == SubSeq(s, 1, Smaller(LoadLimit, Len(s)))

EventsOf(s, e, n) == {i \in 1..n : s[i].core.entity = e}

(* len(load_governance_events(kind, id)) + 1                               *)
Revision(e) == Smaller(LoadLimit, Cardinality(EventsOf(ledger, e, Len(ledger)))) + 1

(* Mutant: the links are not compared.                                     *)
HashesOnly(s) == \A i \in 1..Len(s) : s[i].hash = Hash(s[i].prev, s[i].core)

(* verify_governance_chain: every event hashes to what it says, and links  *)
(* to the event before it; the link of the first one is not looked at.     *)
ChainIntact(s) ==
    /\ \A i \in 1..Len(s) : s[i].hash = Hash(s[i].prev, s[i].core)
    /\ \A i \in 2..Len(s) : s[i].prev = s[i - 1].hash

(* save_governance: INSERT ... ON CONFLICT DO UPDATE, whatever was there   *)
Upserted(e, p) == [projection EXCEPT ![e] = p]

(* Mutant: ON CONFLICT (event_id) DO NOTHING.                              *)
UniqueIdsOnly(ev) ==
    IF \E i \in 1..Len(ledger) :
          /\ ledger[i].core.entity = ev.core.entity
          /\ ledger[i].core.revision = ev.core.revision
    THEN ledger
    ELSE Append(ledger, ev)

(* append_governance_event: a plain INSERT, seq being the next number      *)
Inserted(ev) == Append(ledger, ev)

(* _save returns to its handler                                            *)
Return(w) ==
    /\ pc' = [pc EXCEPT ![w] = "idle"]
    /\ core' = [core EXCEPT ![w] = NoCore]
    /\ head' = [head EXCEPT ![w] = Genesis]

-----------------------------------------------------------------------------
Init ==
    /\ projection = [e \in Entities |-> NoRecord]
    /\ ledger = <<>>
    /\ pc = [w \in Workers |-> "idle"]
    /\ core = [w \in Workers |-> NoCore]
    /\ head = [w \in Workers |-> Genesis]
    /\ clock = 0
    /\ lost = {}
    /\ overlapped = FALSE

(* repo.save_governance(kind, rec["id"], rec)                              *)
SaveProjection(w, e, p) ==
    /\ pc[w] = "idle"
    /\ clock < MaxSaves
    /\ clock' = clock + 1
    /\ projection' = Upserted(e, p)
    /\ core' = [core EXCEPT ![w] = [entity |-> e, revision |-> 0,
                                    payload |-> p, stamp |-> clock + 1]]
    /\ pc' = [pc EXCEPT ![w] = "saved"]
    /\ overlapped' = (overlapped \/ \E v \in Workers : pc[v] # "idle")
    /\ UNCHANGED <<ledger, head, lost>>

(* prev = repo.latest_governance_event()                                   *)
ReadHead(w) ==
    /\ pc[w] = "saved"
    /\ head' = [head EXCEPT ![w] = Latest]
    /\ pc' = [pc EXCEPT ![w] = "linked"]
    /\ UNCHANGED <<projection, ledger, core, clock, lost, overlapped>>

(* revision = len(repo.load_governance_events(kind, id)) + 1, then build   *)
CountRevision(w) ==
    /\ pc[w] = "linked"
    /\ core' = [core EXCEPT ![w].revision = Revision(core[w].entity)]
    /\ pc' = [pc EXCEPT ![w] = "built"]
    /\ UNCHANGED <<projection, ledger, head, clock, lost, overlapped>>

(* repo.append_governance_event(ev)                                        *)
AppendEvent(w) ==
    /\ pc[w] = "built"
    /\ ledger' = Inserted(Event(head[w], core[w]))
    /\ Return(w)
    /\ UNCHANGED <<projection, clock, lost, overlapped>>

(* Any of the three calls raises and the except branch logs a warning, or  *)
(* the process dies there: the projection stays, the event never comes.    *)
FailEvent(w) ==
    /\ MayFail
    /\ pc[w] # "idle"
    /\ lost' = lost \cup {core[w]}
    /\ Return(w)
    /\ UNCHANGED <<projection, ledger, clock, overlapped>>

(* The steps of a save after the projection is written.                    *)
Record(w) == ReadHead(w) \/ CountRevision(w) \/ AppendEvent(w) \/ FailEvent(w)

Next == \E w \in Workers :
            \/ \E e \in Entities, p \in Payloads : SaveProjection(w, e, p)
            \/ Record(w)

Spec == Init /\ [][Next]_vars

-----------------------------------------------------------------------------
(* Properties *)

IsSequence(s) == s \in Seq({s[i] : i \in DOMAIN s})

RecordedStamps == {ledger[i].core.stamp : i \in 1..Len(ledger)}
FlyingStamps == {core[w].stamp : w \in {v \in Workers : pc[v] # "idle"}}
LostStamps == {c.stamp : c \in lost}

(* Values of the right shape; what a digest may be is said by Anchored.    *)
TypeOK ==
    /\ projection \in [Entities -> Payloads \cup {NoRecord}]
    /\ IsSequence(ledger)
    /\ \A i \in 1..Len(ledger) :
          /\ ledger[i].core \in Core
          /\ ledger[i] = Event(ledger[i].prev, ledger[i].core)
    /\ pc \in [Workers -> {"idle", "saved", "linked", "built"}]
    /\ core \in [Workers -> Core \cup {NoCore}]
    /\ \A w \in Workers : (pc[w] = "idle") <=> (core[w] = NoCore)
    /\ head = [w \in Workers |-> head[w]]
    /\ clock \in Nat
    /\ lost \subseteq Core
    /\ overlapped \in BOOLEAN

(* However saves interleave, an event links to GENESIS or to an event      *)
(* inserted before it: the ledger is a tree rooted at GENESIS, and no      *)
(* event points to itself, forward, or to an event that was never stored.  *)
Anchored ==
    \A i \in 1..Len(ledger) :
        \E k \in 0..(i - 1) : ledger[i].prev = Digest(ledger, k)

(* A worker that has read prev_hash holds the hash of a stored event, or   *)
(* GENESIS.                                                                *)
HeadAnchored ==
    \A w \in Workers :
        pc[w] \in {"linked", "built"} =>
            \E k \in 0..Len(ledger) : head[w] = Digest(ledger, k)

(* Two events continue the same event.                                     *)
Forked ==
    \E i, j \in 1..Len(ledger) : i < j /\ ledger[i].prev = ledger[j].prev

(* What a failed verification of the whole ledger means while nobody       *)
(* tampers: exactly that two saves read the same newest event.  Verifying  *)
(* never blames a ledger whose saves did not overlap, and never passes one *)
(* where they did.                                                         *)
BrokenIffForked == ChainIntact(ledger) <=> ~Forked

(* Nothing is silently counted twice or dropped: the saves begun are the   *)
(* events recorded, those under way and those lost to a failure, each save *)
(* in one place only.                                                      *)
EverySaveAccounted ==
    /\ RecordedStamps \cup FlyingStamps \cup LostStamps = 1..clock
    /\ RecordedStamps \cap FlyingStamps = {}
    /\ RecordedStamps \cap LostStamps = {}
    /\ FlyingStamps \cap LostStamps = {}
    /\ \A i, j \in 1..Len(ledger) :
          ledger[i].core.stamp = ledger[j].core.stamp => i = j
    /\ \A w, v \in Workers :
          /\ pc[w] # "idle"
          /\ pc[v] # "idle"
          /\ core[w].stamp = core[v].stamp
          => w = v

(* A revision number may lag behind (a stale count, the load limit) but    *)
(* never runs ahead of the events the entity has in the ledger.            *)
RevisionBounded ==
    \A i \in 1..Len(ledger) :
        LET c == ledger[i].core
        IN  c.revision \in 1..(Cardinality(EventsOf(ledger, c.entity, i - 1)) + 1)

-----------------------------------------------------------------------------
(* What an event may say: its revision is a count that stops at the limit. *)
Recordable ==
    [entity : Entities, revision : 1..(LoadLimit + 1),
     payload : Payloads, stamp : 1..MaxSaves]

(* The log promised to readers.                                            *)
Promise == INSTANCE ChainedLog WITH
    Entry <- Recordable, Root <- Genesis, Link <- Hash,
    log <- [i \in 1..Len(ledger) |-> [entry |-> ledger[i].core,
                                      prev |-> ledger[i].prev]]

(* As long as one save is under way at a time, the event table is the      *)
(* append-only chained log of its documentation.                           *)
ImplementsChainedLog ==
    Promise!Init /\ [][overlapped' \/ Promise!Next]_ledger

-----------------------------------------------------------------------------
(* What the documentation says of the ledger and two overlapping saves     *)
(* break: README, section 5.                                               *)

(* docs/CONTROL_GOVERNANCE.md: when two requests update at once each       *)
(* change stays in the ledger, as GET /governance/events/verify shows.     *)
ConcurrentSavesVerify == ChainIntact(Loaded(ledger))
=============================================================================
