-------------------------- MODULE HashChainProofs --------------------------
(***************************************************************************)
(* Proofs about the two hash chains of the API: GovernanceLedger, for any  *)
(* number of workers, entities, records and saves, and any load limit, and *)
(* AuditLog, for any number of threads, calls and faults, and any window.  *)
(***************************************************************************)
EXTENDS GovernanceLedger, AuditLog, SequenceTheorems, FiniteSetTheorems, WellFoundedInduction,
        TLAPS

-----------------------------------------------------------------------------
(* Proofs need it spelled out that a function on 1..n is a sequence.       *)
LEMMA SeqOfFunction ==
    ASSUME NEW T, NEW n \in Nat, NEW f \in [1..n -> T]
    PROVE  f \in Seq(T)
OBVIOUS

(* Appending to the ledger keeps the old events where they were and puts   *)
(* the new one after them (append_governance_event).                       *)
LEMMA AppendFacts ==
    ASSUME NEW s, IsSequence(s), NEW x
    PROVE  /\ Len(s) \in Nat
           /\ Len(Append(s, x)) = Len(s) + 1
           /\ Append(s, x)[Len(s) + 1] = x
           /\ \A i \in 1..Len(s) : Append(s, x)[i] = s[i]
           /\ IsSequence(Append(s, x))
<1> DEFINE S == {s[i] : i \in DOMAIN s}
           t == Append(s, x)
           T == {t[i] : i \in DOMAIN t}
<1>1. s \in Seq(S \cup {x}) /\ x \in S \cup {x}
  BY DEF IsSequence
<1>2. /\ Len(s) \in Nat
      /\ Len(t) = Len(s) + 1
      /\ DOMAIN t = 1..Len(t)
      /\ t[Len(s) + 1] = x
      /\ \A i \in 1..Len(s) : t[i] = s[i]
  BY <1>1
<1>3. t \in [1..Len(t) -> S \cup {x}] /\ Len(t) \in Nat
  BY <1>1, AppendProperties, LenProperties
<1>4. t \in [1..Len(t) -> T]
  BY <1>2, <1>3
<1> HIDE DEF T
<1>5. t \in Seq(T)
  BY <1>3, <1>4, SeqOfFunction
<1> QED
  BY <1>2, <1>5 DEF IsSequence, T

(* What an INSERT into the event table changes (append_governance_event).  *)
LEMMA LedgerGrows ==
    ASSUME IsSequence(ledger), NEW w, AppendEvent(w)
    PROVE  /\ Len(ledger) \in Nat
           /\ Len(ledger') = Len(ledger) + 1
           /\ ledger'[Len(ledger) + 1] = Event(head[w], core[w])
           /\ \A i \in 1..Len(ledger) : ledger'[i] = ledger[i]
           /\ IsSequence(ledger')
<1> DEFINE ev == Event(head[w], core[w])
<1>1. ledger' = Append(ledger, ev)
  BY DEF AppendEvent, Inserted
<1> HIDE DEF ev
<1>2. /\ Len(ledger) \in Nat
      /\ Len(Append(ledger, ev)) = Len(ledger) + 1
      /\ Append(ledger, ev)[Len(ledger) + 1] = ev
      /\ \A i \in 1..Len(ledger) : Append(ledger, ev)[i] = ledger[i]
      /\ IsSequence(Append(ledger, ev))
  BY AppendFacts
<1> QED
  BY <1>1, <1>2 DEF ev

(* The events of an entity are finitely many, and counting them numbers a  *)
(* revision (load_governance_events, with its limit).                      *)
LEMMA EventsFinite ==
    ASSUME NEW s, NEW e, NEW n \in Nat
    PROVE  /\ IsFiniteSet(EventsOf(s, e, n))
           /\ Cardinality(EventsOf(s, e, n)) \in Nat
<1>1. IsFiniteSet(1..n)
  BY FS_Interval
<1>2. EventsOf(s, e, n) \subseteq 1..n
  BY DEF EventsOf
<1> QED
  BY <1>1, <1>2, FS_Subset, FS_CardinalityType

LEMMA RevisionIsNat ==
    ASSUME IsSequence(ledger), NEW e
    PROVE  Revision(e) \in 1..(Cardinality(EventsOf(ledger, e, Len(ledger))) + 1)
<1>1. Len(ledger) \in Nat
  BY LenProperties DEF IsSequence
<1>2. Cardinality(EventsOf(ledger, e, Len(ledger))) \in Nat
  BY <1>1, EventsFinite
<1> QED
  BY <1>2, LimitAssumption DEF Revision, Smaller

-----------------------------------------------------------------------------
(* Every reachable value has the right shape (TypeOK): each event carries  *)
(* the hash of its own fields and its own link.                            *)
LEMMA TypeInit == Init => TypeOK
<1> SUFFICES ASSUME Init PROVE TypeOK
  OBVIOUS
<1>1. ledger = <<>> /\ IsSequence(ledger)
  BY DEF Init, IsSequence
<1>2. Len(ledger) = 0
  BY <1>1
<1>3. overlapped \in BOOLEAN
  BY Zenon DEF Init
<1>4. \A w \in Workers : (pc[w] = "idle") <=> (core[w] = NoCore)
  BY DEF Init
<1>5. \A i \in 1..Len(ledger) :
        /\ ledger[i].core \in Core
        /\ ledger[i] = Event(ledger[i].prev, ledger[i].core)
  BY <1>2
<1>6. /\ projection \in [Entities -> Payloads \cup {NoRecord}]
      /\ pc \in [Workers -> {"idle", "saved", "linked", "built"}]
      /\ core \in [Workers -> Core \cup {NoCore}]
      /\ head = [w \in Workers |-> head[w]]
      /\ clock \in Nat
      /\ lost \subseteq Core
  BY DEF Init
<1> QED
  BY <1>1, <1>3, <1>4, <1>5, <1>6, Zenon DEF TypeOK

LEMMA TypeNext == TypeOK /\ [Next]_vars => TypeOK'
<1> SUFFICES ASSUME TypeOK, [Next]_vars PROVE TypeOK'
  OBVIOUS
<1> USE NoCoreAssumption
<1>0. ASSUME UNCHANGED ledger
      PROVE  /\ IsSequence(ledger')
             /\ \A i \in 1..Len(ledger') :
                   /\ ledger'[i].core \in Core
                   /\ ledger'[i] = Event(ledger'[i].prev, ledger'[i].core)
  BY <1>0 DEF TypeOK
<1>1. ASSUME NEW w \in Workers, NEW e \in Entities, NEW p \in Payloads,
             SaveProjection(w, e, p)
      PROVE  TypeOK'
  <2>1. [entity |-> e, revision |-> 0, payload |-> p, stamp |-> clock + 1]
          \in Core
    BY DEF TypeOK, Core
  <2> QED
    BY <1>1, <2>1 DEF SaveProjection, Upserted, TypeOK, IsSequence
<1>2. ASSUME NEW w \in Workers, ReadHead(w)
      PROVE  TypeOK'
  <2>1. /\ pc[w] = "saved" /\ UNCHANGED <<projection, ledger, core, clock, lost, overlapped>>
        /\ head' = [head EXCEPT ![w] = Latest] /\ pc' = [pc EXCEPT ![w] = "linked"]
    BY <1>2 DEF ReadHead
  <2>2. /\ pc' \in [Workers -> {"idle", "saved", "linked", "built"}]
        /\ head' = [v \in Workers |-> head'[v]]
    BY <2>1 DEF TypeOK
  <2>3. \A v \in Workers : (pc'[v] = "idle") <=> (core'[v] = NoCore)
    BY <2>1 DEF TypeOK
  <2> QED
    BY <1>0, <2>1, <2>2, <2>3 DEF TypeOK
<1>3. ASSUME NEW w \in Workers, CountRevision(w)
      PROVE  TypeOK'
  <2>1. core[w] \in Core
    BY <1>3 DEF CountRevision, TypeOK
  <2>2. Revision(core[w].entity) \in Nat
    BY RevisionIsNat DEF TypeOK
  <2>3. [core[w] EXCEPT !.revision = Revision(core[w].entity)] \in Core
    BY <2>1, <2>2 DEF Core
  <2> QED
    BY <1>3, <2>3 DEF CountRevision, TypeOK, IsSequence
<1>4. ASSUME NEW w \in Workers, AppendEvent(w)
      PROVE  TypeOK'
  <2>1. core[w] \in Core
    BY <1>4 DEF AppendEvent, TypeOK
  <2>2. IsSequence(ledger)
    BY DEF TypeOK
  <2>3. /\ Event(head[w], core[w]).core = core[w]
        /\ Event(head[w], core[w]).prev = head[w]
    BY DEF Event
  <2>4. /\ Len(ledger) \in Nat
        /\ Len(ledger') = Len(ledger) + 1
        /\ ledger'[Len(ledger) + 1] = Event(head[w], core[w])
        /\ \A i \in 1..Len(ledger) : ledger'[i] = ledger[i]
        /\ IsSequence(ledger')
    BY <1>4, <2>2, LedgerGrows
  <2>5. ASSUME NEW i \in 1..Len(ledger')
        PROVE  /\ ledger'[i].core \in Core
               /\ ledger'[i] = Event(ledger'[i].prev, ledger'[i].core)
    <3>1. CASE i = Len(ledger) + 1
      BY <3>1, <2>1, <2>3, <2>4
    <3>2. CASE i \in 1..Len(ledger)
      BY <3>2, <2>4 DEF TypeOK
    <3> QED
      BY <3>1, <3>2, <2>4
  <2> QED
    BY <1>4, <2>4, <2>5 DEF AppendEvent, Return, TypeOK, IsSequence
<1>5. ASSUME NEW w \in Workers, FailEvent(w)
      PROVE  TypeOK'
  <2>1. /\ pc[w] # "idle" /\ lost' = lost \cup {core[w]}
        /\ pc' = [pc EXCEPT ![w] = "idle"] /\ core' = [core EXCEPT ![w] = NoCore]
        /\ head' = [head EXCEPT ![w] = Genesis]
        /\ UNCHANGED <<projection, ledger, clock, overlapped>>
    BY <1>5 DEF FailEvent, Return
  <2>2. /\ pc' \in [Workers -> {"idle", "saved", "linked", "built"}]
        /\ core' \in [Workers -> Core \cup {NoCore}]
        /\ head' = [v \in Workers |-> head'[v]]
    BY <2>1 DEF TypeOK
  <2>3. \A v \in Workers : (pc'[v] = "idle") <=> (core'[v] = NoCore)
    BY <2>1 DEF TypeOK
  <2>4. lost' \subseteq Core
    BY <2>1 DEF TypeOK
  <2> QED
    BY <1>0, <2>1, <2>2, <2>3, <2>4 DEF TypeOK
<1>6. ASSUME UNCHANGED vars
      PROVE  TypeOK'
  BY <1>6 DEF vars, TypeOK, IsSequence
<1> QED
  BY <1>1, <1>2, <1>3, <1>4, <1>5, <1>6 DEF Next, Record

(* Type correctness of the save path: the events stored are whole, and a   *)
(* worker builds an event exactly while it is in _save.                    *)
THEOREM TypeCorrect == Spec => []TypeOK
BY TypeInit, TypeNext, PTL DEF Spec

-----------------------------------------------------------------------------
(* Every save is recorded, under way or lost, and in one place only        *)
(* (_save swallows failures but never duplicates an event).                *)
LEMMA AccountInit == Init => EverySaveAccounted
<1> SUFFICES ASSUME Init PROVE EverySaveAccounted
  OBVIOUS
<1>1. Len(ledger) = 0
  BY DEF Init
<1>2. RecordedStamps = {} /\ FlyingStamps = {} /\ LostStamps = {}
  BY <1>1 DEF Init, RecordedStamps, FlyingStamps, LostStamps
<1>3. 1..clock = {}
  BY DEF Init
<1> QED
  BY <1>1, <1>2, <1>3 DEF Init, EverySaveAccounted

LEMMA AccountNext ==
    TypeOK /\ EverySaveAccounted /\ [Next]_vars => EverySaveAccounted'
<1> SUFFICES ASSUME TypeOK, EverySaveAccounted, [Next]_vars
             PROVE  EverySaveAccounted'
  OBVIOUS
<1>0. FlyingStamps \subseteq 1..clock /\ clock \in Nat
  BY DEF EverySaveAccounted, TypeOK
<1>1. ASSUME NEW w \in Workers, NEW e \in Entities, NEW p \in Payloads,
             SaveProjection(w, e, p)
      PROVE  EverySaveAccounted'
  <2>1. /\ RecordedStamps' = RecordedStamps
        /\ LostStamps' = LostStamps
        /\ clock' = clock + 1
    BY <1>1 DEF SaveProjection, RecordedStamps, LostStamps
  <2>2. /\ pc' = [pc EXCEPT ![w] = "saved"]
        /\ core'[w].stamp = clock + 1
        /\ \A v \in Workers \ {w} : core'[v] = core[v]
    BY <1>1 DEF SaveProjection, TypeOK
  <2>3. FlyingStamps' = FlyingStamps \cup {clock + 1}
    BY <1>1, <2>2 DEF SaveProjection, FlyingStamps, TypeOK
  <2>4. 1..(clock + 1) = (1..clock) \cup {clock + 1} /\ clock + 1 \notin 1..clock
    BY <1>0
  <2>5. \A v \in Workers : pc[v] # "idle" => core[v].stamp # clock + 1
    BY <1>0, <2>4 DEF FlyingStamps
  <2>6. \A u, v \in Workers :
            pc'[u] # "idle" /\ pc'[v] # "idle" /\ core'[u].stamp = core'[v].stamp
              => u = v
    BY <2>2, <2>5 DEF EverySaveAccounted, TypeOK
  <2>7. ledger' = ledger
    BY <1>1 DEF SaveProjection
  <2> QED
    BY <2>1, <2>3, <2>4, <2>6, <2>7 DEF EverySaveAccounted
<1>2. ASSUME NEW w \in Workers, ReadHead(w) \/ CountRevision(w)
      PROVE  EverySaveAccounted'
  <2>1. /\ UNCHANGED <<ledger, clock, lost>>
        /\ \A v \in Workers : /\ pc'[v] = "idle" <=> pc[v] = "idle"
                              /\ pc[v] # "idle" => core'[v].stamp = core[v].stamp
    BY <1>2 DEF ReadHead, CountRevision, TypeOK, Core
  <2>2. /\ RecordedStamps' = RecordedStamps
        /\ LostStamps' = LostStamps
        /\ FlyingStamps' = FlyingStamps
    BY <2>1 DEF RecordedStamps, LostStamps, FlyingStamps
  <2> QED
    BY <2>1, <2>2 DEF EverySaveAccounted
<1>3. ASSUME NEW w \in Workers, AppendEvent(w) \/ FailEvent(w)
      PROVE  FlyingStamps' = FlyingStamps \ {core[w].stamp} /\ core[w].stamp \in FlyingStamps
  <2>1. /\ pc[w] # "idle"
        /\ pc' = [pc EXCEPT ![w] = "idle"]
        /\ \A v \in Workers \ {w} : core'[v] = core[v]
    BY <1>3 DEF AppendEvent, FailEvent, Return, TypeOK
  <2> QED
    BY <2>1 DEF FlyingStamps, EverySaveAccounted, TypeOK
<1>4. ASSUME NEW w \in Workers, AppendEvent(w) \/ FailEvent(w)
      PROVE  \A u, v \in Workers :
                pc'[u] # "idle" /\ pc'[v] # "idle" /\ core'[u].stamp = core'[v].stamp
                  => u = v
  BY <1>4 DEF AppendEvent, FailEvent, Return, EverySaveAccounted, TypeOK
<1>5. ASSUME NEW w \in Workers, AppendEvent(w)
      PROVE  EverySaveAccounted'
  <2>1. /\ Len(ledger) \in Nat
        /\ Len(ledger') = Len(ledger) + 1
        /\ ledger'[Len(ledger) + 1] = Event(head[w], core[w])
        /\ \A i \in 1..Len(ledger) : ledger'[i] = ledger[i]
    <3>1. IsSequence(ledger)
      BY DEF TypeOK
    <3> QED
      BY <1>5, <3>1, LedgerGrows
  <2>2. 1..Len(ledger') = (1..Len(ledger)) \cup {Len(ledger) + 1}
    BY <2>1
  <2>2a. ledger'[Len(ledger) + 1].core = core[w]
    BY <2>1 DEF Event
  <2>3. RecordedStamps' = RecordedStamps \cup {core[w].stamp}
    BY <2>1, <2>2, <2>2a DEF RecordedStamps
  <2>4. core[w].stamp \notin RecordedStamps
    BY <1>5, <1>3 DEF EverySaveAccounted
  <2>5. \A i, j \in 1..Len(ledger') :
            ledger'[i].core.stamp = ledger'[j].core.stamp => i = j
    BY <2>1, <2>2, <2>2a, <2>4 DEF EverySaveAccounted, RecordedStamps
  <2>6. LostStamps' = LostStamps /\ clock' = clock
    BY <1>5 DEF AppendEvent, LostStamps
  <2> QED
    BY <1>3, <1>4, <1>5, <2>3, <2>4, <2>5, <2>6 DEF EverySaveAccounted
<1>6. ASSUME NEW w \in Workers, FailEvent(w)
      PROVE  EverySaveAccounted'
  <2>1. LostStamps' = LostStamps \cup {core[w].stamp}
    BY <1>6 DEF FailEvent, LostStamps
  <2>2. UNCHANGED <<ledger, clock>> /\ RecordedStamps' = RecordedStamps
    BY <1>6 DEF FailEvent, RecordedStamps
  <2> QED
    BY <1>3, <1>4, <1>6, <2>1, <2>2 DEF EverySaveAccounted
<1>7. ASSUME UNCHANGED vars
      PROVE  EverySaveAccounted'
  <2>1. /\ RecordedStamps' = RecordedStamps
        /\ FlyingStamps' = FlyingStamps
        /\ LostStamps' = LostStamps
    BY <1>7 DEF vars, RecordedStamps, FlyingStamps, LostStamps
  <2> QED
    BY <1>7, <2>1 DEF vars, EverySaveAccounted
<1> QED
  BY <1>1, <1>2, <1>5, <1>6, <1>7 DEF Next, Record

(* No interleaving and no failure duplicates an event or drops one that is *)
(* not accounted for as lost.                                              *)
THEOREM SavesAccounted == Spec => []EverySaveAccounted
BY AccountInit, AccountNext, TypeCorrect, PTL DEF Spec

-----------------------------------------------------------------------------
(* The digests a worker may hold or an event may link to: GENESIS, or the  *)
(* hash of an event already stored (latest_governance_event).              *)
LEMMA LatestIsDigest ==
    ASSUME IsSequence(ledger)
    PROVE  \E k \in 0..Len(ledger) : Latest = Digest(ledger, k)
<1>1. Len(ledger) \in Nat
  BY LenProperties DEF IsSequence
<1> QED
  BY <1>1 DEF Latest

LEMMA DigestKept ==
    ASSUME IsSequence(ledger), NEW w, AppendEvent(w), NEW k \in 0..Len(ledger)
    PROVE  Digest(ledger', k) = Digest(ledger, k)
<1>1. Len(ledger) \in Nat /\ \A i \in 1..Len(ledger) : ledger'[i] = ledger[i]
  BY LedgerGrows
<1> QED
  BY <1>1 DEF Digest

Links == Anchored /\ HeadAnchored

LEMMA LinksInit == Init => Links
<1> SUFFICES ASSUME Init PROVE Links
  OBVIOUS
<1>1. Len(ledger) = 0
  BY DEF Init
<1> QED
  BY <1>1 DEF Init, Links, Anchored, HeadAnchored

LEMMA LinksNext == TypeOK /\ Links /\ [Next]_vars => Links'
<1> SUFFICES ASSUME TypeOK, Links, [Next]_vars PROVE Links'
  OBVIOUS
<1>0. IsSequence(ledger) /\ Len(ledger) \in Nat
  BY LenProperties DEF TypeOK, IsSequence
<1>1. ASSUME UNCHANGED ledger,
             \A v \in Workers : pc'[v] \in {"linked", "built"} =>
                \/ pc[v] \in {"linked", "built"} /\ head'[v] = head[v]
                \/ head'[v] = Latest
      PROVE  Links'
  BY <1>0, <1>1, LatestIsDigest DEF Links, Anchored, HeadAnchored
<1>2. ASSUME NEW w \in Workers, NEW e \in Entities, NEW p \in Payloads,
             SaveProjection(w, e, p)
      PROVE  Links'
  BY <1>1, <1>2 DEF SaveProjection, TypeOK
<1>3. ASSUME NEW w \in Workers, ReadHead(w)
      PROVE  Links'
  <2>1. \A v \in Workers : head'[v] = IF v = w THEN Latest ELSE head[v]
    BY <1>3 DEF ReadHead, TypeOK
  <2> QED
    BY <1>1, <1>3, <2>1 DEF ReadHead, TypeOK
<1>4. ASSUME NEW w \in Workers, CountRevision(w)
      PROVE  Links'
  BY <1>1, <1>4 DEF CountRevision, TypeOK
<1>5. ASSUME NEW w \in Workers, AppendEvent(w)
      PROVE  Links'
  <2>1. /\ Len(ledger') = Len(ledger) + 1
        /\ ledger'[Len(ledger) + 1] = Event(head[w], core[w])
        /\ \A i \in 1..Len(ledger) : ledger'[i] = ledger[i]
    BY <1>0, <1>5, LedgerGrows
  <2>2. \A k \in 0..Len(ledger) : Digest(ledger', k) = Digest(ledger, k)
    BY <1>0, <1>5, DigestKept
  <2>3. ledger'[Len(ledger) + 1].prev = head[w]
    BY <2>1 DEF Event
  <2>4. \E k \in 0..Len(ledger) : head[w] = Digest(ledger, k)
    BY <1>5 DEF Links, HeadAnchored, AppendEvent
  <2>5. ASSUME NEW i \in 1..Len(ledger')
        PROVE  \E k \in 0..(i - 1) : ledger'[i].prev = Digest(ledger', k)
    <3>1. CASE i = Len(ledger) + 1
      BY <3>1, <1>0, <2>2, <2>3, <2>4
    <3>2. CASE i \in 1..Len(ledger)
      <4>1. \E k \in 0..(i - 1) : ledger[i].prev = Digest(ledger, k)
        BY <3>2 DEF Links, Anchored
      <4>2. \A k \in 0..(i - 1) : k \in 0..Len(ledger)
        BY <1>0, <3>2
      <4> QED
        BY <2>1, <2>2, <3>2, <4>1, <4>2
    <3>3. Len(ledger) \in Nat /\ Len(ledger') = Len(ledger) + 1
      BY <1>0, <1>5, LedgerGrows
    <3>4. i = Len(ledger) + 1 \/ i \in 1..Len(ledger)
      BY <3>3
    <3> QED
      BY <3>1, <3>2, <3>4
  <2>6. ASSUME NEW v \in Workers, pc'[v] \in {"linked", "built"}
        PROVE  \E k \in 0..Len(ledger') : head'[v] = Digest(ledger', k)
    <3>1. pc[v] \in {"linked", "built"} /\ head'[v] = head[v]
      BY <1>5, <2>6 DEF AppendEvent, Return, TypeOK
    <3> QED
      BY <3>1, <1>0, <2>1, <2>2 DEF Links, HeadAnchored
  <2> QED
    BY <2>5, <2>6 DEF Links, Anchored, HeadAnchored
<1>6. ASSUME NEW w \in Workers, FailEvent(w)
      PROVE  Links'
  BY <1>1, <1>6 DEF FailEvent, Return, TypeOK
<1>7. ASSUME UNCHANGED vars
      PROVE  Links'
  BY <1>1, <1>7 DEF vars
<1> QED
  BY <1>2, <1>3, <1>4, <1>5, <1>6, <1>7 DEF Next, Record

(* The ledger is a tree rooted at GENESIS whatever the interleaving: no    *)
(* event links forward, to itself or to an event that was never stored.    *)
THEOREM LedgerAnchored == Spec => []Anchored
<1>1. Spec => []Links
  BY LinksInit, LinksNext, TypeCorrect, PTL DEF Spec
<1>2. Links => Anchored
  BY DEF Links
<1> QED
  BY <1>1, <1>2, PTL

-----------------------------------------------------------------------------
(* A failed verification means a fork, and a fork means a failed           *)
(* verification (verify_governance_chain on a ledger nobody altered).      *)

(* Events, and GENESIS, have digests of their own: each save stamps its    *)
(* event differently.                                                      *)
LEMMA DigestsDiffer ==
    ASSUME TypeOK, EverySaveAccounted,
           NEW j \in 0..Len(ledger), NEW k \in 0..Len(ledger), j # k
    PROVE  Digest(ledger, j) # Digest(ledger, k)
<1>0. Len(ledger) \in Nat
  BY LenProperties DEF TypeOK, IsSequence
<1>1. \A i \in 1..Len(ledger) :
         Digest(ledger, i) = <<ledger[i].prev, ledger[i].core>>
  <2> SUFFICES ASSUME NEW i \in 1..Len(ledger)
               PROVE  Digest(ledger, i) = <<ledger[i].prev, ledger[i].core>>
    OBVIOUS
  <2>1. ledger[i].hash = Hash(ledger[i].prev, ledger[i].core)
    <3>1. ledger[i] = Event(ledger[i].prev, ledger[i].core)
      BY DEF TypeOK
    <3>2. Event(ledger[i].prev, ledger[i].core).hash
            = Hash(ledger[i].prev, ledger[i].core)
      BY DEF Event
    <3> QED
      BY <3>1, <3>2
  <2>2. Digest(ledger, i) = ledger[i].hash
    BY <1>0 DEF Digest
  <2> QED
    BY <2>1, <2>2 DEF Hash
<1>2. Digest(ledger, 0) = <<>>
  BY DEF Digest, Genesis
<1>3. \A i \in 1..Len(ledger) : Digest(ledger, i) # <<>>
  BY <1>1
<1>4. CASE j \in 1..Len(ledger) /\ k \in 1..Len(ledger)
  <2>1. ledger[j].core # ledger[k].core
    BY <1>4 DEF EverySaveAccounted
  <2> QED
    BY <1>1, <1>4, <2>1
<1> QED
  BY <1>0, <1>2, <1>3, <1>4

(* In an intact chain the i-th event links to the one before it, the first *)
(* one to GENESIS.                                                         *)
LEMMA IntactLinks ==
    ASSUME IsSequence(ledger), Anchored, ChainIntact(ledger),
           NEW i \in 1..Len(ledger)
    PROVE  ledger[i].prev = Digest(ledger, i - 1)
<1>0. Len(ledger) \in Nat
  BY LenProperties DEF IsSequence
<1>1. CASE i = 1
  <2>1. PICK k \in 0..(i - 1) : ledger[i].prev = Digest(ledger, k)
    BY DEF Anchored
  <2> QED
    BY <1>1, <2>1
<1>2. CASE i \in 2..Len(ledger)
  BY <1>0, <1>2 DEF ChainIntact, Digest
<1> QED
  BY <1>0, <1>1, <1>2

LEMMA VerdictInit == Init => BrokenIffForked
<1> SUFFICES ASSUME Init PROVE BrokenIffForked
  OBVIOUS
<1>1. Len(ledger) = 0
  BY DEF Init
<1> QED
  BY <1>1 DEF BrokenIffForked, ChainIntact, Forked

(* The one step that matters: an event that links to the k-th one is       *)
(* inserted after n others.                                                *)
LEMMA VerdictAppend ==
    ASSUME TypeOK, TypeOK', EverySaveAccounted, Links, BrokenIffForked,
           NEW w \in Workers, AppendEvent(w)
    PROVE  BrokenIffForked'
<1> DEFINE n == Len(ledger)
<1>0. IsSequence(ledger) /\ n \in Nat
  BY LenProperties DEF TypeOK, IsSequence
<1>1. /\ Len(ledger') = n + 1
      /\ ledger'[n + 1] = Event(head[w], core[w])
      /\ \A i \in 1..n : ledger'[i] = ledger[i]
  BY <1>0, LedgerGrows
<1>2. ledger'[n + 1].prev = head[w]
  BY <1>1 DEF Event
<1>3. PICK k \in 0..n : head[w] = Digest(ledger, k)
  BY DEF Links, HeadAnchored, AppendEvent
<1>4. /\ \A i \in 1..n : ledger[i].hash = Hash(ledger[i].prev, ledger[i].core)
      /\ \A i \in 1..(n + 1) :
            ledger'[i].hash = Hash(ledger'[i].prev, ledger'[i].core)
  BY <1>1 DEF TypeOK, Event
<1>5. CASE k = n
  <2>1. ChainIntact(ledger') <=> ChainIntact(ledger)
    <3>1. n + 1 \in 2..(n + 1) => ledger'[n + 1].prev = ledger'[n].hash
      BY <1>0, <1>1, <1>2, <1>3, <1>5 DEF Digest
    <3>2. \A i \in 2..n : /\ ledger'[i].prev = ledger[i].prev
                          /\ ledger'[i - 1].hash = ledger[i - 1].hash
      BY <1>0, <1>1
    <3>3. \A i \in 2..(n + 1) : i \in 2..n \/ i = n + 1
      BY <1>0
    <3>4. 2..n \subseteq 2..(n + 1)
      BY <1>0
    <3>5. (\A i \in 2..(n + 1) : ledger'[i].prev = ledger'[i - 1].hash)
            <=> \A i \in 2..n : ledger[i].prev = ledger[i - 1].hash
      <4>1. n + 1 \in 2..(n + 1) => ledger'[n + 1].prev = ledger'[(n + 1) - 1].hash
        BY <1>0, <3>1
      <4> QED
        BY <3>2, <3>3, <3>4, <4>1
    <3> QED
      BY <1>1, <1>4, <3>5 DEF ChainIntact
  <2>2. \A i \in 1..n : ledger[i].prev # ledger'[n + 1].prev
    <3>1. SUFFICES ASSUME NEW i \in 1..n
                   PROVE  ledger[i].prev # Digest(ledger, n)
      BY <1>2, <1>3, <1>5
    <3>2. PICK m \in 0..(i - 1) : ledger[i].prev = Digest(ledger, m)
      BY DEF Links, Anchored
    <3>3. m \in 0..n /\ m # n /\ n \in 0..n
      BY <1>0
    <3> QED
      BY <3>2, <3>3, DigestsDiffer
  <2>3. Forked' <=> Forked
    <3>1. \A i \in 1..n : ledger'[i] = ledger[i] /\ i # n + 1
      BY <1>0, <1>1
    <3>2. 1..Len(ledger') = 1..n \cup {n + 1}
      BY <1>0, <1>1
    <3> QED
      <4>1. ASSUME Forked PROVE Forked'
        <5>1. PICK i, j \in 1..n : i < j /\ ledger[i].prev = ledger[j].prev
          BY <1>0, <1>1, <4>1 DEF Forked
        <5> QED
          BY <3>1, <3>2, <5>1 DEF Forked
      <4>2. ASSUME Forked' PROVE Forked
        <5>1. PICK i, j \in 1..Len(ledger') : i < j /\ ledger'[i].prev = ledger'[j].prev
          BY <4>2 DEF Forked
        <5>2. i \in 1..n /\ (j \in 1..n \/ j = n + 1)
          BY <1>0, <3>2, <5>1
        <5>3. j \in 1..n
          BY <2>2, <3>1, <5>1, <5>2
        <5> QED
          BY <1>1, <3>1, <5>1, <5>2, <5>3 DEF Forked
      <4> QED
        BY <4>1, <4>2
  <2> QED
    BY <2>1, <2>3 DEF BrokenIffForked
<1>6. CASE k < n
  <2>1. ledger'[n + 1].prev # ledger'[n].hash
    <3>1. Digest(ledger, k) # Digest(ledger, n)
      BY <1>0, <1>6, DigestsDiffer
    <3> QED
      BY <1>0, <1>1, <1>2, <1>3, <1>6, <3>1 DEF Digest
  <2>2. ~ChainIntact(ledger')
    BY <1>0, <1>1, <1>6, <2>1 DEF ChainIntact
  <2>3. CASE Forked
    BY <1>0, <1>1, <2>2, <2>3 DEF Forked, BrokenIffForked
  <2>4. CASE ChainIntact(ledger)
    <3>1. ledger[k + 1].prev = Digest(ledger, k)
      <4>1. k + 1 \in 1..n /\ (k + 1) - 1 = k
        BY <1>0, <1>6
      <4> QED
        BY <1>0, <2>4, <4>1, IntactLinks DEF Links
    <3>2. /\ k + 1 \in 1..(n + 1) /\ n + 1 \in 1..(n + 1) /\ k + 1 < n + 1
          /\ ledger'[k + 1].prev = ledger'[n + 1].prev
      BY <1>0, <1>1, <1>2, <1>3, <1>6, <3>1
    <3> QED
      BY <1>1, <2>2, <3>2 DEF Forked, BrokenIffForked
  <2> QED
    BY <2>3, <2>4 DEF BrokenIffForked
<1> QED
  BY <1>0, <1>5, <1>6

LEMMA VerdictNext ==
    /\ TypeOK /\ TypeOK' /\ EverySaveAccounted /\ Links
    /\ BrokenIffForked /\ [Next]_vars
    => BrokenIffForked'
<1> SUFFICES ASSUME TypeOK, TypeOK', EverySaveAccounted, Links,
                    BrokenIffForked, [Next]_vars
             PROVE  BrokenIffForked'
  OBVIOUS
<1>1. CASE UNCHANGED ledger
  BY <1>1 DEF BrokenIffForked, Forked
<1>2. CASE \E w \in Workers : AppendEvent(w)
  BY <1>2, VerdictAppend
<1> QED
  BY <1>1, <1>2 DEF Next, Record, SaveProjection, ReadHead, CountRevision,
                    FailEvent, vars

(* Verifying the whole ledger fails exactly when two saves continued the   *)
(* same event: never without an overlap, always with one.                  *)
THEOREM VerdictIsForkFree == Spec => []BrokenIffForked
<1>1. Spec => []Links
  BY LinksInit, LinksNext, TypeCorrect, PTL DEF Spec
<1> QED
  BY <1>1, VerdictInit, VerdictNext, TypeCorrect, SavesAccounted, PTL DEF Spec

-----------------------------------------------------------------------------
(* Revision numbers (load_governance_events(kind, id), then + 1).          *)

(* Appending does not change who owns the earlier events, so an entity     *)
(* never has fewer of them.                                                *)
LEMMA EventsKept ==
    ASSUME IsSequence(ledger), NEW w, AppendEvent(w), NEW e,
           NEW m \in 0..Len(ledger)
    PROVE  EventsOf(ledger', e, m) = EventsOf(ledger, e, m)
<1>1. Len(ledger) \in Nat /\ \A i \in 1..Len(ledger) : ledger'[i] = ledger[i]
  BY LedgerGrows
<1> QED
  BY <1>1 DEF EventsOf

LEMMA EventsGrow ==
    ASSUME IsSequence(ledger), NEW w, AppendEvent(w), NEW e
    PROVE  Cardinality(EventsOf(ledger, e, Len(ledger)))
             <= Cardinality(EventsOf(ledger', e, Len(ledger')))
<1> DEFINE n == Len(ledger)
           old == EventsOf(ledger, e, n)
           new == EventsOf(ledger', e, n + 1)
<1>1. /\ n \in Nat /\ Len(ledger') = n + 1
      /\ \A i \in 1..n : ledger'[i] = ledger[i]
  BY LedgerGrows
<1>3. old \subseteq new
  BY <1>1 DEF EventsOf
<1>4. IsFiniteSet(new)
  BY <1>1, EventsFinite
<1>5. Cardinality(old) <= Cardinality(new)
  BY <1>3, <1>4, FS_Subset
<1> QED
  BY <1>1, <1>5

RevisionInv ==
    /\ RevisionBounded
    /\ \A w \in Workers :
          pc[w] = "built" =>
              core[w].revision \in
                  1..(Cardinality(EventsOf(ledger, core[w].entity, Len(ledger))) + 1)

LEMMA RevisionsInit == Init => RevisionInv
<1> SUFFICES ASSUME Init PROVE RevisionInv
  OBVIOUS
<1>1. Len(ledger) = 0
  BY DEF Init
<1> QED
  BY <1>1 DEF Init, RevisionInv, RevisionBounded

LEMMA RevisionsNext ==
    TypeOK /\ RevisionInv /\ [Next]_vars => RevisionInv'
<1> SUFFICES ASSUME TypeOK, RevisionInv, [Next]_vars
             PROVE  RevisionInv'
  OBVIOUS
<1>0. IsSequence(ledger) /\ Len(ledger) \in Nat
  BY LenProperties DEF TypeOK, IsSequence
<1>1. ASSUME UNCHANGED ledger,
             \A v \in Workers : pc'[v] = "built" =>
                \/ pc[v] = "built" /\ core'[v] = core[v]
                \/ core'[v].revision \in
                      1..(Cardinality(EventsOf(ledger, core'[v].entity, Len(ledger))) + 1)
      PROVE  RevisionInv'
  BY <1>1 DEF RevisionInv, RevisionBounded, EventsOf
<1>2. ASSUME NEW w \in Workers, NEW e \in Entities, NEW p \in Payloads,
             SaveProjection(w, e, p)
      PROVE  RevisionInv'
  BY <1>1, <1>2 DEF SaveProjection, TypeOK
<1>3. ASSUME NEW w \in Workers, ReadHead(w) \/ FailEvent(w)
      PROVE  RevisionInv'
  BY <1>1, <1>3 DEF ReadHead, FailEvent, Return, TypeOK
<1>4. ASSUME NEW w \in Workers, CountRevision(w)
      PROVE  RevisionInv'
  <2>1. core[w] \in Core
    BY <1>4, NoCoreAssumption DEF CountRevision, TypeOK
  <2>2. /\ core'[w].entity = core[w].entity
        /\ core'[w].revision = Revision(core[w].entity)
        /\ \A v \in Workers \ {w} : core'[v] = core[v] /\ pc'[v] = pc[v]
    BY <1>4, <2>1 DEF CountRevision, TypeOK, Core
  <2>3. Revision(core[w].entity)
          \in 1..(Cardinality(EventsOf(ledger, core[w].entity, Len(ledger))) + 1)
    BY <1>0, RevisionIsNat
  <2> QED
    BY <1>1, <1>4, <2>2, <2>3 DEF CountRevision
<1>5. ASSUME NEW w \in Workers, AppendEvent(w)
      PROVE  RevisionInv'
  <2>1. /\ Len(ledger') = Len(ledger) + 1
        /\ ledger'[Len(ledger) + 1] = Event(head[w], core[w])
        /\ \A i \in 1..Len(ledger) : ledger'[i] = ledger[i]
    BY <1>0, <1>5, LedgerGrows
  <2>2. ledger'[Len(ledger) + 1].core = core[w]
    BY <2>1 DEF Event
  <2>3. \A e : \A m \in 0..Len(ledger) : EventsOf(ledger', e, m) = EventsOf(ledger, e, m)
    BY <1>0, <1>5, EventsKept
  <2>4. ASSUME NEW i \in 1..Len(ledger')
        PROVE  ledger'[i].core.revision \in
                 1..(Cardinality(EventsOf(ledger', ledger'[i].core.entity, i - 1)) + 1)
    <3>1. CASE i = Len(ledger) + 1
      BY <3>1, <1>0, <1>5, <2>2, <2>3 DEF RevisionInv, AppendEvent
    <3>2. CASE i \in 1..Len(ledger)
      BY <3>2, <1>0, <2>1, <2>3 DEF RevisionInv, RevisionBounded
    <3> QED
      BY <3>1, <3>2, <1>0, <2>1
  <2>5. ASSUME NEW v \in Workers, pc'[v] = "built"
        PROVE  core'[v].revision \in
                 1..(Cardinality(EventsOf(ledger', core'[v].entity, Len(ledger'))) + 1)
    <3> DEFINE e == core[v].entity
               old == Cardinality(EventsOf(ledger, e, Len(ledger)))
               new == Cardinality(EventsOf(ledger', e, Len(ledger')))
    <3>1. pc[v] = "built" /\ core'[v] = core[v]
      BY <1>5, <2>5 DEF AppendEvent, Return, TypeOK
    <3>2. old <= new
      BY <1>0, <1>5, EventsGrow
    <3>3. old \in Nat
      BY <1>0, EventsFinite
    <3>4. new \in Nat
      BY <1>0, <2>1, EventsFinite
    <3>5. core[v].revision \in 1..(old + 1)
      BY <3>1 DEF RevisionInv
    <3> HIDE DEF old, new
    <3>6. core[v].revision \in 1..(new + 1)
      BY <3>2, <3>3, <3>4, <3>5
    <3> QED
      BY <3>1, <3>6 DEF new
  <2> QED
    BY <2>4, <2>5 DEF RevisionInv, RevisionBounded
<1>6. ASSUME UNCHANGED vars
      PROVE  RevisionInv'
  BY <1>1, <1>6 DEF vars
<1> QED
  BY <1>2, <1>3, <1>4, <1>5, <1>6 DEF Next, Record

(* A revision never runs ahead of the events its entity has: a stale count *)
(* repeats a number, it does not skip one.                                 *)
THEOREM RevisionsFollowEvents == Spec => []RevisionBounded
<1>1. Spec => []RevisionInv
  BY RevisionsInit, RevisionsNext, TypeCorrect, PTL DEF Spec
<1>2. RevisionInv => RevisionBounded
  BY DEF RevisionInv
<1> QED
  BY <1>1, <1>2, PTL

-----------------------------------------------------------------------------
(* One save at a time: what a worker has read is still the newest event.   *)

Alone == ~overlapped => \A u, v \in Workers : pc[u] # "idle" /\ pc[v] # "idle" => u = v

HoldsLatest ==
    ~overlapped => \A w \in Workers : pc[w] \in {"linked", "built"} => head[w] = Latest

Counted ==
    /\ clock <= MaxSaves
    /\ \A w \in Workers : pc[w] = "built" => core[w].revision \in 1..(LoadLimit + 1)

InTurn == Alone /\ HoldsLatest /\ Counted

LEMMA InTurnInit == Init => InTurn
  BY BoundAssumption DEF Init, InTurn, Alone, HoldsLatest, Counted

LEMMA RevisionLimited ==
    ASSUME IsSequence(ledger), NEW e
    PROVE  Revision(e) \in 1..(LoadLimit + 1)
<1>1. Len(ledger) \in Nat
  BY LenProperties DEF IsSequence
<1>2. Cardinality(EventsOf(ledger, e, Len(ledger))) \in Nat
  BY <1>1, EventsFinite
<1> QED
  BY <1>2, LimitAssumption DEF Revision, Smaller

LEMMA InTurnNext == TypeOK /\ InTurn /\ [Next]_vars => InTurn'
<1> SUFFICES ASSUME TypeOK, InTurn, [Next]_vars PROVE InTurn'
  OBVIOUS
<1>1. /\ pc \in [Workers -> {"idle", "saved", "linked", "built"}]
      /\ core \in [Workers -> Core \cup {NoCore}]
      /\ DOMAIN head = Workers
      /\ clock \in Nat /\ IsSequence(ledger) /\ overlapped \in BOOLEAN
  BY DEF TypeOK
<1>2. ASSUME NEW w \in Workers, NEW e \in Entities, NEW p \in Payloads,
             SaveProjection(w, e, p)
      PROVE  InTurn'
  <2>1. /\ pc' = [pc EXCEPT ![w] = "saved"] /\ pc[w] = "idle"
        /\ head' = head /\ ledger' = ledger
        /\ clock < MaxSaves /\ clock' = clock + 1
        /\ \A v \in Workers \ {w} : core'[v] = core[v]
    BY <1>1, <1>2 DEF SaveProjection
  <2>2. ~overlapped' => ~overlapped /\ \A v \in Workers : pc[v] = "idle"
    BY <1>2, Zenon DEF SaveProjection
  <2>3. Alone'
    BY <1>1, <2>1, <2>2 DEF Alone
  <2>4. HoldsLatest'
    BY <1>1, <2>1, <2>2 DEF HoldsLatest
  <2>5. Counted'
    BY <1>1, <2>1, BoundAssumption DEF InTurn, Counted
  <2> QED
    BY <2>3, <2>4, <2>5 DEF InTurn
<1>3. ASSUME NEW w \in Workers, ReadHead(w)
      PROVE  InTurn'
  <2>1. /\ pc' = [pc EXCEPT ![w] = "linked"] /\ pc[w] = "saved"
        /\ head' = [head EXCEPT ![w] = Latest]
        /\ ledger' = ledger /\ core' = core /\ clock' = clock /\ overlapped' = overlapped
    BY <1>3 DEF ReadHead
  <2>2. Latest' = Latest
    BY <2>1 DEF Latest, Digest
  <2>3. Alone'
    BY <1>1, <2>1 DEF InTurn, Alone
  <2>4. HoldsLatest'
    BY <1>1, <2>1, <2>2 DEF InTurn, HoldsLatest
  <2>5. Counted'
    BY <1>1, <2>1 DEF InTurn, Counted
  <2> QED
    BY <2>3, <2>4, <2>5 DEF InTurn
<1>4. ASSUME NEW w \in Workers, CountRevision(w)
      PROVE  InTurn'
  <2> DEFINE n == Revision(core[w].entity)
  <2>1. /\ pc' = [pc EXCEPT ![w] = "built"] /\ pc[w] = "linked"
        /\ core' = [core EXCEPT ![w].revision = n]
        /\ ledger' = ledger /\ head' = head /\ clock' = clock /\ overlapped' = overlapped
    BY <1>4 DEF CountRevision
  <2>2. n \in 1..(LoadLimit + 1)
    BY <1>1, RevisionLimited
  <2> HIDE DEF n
  <2>3. core[w] \in Core
    BY <1>1, <2>1 DEF TypeOK
  <2>4. core'[w].revision = n
    BY <1>1, <2>1, <2>3 DEF Core
  <2>5. \A v \in Workers \ {w} : core'[v] = core[v]
    BY <1>1, <2>1
  <2>6. Alone'
    BY <1>1, <2>1 DEF InTurn, Alone
  <2>7. HoldsLatest'
    BY <1>1, <2>1 DEF InTurn, HoldsLatest, Latest, Digest
  <2>8. Counted'
    BY <1>1, <2>1, <2>2, <2>4, <2>5 DEF InTurn, Counted
  <2> QED
    BY <2>6, <2>7, <2>8 DEF InTurn
<1>5. ASSUME NEW w \in Workers, AppendEvent(w) \/ FailEvent(w)
      PROVE  InTurn'
  <2>1. /\ pc' = [pc EXCEPT ![w] = "idle"] /\ pc[w] # "idle"
        /\ \A v \in Workers \ {w} : core'[v] = core[v]
        /\ clock' = clock /\ overlapped' = overlapped
    BY <1>1, <1>5 DEF AppendEvent, FailEvent, Return
  <2>2. Alone'
    BY <1>1, <2>1 DEF InTurn, Alone
  <2>3. ~overlapped' => \A v \in Workers : pc'[v] = "idle"
    BY <1>1, <2>1 DEF InTurn, Alone
  <2>4. HoldsLatest'
    BY <2>3 DEF HoldsLatest
  <2>5. Counted'
    BY <1>1, <2>1 DEF InTurn, Counted
  <2> QED
    BY <2>2, <2>4, <2>5 DEF InTurn
<1>6. CASE UNCHANGED vars
  BY <1>6 DEF vars, InTurn, Alone, HoldsLatest, Counted, Latest, Digest
<1> QED
  BY <1>2, <1>3, <1>4, <1>5, <1>6 DEF Next, Record

(* An event inserted in turn is the one the promised log would add.        *)
LEMMA PromisedAppend ==
    ASSUME TypeOK, EverySaveAccounted, InTurn, ~overlapped,
           NEW w \in Workers, AppendEvent(w)
    PROVE  Promise!Next
<1> DEFINE shown == [i \in 1..Len(ledger) |-> [entry |-> ledger[i].core,
                                               prev |-> ledger[i].prev]]
           n == Len(ledger)
           ev == Event(head[w], core[w])
           new == [entry |-> core[w], prev |-> head[w]]
<1>1. /\ pc[w] = "built" /\ core[w] \in Core /\ IsSequence(ledger)
  BY DEF TypeOK, AppendEvent
<1>2. core[w] \in Recordable
  <2>1. core[w].stamp \in FlyingStamps
    BY <1>1 DEF FlyingStamps
  <2>2. core[w].stamp \in 1..clock /\ clock \in Nat
    BY <2>1 DEF EverySaveAccounted, TypeOK
  <2>3. core[w].stamp \in 1..MaxSaves /\ core[w].revision \in 1..(LoadLimit + 1)
    BY <1>1, <2>2, BoundAssumption DEF InTurn, Counted
  <2> QED
    BY <1>1, <2>3 DEF Core, Recordable
<1>3. /\ n \in Nat /\ Len(ledger') = n + 1
      /\ ledger'[n + 1] = ev
      /\ \A i \in 1..n : ledger'[i] = ledger[i]
  BY <1>1, LedgerGrows
<1>4. head[w] = Promise!LastLink(shown)
  <2>1. head[w] = Digest(ledger, n)
    BY <1>1 DEF InTurn, HoldsLatest, Latest
  <2>2. CASE n = 0
    <3>1. shown = <<>>
      BY <2>2
    <3> QED
      BY <2>1, <2>2, <3>1 DEF Digest, Promise!LastLink
  <2>3. CASE n # 0
    <3>1. n \in 1..n
      BY <1>3, <2>3
    <3>2. ledger[n] = Event(ledger[n].prev, ledger[n].core)
      BY <3>1 DEF TypeOK
    <3>3. ledger[n].hash = Hash(ledger[n].prev, ledger[n].core)
      BY <3>2 DEF Event
    <3>4. /\ Len(shown) = n /\ shown # <<>>
          /\ shown[n].prev = ledger[n].prev /\ shown[n].entry = ledger[n].core
      BY <1>3, <3>1
    <3> QED
      BY <2>1, <2>3, <3>3, <3>4 DEF Digest, Promise!LastLink
  <2> QED
    BY <2>2, <2>3
<1>5. shown' = Append(shown, new)
  <2> DEFINE T == {shown[i] : i \in 1..n} \cup {new}
  <2>1. ev.core = core[w] /\ ev.prev = head[w]
    BY DEF Event
  <2>2. shown \in [1..n -> T]
    OBVIOUS
  <2>3. shown \in Seq(T) /\ Len(shown) = n
    BY <1>3, <2>2, SeqOfFunction
  <2> HIDE DEF ev, T
  <2>4. /\ Append(shown, new) \in Seq(T) /\ Len(Append(shown, new)) = n + 1
        /\ \A i \in 1..n : Append(shown, new)[i] = shown[i]
        /\ Append(shown, new)[n + 1] = new
    <3> HIDE DEF shown, new, n
    <3>1. new \in T
      BY DEF T
    <3> QED
      BY <2>3, <3>1, AppendProperties
  <2>5. \A i \in 1..(n + 1) : shown'[i] = Append(shown, new)[i]
    BY <1>3, <2>1, <2>4
  <2>6. DOMAIN shown' = 1..(n + 1) /\ DOMAIN Append(shown, new) = 1..(n + 1)
    BY <1>3, <2>4
  <2> QED
    BY <2>5, <2>6, <2>4, <1>3
<1> QED
  BY <1>2, <1>4, <1>5 DEF Promise!Next, Promise!Add

(* While saves do not overlap the event table is the chained log of its    *)
(* documentation, whatever fails and whatever the load limit: each event   *)
(* links to the one just before it (_save).                                *)
THEOREM ChainIsImplemented == Spec => ImplementsChainedLog
<1>1. Init => Promise!Init
  BY DEF Init, Promise!Init
<1>2. TypeOK /\ EverySaveAccounted /\ InTurn /\ [Next]_vars =>
         [overlapped' \/ Promise!Next]_ledger
  <2> SUFFICES ASSUME TypeOK, EverySaveAccounted, InTurn, [Next]_vars,
                      ledger' # ledger, ~overlapped'
               PROVE  Promise!Next
    OBVIOUS
  <2>1. PICK w \in Workers : AppendEvent(w)
    BY DEF Next, Record, SaveProjection, ReadHead, CountRevision, FailEvent, vars
  <2>2. ~overlapped
    BY <2>1 DEF AppendEvent
  <2> QED
    BY <2>1, <2>2, PromisedAppend
<1> QED
  BY <1>1, <1>2, InTurnInit, InTurnNext, TypeCorrect, SavesAccounted, PTL
     DEF Spec, ImplementsChainedLog

(***************************************************************************)
(* AuditLog: the invariant                                                 *)
(***************************************************************************)

(* An entry that hashes to its hash and continues the number before it.    *)
SoundEntry(e, n) ==
    /\ e.seq \in 1..n
    /\ e = Entry(e.prev, e.seq, e.ts)
    /\ IF e.seq = 1 THEN e.prev = AuditRoot
       ELSE e.prev = EntryHash(e.prev[1], e.seq - 1, e.prev[3])

(* The types, and that every entry, in memory, in the table or in a hand,  *)
(* is sound.                                                               *)
AuditTypes ==
    /\ calls \in 0..MaxCalls
    /\ IsSequence(memory) /\ \A i \in 1..Len(memory) : SoundEntry(memory[i], calls)
    /\ table = [s \in 1..MaxCalls |-> table[s]]
    /\ \A s \in Rows : SoundEntry(table[s], calls) /\ table[s].seq = s
    /\ auditHead # NoRow => SoundEntry(auditHead, calls)
    /\ op = [t \in Threads |-> op[t]]
    /\ \A t \in Threads : op[t] # Idle =>
          /\ op[t] = [step |-> op[t].step, entry |-> op[t].entry]
          /\ op[t].step \in {"append", "persist"}
          /\ SoundEntry(op[t].entry, calls)

(* While calls do not cross, one thread at most is in _log_action.         *)
OneCalls == ~crossed => \A t, u \in Threads : op[t] # Idle /\ op[u] # Idle => t = u

(* While calls do not cross, memory is the newest entries in their order,  *)
(* and a row of one of their numbers is that entry.                        *)
MemoryMatches ==
    ~crossed /\ ~blind =>
        /\ \A s \in Rows : s < Continuation[2]
        /\ \A i \in 1..Len(memory) :
              /\ memory[i].seq = Continuation[2] - 1 - (Len(memory) - i)
              /\ table[memory[i].seq] \in {NoRow, memory[i]}
        /\ \A t \in Threads : At(t, "append") => op[t].entry.seq = Continuation[2]
        /\ \A t \in Threads : At(t, "persist") =>
              memory # <<>> /\ op[t].entry = memory[Len(memory)]

(* What the entry after the k-th row continues.                            *)
LinkAt(k) == IF k = 0 THEN AuditRoot ELSE table[k].hash

(* The rows are the chain of the numbers up to k, and what comes next      *)
(* continues them.                                                         *)
RowsChain(k) ==
    /\ Rows = 1..k
    /\ \A s \in 1..k : table[s].prev = LinkAt(s - 1)
    /\ \A t \in Threads : op[t] # Idle => op[t].entry.seq = k + 1 /\ op[t].entry.prev = LinkAt(k)
    /\ (\A t \in Threads : ~At(t, "persist")) => Continuation = <<LinkAt(k), k + 1>>

(* The invariant.                                                          *)
AuditSound ==
    /\ AuditTypes /\ OneCalls /\ MemoryMatches
    /\ ~crossed /\ ~blind /\ ~failed => \E k \in 0..MaxCalls : RowsChain(k)

-----------------------------------------------------------------------------
(* The i-th row has i rows up to its own: counting them numbers the rows   *)
(* one by one (load_audit_events, ORDER BY seq).                           *)
LEMMA RowsNumbered ==
    /\ IsFiniteSet(Rows) /\ Cardinality(Rows) \in Nat
    /\ \A i \in 1..Cardinality(Rows) :
          RowAt(i) \in Rows /\ Cardinality({u \in Rows : u <= RowAt(i)}) = i
<1> DEFINE n == Cardinality(Rows)
           Upto(s) == {u \in Rows : u <= s}
           f == [s \in Rows |-> Cardinality(Upto(s))]
<1>1. IsFiniteSet(1..MaxCalls) /\ Rows \subseteq 1..MaxCalls /\ MaxCalls \in Nat
  BY WindowAssumption, FS_Interval DEF Rows
<1>2. IsFiniteSet(Rows) /\ n \in Nat
  BY <1>1, FS_Subset, FS_CardinalityType
<1>3. ASSUME NEW s \in Rows PROVE Cardinality(Upto(s)) \in 1..n
  <2>1. Upto(s) \in SUBSET Rows /\ {s} \in SUBSET Upto(s)
    BY <1>1
  <2>2. IsFiniteSet(Upto(s)) /\ Cardinality(Upto(s)) <= n
    BY <1>2, <2>1, FS_Subset
  <2>3. Cardinality({s}) <= Cardinality(Upto(s)) /\ Cardinality({s}) = 1
    BY <2>1, <2>2, FS_Subset, FS_Singleton
  <2> QED
    BY <1>2, <2>2, <2>3, FS_CardinalityType
<1>4. ASSUME NEW s \in Rows, NEW u \in Rows, s < u
      PROVE  Cardinality(Upto(s)) # Cardinality(Upto(u))
  <2>1. Upto(u) \in SUBSET Rows /\ Upto(s) \in SUBSET Upto(u) /\ u \in Upto(u) /\ u \notin Upto(s)
    <3>1. /\ \A x \in Rows : x <= s => x <= u
          /\ u <= u /\ ~(u <= s)
      BY <1>1, <1>4
    <3> QED
      BY <3>1
  <2>2. IsFiniteSet(Upto(u))
    BY <1>2, <2>1, FS_Subset
  <2>3. Cardinality(Upto(u)) = Cardinality(Upto(s)) => Upto(u) = Upto(s)
    BY <2>1, <2>2, FS_Subset
  <2> HIDE DEF Upto
  <2> QED
    BY <2>1, <2>3
<1> HIDE DEF Upto
<1>5. f \in Injection(Rows, 1..n)
  <2>1. f \in [Rows -> 1..n]
    BY <1>3
  <2>2. ASSUME NEW s \in Rows, NEW u \in Rows, f[s] = f[u] PROVE s = u
    BY <1>1, <1>4, <2>2
  <2> HIDE DEF f
  <2> QED
    BY <2>1, <2>2 DEF Injection, IsInjective
<1>6. f \in Surjection(Rows, 1..n)
  <2>1. IsFiniteSet(1..n) /\ Cardinality(1..n) = n
    BY <1>2, FS_Interval
  <2> HIDE DEF f
  <2> QED
    BY <1>5, <2>1, FS_Injection DEF n
<1>7. \A i \in 1..n : \E s \in Rows : Cardinality(Upto(s)) = i
  BY <1>6 DEF Surjection
<1>8. \A i \in 1..n : RowAt(i) \in Rows /\ Cardinality(Upto(RowAt(i))) = i
  BY <1>7 DEF RowAt, Upto
<1> QED
  BY <1>2, <1>8 DEF n, Upto

LEMMA StoredIs ==
    /\ Cardinality(Rows) \in Nat /\ Len(Stored) = Cardinality(Rows)
    /\ \A i \in 1..Len(Stored) : RowAt(i) \in Rows /\ Stored[i] = table[RowAt(i)]
    /\ Stored = <<>> <=> Cardinality(Rows) = 0
<1>1. Cardinality(Rows) \in Nat /\ \A i \in 1..Cardinality(Rows) : RowAt(i) \in Rows
  BY RowsNumbered
<1>2. Len(Stored) = Cardinality(Rows)
  BY <1>1 DEF Stored
<1>3. \A i \in 1..Cardinality(Rows) : Stored[i] = table[RowAt(i)]
  BY DEF Stored
<1>4. Stored = <<>> <=> Cardinality(Rows) = 0
  <2>1. CASE Cardinality(Rows) = 0
    BY <2>1 DEF Stored
  <2>2. CASE Cardinality(Rows) # 0
    BY <1>1, <1>2, <2>2
  <2> QED
    BY <2>1, <2>2
<1> QED
  BY <1>1, <1>2, <1>3, <1>4

(* The newest row is the one of the largest number (latest_audit_event).   *)
LEMMA LatestIs ==
    /\ Rows = {} => LatestRow = NoRow
    /\ Rows # {} => \E s \in Rows : LatestRow = table[s] /\ \A u \in Rows : u <= s
<1>1. /\ IsFiniteSet(Rows) /\ Cardinality(Rows) \in Nat
      /\ \A i \in 1..Cardinality(Rows) :
            RowAt(i) \in Rows /\ Cardinality({u \in Rows : u <= RowAt(i)}) = i
  BY RowsNumbered
<1>2. Rows = {} <=> Cardinality(Rows) = 0
  BY <1>1, FS_EmptySet
<1>3. ASSUME Rows = {} PROVE LatestRow = NoRow
  BY <1>2, <1>3, StoredIs DEF LatestRow
<1>4. ASSUME Rows # {}
      PROVE  \E s \in Rows : LatestRow = table[s] /\ \A u \in Rows : u <= s
  <2> DEFINE n == Cardinality(Rows)
             V == {u \in Rows : u <= RowAt(n)}
  <2>1. n \in 1..n
    BY <1>1, <1>2, <1>4
  <2>2. RowAt(n) \in Rows /\ Cardinality(V) = n
    BY <1>1, <2>1
  <2>3. V \in SUBSET Rows
    OBVIOUS
  <2>4. V = Rows
    BY <1>1, <2>2, <2>3, FS_Subset
  <2>5. \A u \in Rows : u <= RowAt(n)
    BY <2>4
  <2>6. LatestRow = table[RowAt(n)]
    <3>1. Stored # <<>> /\ Len(Stored) = n /\ Stored[n] = table[RowAt(n)]
      BY <2>1, StoredIs
    <3> QED
      BY <3>1 DEF LatestRow
  <2> QED
    BY <2>2, <2>5, <2>6
<1> QED
  BY <1>3, <1>4

(* Only the newest entries are kept, in their order.                       *)
LEMMA KeptIs ==
    ASSUME NEW s, IsSequence(s), Len(s) >= 1
    PROVE  /\ IsSequence(Kept(s)) /\ Len(s) \in Nat
           /\ Len(Kept(s)) \in 1..Len(s) /\ Kept(s) # <<>>
           /\ \A i \in 1..Len(Kept(s)) :
                 /\ i + (Len(s) - Len(Kept(s))) \in 1..Len(s)
                 /\ Kept(s)[i] = s[i + (Len(s) - Len(Kept(s)))]
<1> DEFINE S == {s[i] : i \in DOMAIN s}
           n == Len(s)
           m == IF n > Window THEN n - Window + 1 ELSE 1
           k == Kept(s)
           T == {k[i] : i \in DOMAIN k}
<1>1. n \in Nat /\ DOMAIN s = 1..n
  BY DEF IsSequence
<1>2. m \in 1..n /\ n \in Int /\ m \in Int /\ Window \in Nat \ {0}
  BY <1>1, WindowAssumption
<1>3. k = SubSeq(s, m, n)
  BY DEF Kept
<1>4. \A i \in m..n : s[i] \in S
  BY <1>1, <1>2
<1> HIDE DEF S, m, k
<1>5. /\ k \in Seq(S) /\ Len(k) = n - m + 1
      /\ \A i \in 1..(n - m + 1) : k[i] = s[m + i - 1]
  BY <1>2, <1>3, <1>4, SubSeqProperties
<1>6. Len(k) \in 1..n /\ k # <<>>
  BY <1>1, <1>2, <1>5
<1>7. k \in Seq(T)
  <2>1. DOMAIN k = 1..Len(k) /\ k \in [1..Len(k) -> S] /\ Len(k) \in Nat
    BY <1>5
  <2>2. k \in [1..Len(k) -> T]
    BY <2>1
  <2> HIDE DEF T
  <2> QED
    BY <2>1, <2>2, SeqOfFunction
<1>8. ASSUME NEW i \in 1..Len(k)
      PROVE  /\ i + (n - Len(k)) \in 1..n
             /\ k[i] = s[i + (n - Len(k))]
  <2>1. i + (n - Len(k)) = m + i - 1 /\ i \in 1..(n - m + 1)
    BY <1>1, <1>2, <1>5
  <2> QED
    BY <1>1, <1>2, <1>5, <2>1
<1> QED
  BY <1>1, <1>6, <1>7, <1>8 DEF IsSequence, k, T

-----------------------------------------------------------------------------
(* The steps of _log_action, and the start of the process                  *)

(* What is recorded stays sound while calls are counted.                   *)
LEMMA StillSound ==
    ASSUME NEW e, SoundEntry(e, calls), calls \in Nat, calls' \in Nat, calls <= calls'
    PROVE  SoundEntry(e, calls')
BY DEF SoundEntry

LEMMA SoundIsSome ==
    ASSUME NEW e, SoundEntry(e, calls)
    PROVE  e # NoRow
BY DEF SoundEntry, NoRow

(* The next entry is sound, whatever it continues.                         *)
LEMMA NextIsSound ==
    ASSUME AuditTypes
    PROVE  LET e == Entry(Continuation[1], Continuation[2], Written(calls + 1))
           IN  /\ Continuation[2] \in 1..(calls + 1)
               /\ e.seq = Continuation[2] /\ e.prev = Continuation[1]
               /\ e = Entry(e.prev, e.seq, e.ts)
               /\ IF e.seq = 1 THEN e.prev = AuditRoot
                  ELSE e.prev = EntryHash(e.prev[1], e.seq - 1, e.prev[3])
<1> DEFINE e == Entry(Continuation[1], Continuation[2], Written(calls + 1))
<1>1. calls \in Nat
  BY WindowAssumption DEF AuditTypes
<1>2. /\ e.seq = Continuation[2] /\ e.prev = Continuation[1]
      /\ e = Entry(e.prev, e.seq, e.ts)
  BY DEF Entry
<1>3. ASSUME NEW x, SoundEntry(x, calls), Continuation = <<x.hash, x.seq + 1>>
      PROVE  /\ Continuation[2] \in 2..(calls + 1)
             /\ Continuation[1]
                = EntryHash(Continuation[1][1], Continuation[2] - 1, Continuation[1][3])
  <2>1. x.seq \in 1..calls /\ x.hash = EntryHash(x.prev, x.seq, x.ts)
    BY <1>3 DEF SoundEntry, Entry
  <2>2. Continuation[1] = x.hash /\ Continuation[2] = x.seq + 1
    BY <1>3
  <2>3. x.hash[1] = x.prev /\ x.hash[3] = x.ts
    BY <2>1 DEF EntryHash
  <2>4. Continuation[2] - 1 = x.seq /\ Continuation[2] \in 2..(calls + 1)
    BY <1>1, <2>1, <2>2
  <2> QED
    BY <2>1, <2>2, <2>3, <2>4
<1>4. \/ Continuation = <<AuditRoot, 1>>
      \/ /\ Continuation[2] \in 2..(calls + 1)
         /\ Continuation[1]
            = EntryHash(Continuation[1][1], Continuation[2] - 1, Continuation[1][3])
  <2>1. CASE memory # <<>>
    <3>1. Len(memory) \in 1..Len(memory)
      BY <2>1 DEF AuditTypes, IsSequence
    <3>2. SoundEntry(memory[Len(memory)], calls)
      BY <3>1 DEF AuditTypes
    <3>3. Continuation = <<memory[Len(memory)].hash, memory[Len(memory)].seq + 1>>
      BY <2>1 DEF Continuation
    <3> QED
      BY <1>3, <3>2, <3>3
  <2>2. CASE memory = <<>> /\ auditHead # NoRow
    <3>1. SoundEntry(auditHead, calls) /\ Continuation = <<auditHead.hash, auditHead.seq + 1>>
      BY <2>2 DEF AuditTypes, Continuation
    <3> QED
      BY <1>3, <3>1
  <2>3. CASE memory = <<>> /\ auditHead = NoRow
    BY <2>3 DEF Continuation
  <2> QED
    BY <2>1, <2>2, <2>3
<1> HIDE DEF e
<1>5. CASE Continuation = <<AuditRoot, 1>>
  <2>1. Continuation[1] = AuditRoot /\ Continuation[2] = 1
    BY <1>5
  <2> QED
    BY <1>1, <1>2, <2>1 DEF e
<1>6. CASE Continuation # <<AuditRoot, 1>>
  <2>1. Continuation[2] \in 1..(calls + 1) /\ Continuation[2] # 1
    BY <1>1, <1>4, <1>6
  <2> QED
    BY <1>2, <1>4, <1>6, <2>1 DEF e
<1> QED
  BY <1>5, <1>6

(* Appending to memory changes its end, and the order of what it keeps     *)
(* not.                                                                    *)
LEMMA AppendKept ==
    ASSUME AuditTypes, NEW e
    PROVE  LET m == Kept(Append(memory, e))
           IN  /\ IsSequence(m) /\ m # <<>> /\ Len(m) \in Nat \ {0} /\ m[Len(m)] = e
               /\ \A i \in 1..(Len(m) - 1) :
                     \E j \in 1..Len(memory) :
                        m[i] = memory[j] /\ Len(memory) - j = Len(m) - 1 - i
<1> DEFINE s == Append(memory, e)
           m == Kept(s)
<1>1. /\ Len(memory) \in Nat
      /\ Len(s) = Len(memory) + 1
      /\ s[Len(memory) + 1] = e
      /\ \A i \in 1..Len(memory) : s[i] = memory[i]
      /\ IsSequence(s)
  BY AppendFacts DEF AuditTypes
<1> HIDE DEF s
<1>2. /\ IsSequence(m) /\ Len(m) \in 1..Len(s) /\ m # <<>>
      /\ \A i \in 1..Len(m) :
            i + (Len(s) - Len(m)) \in 1..Len(s) /\ m[i] = s[i + (Len(s) - Len(m))]
  <2>1. Len(s) >= 1 /\ IsSequence(s)
    BY <1>1
  <2> QED
    BY <2>1, KeptIs
<1> HIDE DEF m
<1>3. m[Len(m)] = e
  <2>1. Len(m) \in 1..Len(m) /\ Len(m) + (Len(s) - Len(m)) = Len(memory) + 1
    BY <1>1, <1>2
  <2> QED
    BY <1>1, <1>2, <2>1
<1>4. ASSUME NEW i \in 1..(Len(m) - 1)
      PROVE  \E j \in 1..Len(memory) : m[i] = memory[j] /\ Len(memory) - j = Len(m) - 1 - i
  <2> DEFINE j == i + (Len(s) - Len(m))
  <2>1. i \in 1..Len(m) /\ j \in 1..Len(memory) /\ Len(memory) - j = Len(m) - 1 - i
    BY <1>1, <1>2
  <2>2. m[i] = memory[j]
    BY <1>1, <1>2, <2>1
  <2> QED
    BY <2>1, <2>2
<1>5. Len(m) \in Nat \ {0}
  BY <1>1, <1>2
<1> QED
  BY <1>2, <1>3, <1>4, <1>5 DEF m, s

LEMMA AuditInitSound == AuditInit => AuditSound
<1> SUFFICES ASSUME AuditInit PROVE AuditSound
  OBVIOUS
<1>1. Rows = {}
  BY DEF AuditInit, Rows
<1>2. IsSequence(memory) /\ Len(memory) = 0
  BY DEF AuditInit, IsSequence
<1>3. \A t \in Threads : op[t] = Idle
  BY DEF AuditInit
<1>4. AuditTypes
  BY <1>1, <1>2, <1>3, WindowAssumption DEF AuditInit, AuditTypes
<1>5. OneCalls
  BY <1>3 DEF OneCalls
<1>6. \A t \in Threads : ~At(t, "append") /\ ~At(t, "persist")
  BY <1>3 DEF At, Idle
<1>7. MemoryMatches
  BY <1>1, <1>2, <1>6 DEF MemoryMatches
<1>8. RowsChain(0)
  <2>1. Continuation = <<LinkAt(0), 0 + 1>>
    BY DEF AuditInit, Continuation, LinkAt
  <2> QED
    BY <1>1, <1>3, <2>1 DEF RowsChain
<1>9. 0 \in 0..MaxCalls
  BY WindowAssumption
<1> QED
  BY <1>4, <1>5, <1>7, <1>8, <1>9 DEF AuditSound

LEMMA BuildSound ==
    ASSUME AuditSound, NEW t \in Threads, BuildEntry(t)
    PROVE  AuditSound'
<1> DEFINE e == Entry(Continuation[1], Continuation[2], Written(calls + 1))
<1>1. /\ op[t] = Idle /\ calls < MaxCalls /\ calls' = calls + 1
      /\ op' = [op EXCEPT ![t] = [step |-> "append", entry |-> e]]
      /\ crossed' = (crossed \/ \E u \in Threads : op[u] # Idle)
      /\ UNCHANGED <<memory, auditHead, table, failed, blind>>
  BY DEF BuildEntry
<1>2. AuditTypes /\ calls \in Nat /\ calls' \in 0..MaxCalls
  BY <1>1, WindowAssumption DEF AuditSound, AuditTypes
<1>3. /\ e.seq = Continuation[2] /\ e.prev = Continuation[1]
      /\ SoundEntry(e, calls')
  BY <1>1, <1>2, NextIsSound DEF SoundEntry
<1> HIDE DEF e
<1>4. \A x : SoundEntry(x, calls) => SoundEntry(x, calls')
  BY <1>1, <1>2, StillSound
<1>5. op'[t] = [step |-> "append", entry |-> e] /\ \A u \in Threads : u # t => op'[u] = op[u]
  BY <1>1, <1>2 DEF AuditTypes
<1>6. Rows' = Rows /\ Continuation' = Continuation
  BY <1>1 DEF Rows, Continuation
<1>7. AuditTypes'
  <2>1. op' = [u \in Threads |-> op'[u]]
    BY <1>1, <1>2 DEF AuditTypes
  <2>2. ASSUME NEW u \in Threads, op'[u] # Idle
        PROVE  /\ op'[u] = [step |-> op'[u].step, entry |-> op'[u].entry]
               /\ op'[u].step \in {"append", "persist"}
               /\ SoundEntry(op'[u].entry, calls')
    <3>1. CASE u = t
      BY <1>3, <1>5, <3>1
    <3>2. CASE u # t
      BY <1>2, <1>4, <1>5, <2>2, <3>2 DEF AuditTypes
    <3> QED
      BY <3>1, <3>2
  <2>3. \A i \in 1..Len(memory') : SoundEntry(memory'[i], calls')
    BY <1>1, <1>2, <1>4 DEF AuditTypes
  <2>4. \A s \in Rows' : SoundEntry(table'[s], calls') /\ table'[s].seq = s
    BY <1>1, <1>2, <1>4, <1>6 DEF AuditTypes
  <2>5. auditHead' # NoRow => SoundEntry(auditHead', calls')
    BY <1>1, <1>2, <1>4 DEF AuditTypes
  <2>6. IsSequence(memory)' /\ table' = [s \in 1..MaxCalls |-> table'[s]]
    BY <1>1, <1>2 DEF AuditTypes, IsSequence
  <2> QED
    BY <1>2, <2>1, <2>2, <2>3, <2>4, <2>5, <2>6 DEF AuditTypes
<1>8. ~crossed' => ~crossed /\ \A u \in Threads : op[u] = Idle
  BY <1>1
<1>9. OneCalls'
  BY <1>5, <1>8 DEF OneCalls
<1>10. ASSUME ~crossed', NEW u \in Threads
       PROVE  /\ ~At(u, "persist")' /\ ~At(u, "persist")
              /\ op'[u] # Idle => u = t
  <2>1. u # t => op'[u] = Idle
    BY <1>5, <1>8, <1>10
  <2> QED
    BY <1>5, <1>8, <1>10, <2>1 DEF At, Idle
<1>11. MemoryMatches'
  <2> SUFFICES ASSUME ~crossed', ~blind'
               PROVE  MemoryMatches'
    BY DEF MemoryMatches
  <2>1. /\ \A s \in Rows : s < Continuation[2]
        /\ \A i \in 1..Len(memory) :
              /\ memory[i].seq = Continuation[2] - 1 - (Len(memory) - i)
              /\ table[memory[i].seq] \in {NoRow, memory[i]}
    BY <1>1, <1>8 DEF AuditSound, MemoryMatches
  <2>2. \A u \in Threads : At(u, "append")' => op'[u].entry.seq = Continuation[2]
    <3> SUFFICES ASSUME NEW u \in Threads, At(u, "append")'
                 PROVE  op'[u].entry.seq = Continuation[2]
      OBVIOUS
    <3>1. u = t
      BY <1>10 DEF At, Idle
    <3> QED
      BY <1>3, <1>5, <3>1
  <2> QED
    BY <1>1, <1>6, <1>10, <2>1, <2>2 DEF MemoryMatches
<1>12. ASSUME ~crossed', ~blind', ~failed'
       PROVE  \E k \in 0..MaxCalls : RowsChain(k)'
  <2>1. PICK k \in 0..MaxCalls : RowsChain(k)
    BY <1>1, <1>8, <1>12 DEF AuditSound
  <2>2. Continuation = <<LinkAt(k), k + 1>>
    BY <1>10, <1>12, <2>1 DEF RowsChain
  <2>3. LinkAt(k)' = LinkAt(k) /\ \A s \in 1..k : LinkAt(s - 1)' = LinkAt(s - 1)
    BY <1>1 DEF LinkAt
  <2>4. ASSUME NEW u \in Threads, op'[u] # Idle
        PROVE  op'[u].entry.seq = k + 1 /\ op'[u].entry.prev = LinkAt(k)
    <3>1. u = t
      BY <1>10, <1>12, <2>4
    <3> QED
      BY <1>3, <1>5, <2>2, <3>1
  <2> QED
    BY <1>1, <1>6, <2>1, <2>2, <2>3, <2>4 DEF RowsChain
<1> QED
  BY <1>7, <1>9, <1>11, <1>12 DEF AuditSound

LEMMA AppendSound ==
    ASSUME AuditSound, NEW t \in Threads, AppendEntry(t)
    PROVE  AuditSound'
<1> DEFINE e == op[t].entry
           m == Kept(Append(memory, e))
<1>1. /\ At(t, "append") /\ memory' = m
      /\ op' = [op EXCEPT ![t].step = "persist"]
      /\ UNCHANGED <<auditHead, table, calls, failed, crossed, blind>>
  BY DEF AppendEntry
<1>2. AuditTypes
  BY DEF AuditSound
<1>3. op[t] # Idle /\ op[t].step = "append" /\ SoundEntry(e, calls)
  BY <1>1, <1>2 DEF At, Idle, AuditTypes
<1> HIDE DEF e
<1>4. /\ IsSequence(m) /\ m # <<>> /\ Len(m) \in Nat \ {0} /\ m[Len(m)] = e
      /\ \A i \in 1..(Len(m) - 1) :
            \E j \in 1..Len(memory) : m[i] = memory[j] /\ Len(memory) - j = Len(m) - 1 - i
  BY <1>2, AppendKept
<1> HIDE DEF m
<1>5. op'[t] = [step |-> "persist", entry |-> e] /\ \A u \in Threads : u # t => op'[u] = op[u]
  <2>1. op[t] = [step |-> op[t].step, entry |-> e]
    BY <1>2, <1>3 DEF AuditTypes, e
  <2> QED
    BY <1>1, <1>2, <2>1 DEF AuditTypes
<1>6. Rows' = Rows /\ Continuation' = <<e.hash, e.seq + 1>>
  BY <1>1, <1>4 DEF Rows, Continuation
<1>7. \A x : SoundEntry(x, calls') <=> SoundEntry(x, calls)
  BY <1>1 DEF SoundEntry
<1>8. AuditTypes'
  <2>1. op' = [u \in Threads |-> op'[u]]
    BY <1>1, <1>2 DEF AuditTypes
  <2>2. ASSUME NEW u \in Threads, op'[u] # Idle
        PROVE  /\ op'[u] = [step |-> op'[u].step, entry |-> op'[u].entry]
               /\ op'[u].step \in {"append", "persist"}
               /\ SoundEntry(op'[u].entry, calls')
    <3>1. CASE u = t
      BY <1>3, <1>5, <1>7, <3>1
    <3>2. CASE u # t
      BY <1>2, <1>5, <1>7, <2>2, <3>2 DEF AuditTypes
    <3> QED
      BY <3>1, <3>2
  <2>3. ASSUME NEW i \in 1..Len(m) PROVE SoundEntry(m[i], calls)
    <3>1. CASE i = Len(m)
      BY <1>3, <1>4, <3>1
    <3>2. CASE i # Len(m)
      <4>1. i \in 1..(Len(m) - 1)
        BY <1>4, <3>2
      <4>2. PICK j \in 1..Len(memory) : m[i] = memory[j]
        BY <1>4, <4>1
      <4> QED
        BY <1>2, <4>2 DEF AuditTypes
    <3> QED
      BY <3>1, <3>2
  <2>4. \A s \in Rows' : SoundEntry(table'[s], calls') /\ table'[s].seq = s
    BY <1>1, <1>2, <1>6, <1>7 DEF AuditTypes
  <2>5. auditHead' # NoRow => SoundEntry(auditHead', calls')
    BY <1>1, <1>2, <1>7 DEF AuditTypes
  <2>6. IsSequence(memory)' /\ \A i \in 1..Len(memory') : SoundEntry(memory'[i], calls')
    BY <1>1, <1>4, <1>7, <2>3 DEF IsSequence
  <2>7. calls' \in 0..MaxCalls /\ table' = [s \in 1..MaxCalls |-> table'[s]]
    BY <1>1, <1>2 DEF AuditTypes
  <2> QED
    BY <2>1, <2>2, <2>4, <2>5, <2>6, <2>7 DEF AuditTypes
<1>9. \A u \in Threads : op'[u] # Idle => op[u] # Idle
  BY <1>3, <1>5
<1>10. OneCalls'
  BY <1>1, <1>9 DEF AuditSound, OneCalls
<1>11. ASSUME ~crossed', NEW u \in Threads, op'[u] # Idle PROVE u = t
  BY <1>1, <1>3, <1>9, <1>11 DEF AuditSound, OneCalls
<1>12. MemoryMatches'
  <2> SUFFICES ASSUME ~crossed', ~blind'
               PROVE  MemoryMatches'
    BY DEF MemoryMatches
  <2>1. /\ \A s \in Rows : s < Continuation[2]
        /\ \A i \in 1..Len(memory) :
              /\ memory[i].seq = Continuation[2] - 1 - (Len(memory) - i)
              /\ table[memory[i].seq] \in {NoRow, memory[i]}
        /\ e.seq = Continuation[2]
    BY <1>1 DEF AuditSound, MemoryMatches, e
  <2>2. e.seq \in 1..calls /\ calls \in 0..MaxCalls /\ MaxCalls \in Nat
    BY <1>2, <1>3, WindowAssumption DEF SoundEntry, AuditTypes
  <2>3. Continuation'[2] = e.seq + 1
    BY <1>6
  <2>4. \A s \in Rows' : s < Continuation'[2]
    <3>1. Rows \subseteq Nat
      BY <2>2 DEF Rows
    <3> QED
      BY <1>6, <2>1, <2>2, <2>3, <3>1
  <2>5. ASSUME NEW i \in 1..Len(m)
        PROVE  /\ m[i].seq = Continuation'[2] - 1 - (Len(m) - i)
               /\ table[m[i].seq] \in {NoRow, m[i]}
    <3>1. CASE i = Len(m)
      <4>1. m[i] = e
        BY <1>4, <3>1
      <4>2. m[i].seq = Continuation'[2] - 1 - (Len(m) - i)
        BY <1>4, <2>2, <2>3, <3>1, <4>1
      <4>3. e.seq \notin Rows
        BY <2>1, <2>2
      <4>4. table[e.seq] = NoRow
        BY <2>2, <4>3 DEF Rows
      <4> QED
        BY <4>1, <4>2, <4>4
    <3>2. CASE i # Len(m)
      <4>1. i \in 1..(Len(m) - 1)
        BY <1>4, <3>2
      <4>2. PICK j \in 1..Len(memory) : m[i] = memory[j] /\ Len(memory) - j = Len(m) - 1 - i
        BY <1>4, <4>1
      <4>3. memory[j].seq = Continuation[2] - 1 - (Len(memory) - j)
        BY <2>1
      <4>4. m[i].seq = e.seq - 1 - (Len(m) - 1 - i)
        BY <2>1, <4>2, <4>3
      <4>5. m[i].seq = Continuation'[2] - 1 - (Len(m) - i)
        <5>1. Len(m) \in Nat /\ i \in Nat /\ e.seq \in Nat
          BY <1>4, <2>2
        <5>2. e.seq - 1 - (Len(m) - 1 - i) = (e.seq + 1) - 1 - (Len(m) - i)
          BY <5>1
        <5> QED
          BY <2>3, <4>4, <5>2
      <4> QED
        BY <2>1, <4>2, <4>5
    <3> QED
      BY <3>1, <3>2
  <2>6. ASSUME NEW u \in Threads
        PROVE  /\ ~At(u, "append")'
               /\ At(u, "persist")' => op'[u].entry = e
    <3>1. op'[u] # Idle => u = t
      BY <1>11
    <3> QED
      BY <1>5, <3>1 DEF At, Idle
  <2> QED
    BY <1>1, <1>4, <2>4, <2>5, <2>6 DEF MemoryMatches
<1>13. ASSUME ~crossed', ~blind', ~failed'
       PROVE  \E k \in 0..MaxCalls : RowsChain(k)'
  <2>1. PICK k \in 0..MaxCalls : RowsChain(k)
    BY <1>1, <1>13 DEF AuditSound
  <2>2. LinkAt(k)' = LinkAt(k) /\ \A s \in 1..k : LinkAt(s - 1)' = LinkAt(s - 1)
    BY <1>1 DEF LinkAt
  <2>3. At(t, "persist")'
    BY <1>5 DEF At
  <2>4. e.seq = k + 1 /\ e.prev = LinkAt(k)
    BY <1>3, <2>1 DEF RowsChain, e
  <2>5. ASSUME NEW u \in Threads, op'[u] # Idle
        PROVE  op'[u].entry.seq = k + 1 /\ op'[u].entry.prev = LinkAt(k)
    <3>1. u = t
      BY <1>11, <1>13, <2>5
    <3> QED
      BY <1>5, <2>4, <3>1
  <2> QED
    BY <1>1, <1>6, <2>1, <2>2, <2>3, <2>5 DEF RowsChain
<1> QED
  BY <1>8, <1>10, <1>12, <1>13 DEF AuditSound

(* A row is written once: an insertion adds a row and changes none.        *)
LEMMA InsertedIs ==
    ASSUME AuditTypes, NEW e, SoundEntry(e, calls), table' = RowInserted(e)
    PROVE  /\ table' = [s \in 1..MaxCalls |-> table'[s]]
           /\ e.seq \in 1..MaxCalls
           /\ \A s \in 1..MaxCalls : s # e.seq \/ s \in Rows => table'[s] = table[s]
           /\ e.seq \notin Rows => table'[e.seq] = e
           /\ Rows' = Rows \cup {e.seq}
<1>1. e.seq \in 1..MaxCalls
  BY WindowAssumption DEF SoundEntry, AuditTypes
<1>2. table = [s \in 1..MaxCalls |-> table[s]]
  BY DEF AuditTypes
<1>3. table' = [table EXCEPT ![e.seq] = IF table[e.seq] = NoRow THEN e ELSE table[e.seq]]
  BY DEF RowInserted
<1>4. table' = [s \in 1..MaxCalls |->
                  IF s = e.seq THEN IF table[e.seq] = NoRow THEN e ELSE table[e.seq]
                  ELSE table[s]]
  BY <1>2, <1>3
<1>5. table' = [s \in 1..MaxCalls |-> table'[s]]
  BY <1>4
<1>6. \A s \in 1..MaxCalls :
         table'[s] = IF s = e.seq THEN IF table[e.seq] = NoRow THEN e ELSE table[e.seq]
                     ELSE table[s]
  BY <1>4
<1>7. e # NoRow
  BY SoundIsSome
<1>8. Rows' = Rows \cup {e.seq}
  <2>1. \A s \in 1..MaxCalls : table'[s] # NoRow <=> table[s] # NoRow \/ s = e.seq
    BY <1>6, <1>7
  <2> QED
    BY <1>1, <2>1 DEF Rows
<1> QED
  BY <1>1, <1>5, <1>6, <1>8 DEF Rows

LEMMA PersistSound ==
    ASSUME AuditSound, NEW t \in Threads, Persist(t)
    PROVE  AuditSound'
<1> DEFINE e == op[t].entry
<1>1. /\ At(t, "persist") /\ table' = RowInserted(e)
      /\ op' = [op EXCEPT ![t] = Idle]
      /\ UNCHANGED <<memory, auditHead, calls, failed, crossed, blind>>
  BY DEF Persist
<1>2. AuditTypes
  BY DEF AuditSound
<1>3. op[t] # Idle /\ SoundEntry(e, calls)
  BY <1>1, <1>2 DEF At, Idle, AuditTypes
<1> HIDE DEF e
<1>4. /\ table' = [s \in 1..MaxCalls |-> table'[s]]
      /\ e.seq \in 1..MaxCalls
      /\ \A s \in 1..MaxCalls : s # e.seq \/ s \in Rows => table'[s] = table[s]
      /\ e.seq \notin Rows => table'[e.seq] = e
      /\ Rows' = Rows \cup {e.seq}
  BY <1>1, <1>2, <1>3, InsertedIs
<1>5. op'[t] = Idle /\ \A u \in Threads : u # t => op'[u] = op[u]
  BY <1>1, <1>2 DEF AuditTypes
<1>6. Continuation' = Continuation /\ Rows \subseteq 1..MaxCalls
  BY <1>1 DEF Continuation, Rows
<1>7. AuditTypes'
  <2>1. op' = [u \in Threads |-> op'[u]]
    BY <1>1, <1>2 DEF AuditTypes
  <2>2. ASSUME NEW u \in Threads, op'[u] # Idle
        PROVE  /\ op'[u] = [step |-> op'[u].step, entry |-> op'[u].entry]
               /\ op'[u].step \in {"append", "persist"}
               /\ SoundEntry(op'[u].entry, calls')
    <3>1. u # t /\ op'[u] = op[u]
      BY <1>5, <2>2
    <3> QED
      BY <1>1, <1>2, <2>2, <3>1 DEF AuditTypes
  <2>3. ASSUME NEW s \in Rows' PROVE SoundEntry(table'[s], calls') /\ table'[s].seq = s
    <3>1. CASE s \in Rows
      <4>1. table'[s] = table[s]
        BY <1>4, <1>6, <3>1
      <4> QED
        BY <1>1, <1>2, <3>1, <4>1 DEF AuditTypes
    <3>2. CASE s \notin Rows
      <4>1. s = e.seq /\ table'[s] = e
        BY <1>4, <3>2
      <4> QED
        BY <1>1, <1>3, <4>1
    <3> QED
      BY <3>1, <3>2
  <2>4. IsSequence(memory)' /\ \A i \in 1..Len(memory') : SoundEntry(memory'[i], calls')
    BY <1>1, <1>2 DEF AuditTypes, IsSequence
  <2>5. calls' \in 0..MaxCalls /\ (auditHead' # NoRow => SoundEntry(auditHead', calls'))
    BY <1>1, <1>2 DEF AuditTypes
  <2> QED
    BY <1>4, <2>1, <2>2, <2>3, <2>4, <2>5 DEF AuditTypes
<1>8. \A u \in Threads : op'[u] # Idle => op[u] # Idle /\ u # t
  BY <1>3, <1>5
<1>9. OneCalls'
  BY <1>1, <1>8 DEF AuditSound, OneCalls
<1>10. ASSUME ~crossed' PROVE \A u \in Threads : op'[u] = Idle
  BY <1>1, <1>3, <1>8, <1>10 DEF AuditSound, OneCalls
<1>11. ASSUME ~crossed', ~blind'
       PROVE  /\ e = memory[Len(memory)] /\ memory # <<>> /\ Len(memory) \in 1..Len(memory)
              /\ Continuation = <<e.hash, e.seq + 1>>
  <2>1. e = memory[Len(memory)] /\ memory # <<>>
    BY <1>1, <1>11 DEF AuditSound, MemoryMatches, e
  <2>2. Len(memory) \in 1..Len(memory)
    BY <1>2, <2>1 DEF AuditTypes, IsSequence
  <2> QED
    BY <2>1, <2>2 DEF Continuation
<1>12. MemoryMatches'
  <2> SUFFICES ASSUME ~crossed', ~blind'
               PROVE  MemoryMatches'
    BY DEF MemoryMatches
  <2>1. /\ \A s \in Rows : s < Continuation[2]
        /\ \A i \in 1..Len(memory) :
              /\ memory[i].seq = Continuation[2] - 1 - (Len(memory) - i)
              /\ table[memory[i].seq] \in {NoRow, memory[i]}
    BY <1>1 DEF AuditSound, MemoryMatches
  <2>2. Continuation[2] = e.seq + 1
    BY <1>11
  <2>3. \A s \in Rows' : s < Continuation[2]
    BY <1>4, <2>1, <2>2
  <2>4. ASSUME NEW i \in 1..Len(memory)
        PROVE  table'[memory[i].seq] \in {NoRow, memory[i]}
    <3>1. memory[i].seq \in 1..MaxCalls
      BY <1>2, WindowAssumption DEF AuditTypes, SoundEntry
    <3>2. CASE memory[i].seq # e.seq \/ memory[i].seq \in Rows
      BY <1>4, <2>1, <3>1, <3>2
    <3>3. CASE memory[i].seq = e.seq /\ memory[i].seq \notin Rows
      <4>1. e.seq \in Int /\ Len(memory) \in Int /\ i \in Int
        BY <1>4, <1>11
      <4>2. memory[i].seq = Continuation[2] - 1 - (Len(memory) - i)
        BY <2>1
      <4>3. e.seq = (e.seq + 1) - 1 - (Len(memory) - i)
        BY <2>2, <3>3, <4>2
      <4>4. i = Len(memory)
        BY <4>1, <4>3
      <4>5. memory[i] = e
        BY <1>11, <4>4
      <4> QED
        BY <1>4, <3>3, <4>5
    <3> QED
      BY <3>2, <3>3
  <2>5. \A u \in Threads : ~At(u, "append")' /\ ~At(u, "persist")'
    BY <1>10 DEF At, Idle
  <2> QED
    BY <1>1, <1>6, <2>1, <2>3, <2>4, <2>5 DEF MemoryMatches
<1>13. ASSUME ~crossed', ~blind', ~failed'
       PROVE  \E k \in 0..MaxCalls : RowsChain(k)'
  <2>1. PICK k \in 0..MaxCalls : RowsChain(k)
    BY <1>1, <1>13 DEF AuditSound
  <2>2. /\ Rows = 1..k /\ e.seq = k + 1 /\ e.prev = LinkAt(k)
        /\ \A s \in 1..k : table[s].prev = LinkAt(s - 1)
    BY <1>3, <2>1 DEF RowsChain, e
  <2>3. k + 1 \in 0..MaxCalls /\ k + 1 \in 1..MaxCalls /\ k \in Nat
    BY <1>4, <2>2, WindowAssumption
  <2>4. Rows' = 1..(k + 1) /\ k + 1 \notin Rows
    BY <1>4, <2>2, <2>3
  <2>5. table'[k + 1] = e /\ \A s \in 1..k : table'[s] = table[s]
    <3>1. table'[k + 1] = e
      BY <1>4, <2>2, <2>4
    <3>2. \A s \in 1..k : s \in 1..MaxCalls /\ s \in Rows
      BY <1>6, <2>2
    <3> QED
      BY <1>4, <3>1, <3>2
  <2>6. \A s \in 0..k : LinkAt(s)' = LinkAt(s)
    BY <2>3, <2>5 DEF LinkAt
  <2>7. LinkAt(k + 1)' = e.hash
    BY <2>3, <2>5 DEF LinkAt
  <2>8. ASSUME NEW s \in 1..(k + 1) PROVE table'[s].prev = LinkAt(s - 1)'
    <3>1. s - 1 \in 0..k /\ (s = k + 1 \/ s \in 1..k)
      BY <2>3
    <3>2. CASE s = k + 1
      <4>1. s - 1 = k /\ k \in 0..k
        BY <2>3, <3>2
      <4> QED
        BY <2>2, <2>5, <2>6, <3>2, <4>1
    <3>3. CASE s \in 1..k
      BY <2>2, <2>5, <2>6, <3>1, <3>3
    <3> QED
      BY <3>1, <3>2, <3>3
  <2>9. Continuation' = <<LinkAt(k + 1)', (k + 1) + 1>>
    BY <1>6, <1>11, <1>13, <2>2, <2>7
  <2>10. \A u \in Threads : op'[u] = Idle
    BY <1>10, <1>13
  <2>11. RowsChain(k + 1)'
    BY <2>4, <2>8, <2>9, <2>10 DEF RowsChain
  <2> QED
    BY <2>3, <2>11
<1> QED
  BY <1>7, <1>9, <1>12, <1>13 DEF AuditSound

LEMMA PersistFailsSound ==
    ASSUME AuditSound, NEW t \in Threads, PersistFails(t)
    PROVE  AuditSound'
<1>1. /\ op' = [op EXCEPT ![t] = Idle] /\ failed'
      /\ UNCHANGED <<memory, auditHead, table, calls, crossed, blind>>
  BY DEF PersistFails
<1>2. AuditTypes
  BY DEF AuditSound
<1>3. op'[t] = Idle /\ \A u \in Threads : u # t => op'[u] = op[u]
  BY <1>1, <1>2 DEF AuditTypes
<1>4. Continuation' = Continuation /\ Rows' = Rows
  BY <1>1 DEF Continuation, Rows
<1>5. \A u \in Threads : op'[u] # Idle => op'[u] = op[u]
  BY <1>3
<1>6. AuditTypes'
  <2>1. op' = [u \in Threads |-> op'[u]]
    BY <1>1, <1>2 DEF AuditTypes
  <2>2. ASSUME NEW u \in Threads, op'[u] # Idle
        PROVE  /\ op'[u] = [step |-> op'[u].step, entry |-> op'[u].entry]
               /\ op'[u].step \in {"append", "persist"}
               /\ SoundEntry(op'[u].entry, calls')
    BY <1>1, <1>2, <1>5, <2>2 DEF AuditTypes
  <2>3. IsSequence(memory)' /\ \A i \in 1..Len(memory') : SoundEntry(memory'[i], calls')
    BY <1>1, <1>2 DEF AuditTypes, IsSequence
  <2>4. \A s \in Rows' : SoundEntry(table'[s], calls') /\ table'[s].seq = s
    BY <1>1, <1>2, <1>4 DEF AuditTypes
  <2>5. /\ calls' \in 0..MaxCalls /\ (auditHead' # NoRow => SoundEntry(auditHead', calls'))
        /\ table' = [s \in 1..MaxCalls |-> table'[s]]
    BY <1>1, <1>2 DEF AuditTypes
  <2> QED
    BY <2>1, <2>2, <2>3, <2>4, <2>5 DEF AuditTypes
<1>7. OneCalls'
  BY <1>1, <1>5 DEF AuditSound, OneCalls
<1>8. \A u \in Threads : /\ At(u, "append")' => At(u, "append") /\ op'[u] = op[u]
                         /\ At(u, "persist")' => At(u, "persist") /\ op'[u] = op[u]
  BY <1>3 DEF At, Idle
<1>9. MemoryMatches'
  BY <1>1, <1>4, <1>8 DEF AuditSound, MemoryMatches
<1> QED
  BY <1>1, <1>6, <1>7, <1>9 DEF AuditSound

LEMMA RestartSound ==
    ASSUME AuditSound, NEW readable \in BOOLEAN, Restart(readable)
    PROVE  AuditSound'
<1>1. /\ memory' = <<>>
      /\ auditHead' = IF readable THEN LatestRow ELSE NoRow
      /\ blind' = (blind \/ ~readable)
      /\ op' = [u \in Threads |-> Idle]
      /\ UNCHANGED <<table, calls, failed, crossed>>
  BY DEF Restart
<1>2. AuditTypes
  BY DEF AuditSound
<1>3. Rows' = Rows /\ Rows \subseteq 1..MaxCalls
  BY <1>1 DEF Rows
<1>4. IsSequence(memory') /\ Len(memory') = 0
  BY <1>1 DEF IsSequence
<1>5. \A u \in Threads : op'[u] = Idle
  BY <1>1
<1>6. AuditTypes'
  <2>1. auditHead' # NoRow => SoundEntry(auditHead', calls')
    <3>1. auditHead' # NoRow => \E s \in Rows : auditHead' = table[s]
      BY <1>1, LatestIs
    <3> QED
      BY <1>1, <1>2, <3>1 DEF AuditTypes
  <2>2. op' = [u \in Threads |-> op'[u]]
    BY <1>1
  <2>3. \A s \in Rows' : SoundEntry(table'[s], calls') /\ table'[s].seq = s
    BY <1>1, <1>2, <1>3 DEF AuditTypes
  <2>4. calls' \in 0..MaxCalls /\ table' = [s \in 1..MaxCalls |-> table'[s]]
    BY <1>1, <1>2 DEF AuditTypes
  <2> QED
    BY <1>4, <1>5, <2>1, <2>2, <2>3, <2>4 DEF AuditTypes
<1>7. OneCalls'
  BY <1>5 DEF OneCalls
<1>8. \A u \in Threads : ~At(u, "append")' /\ ~At(u, "persist")'
  BY <1>5 DEF At, Idle
<1>9. ASSUME ~blind'
      PROVE  \/ Rows = {} /\ Continuation' = <<AuditRoot, 1>>
             \/ \E s \in Rows : /\ \A u \in Rows : u <= s
                                /\ Continuation' = <<table[s].hash, s + 1>>
  <2>1. auditHead' = LatestRow
    BY <1>1, <1>9
  <2>2. CASE Rows = {}
    BY <1>1, <2>1, <2>2, LatestIs DEF Continuation
  <2>3. CASE Rows # {}
    <3>1. PICK s \in Rows : LatestRow = table[s] /\ \A u \in Rows : u <= s
      BY <2>3, LatestIs
    <3>2. SoundEntry(table[s], calls) /\ table[s].seq = s
      BY <1>2 DEF AuditTypes
    <3>3. auditHead' = table[s] /\ auditHead' # NoRow
      BY <2>1, <3>1, <3>2, SoundIsSome
    <3>4. Continuation' = <<table[s].hash, s + 1>>
      BY <1>1, <3>2, <3>3 DEF Continuation
    <3> QED
      BY <3>1, <3>4
  <2> QED
    BY <2>2, <2>3
<1>10. MemoryMatches'
  <2> SUFFICES ASSUME ~crossed', ~blind'
               PROVE  MemoryMatches'
    BY DEF MemoryMatches
  <2>1. ASSUME NEW s \in Rows PROVE s < Continuation'[2]
    <3>1. PICK u \in Rows : s <= u /\ Continuation' = <<table[u].hash, u + 1>>
      BY <1>9
    <3>2. Continuation'[2] = u + 1 /\ s \in Int /\ u \in Int
      BY <1>3, <3>1
    <3> QED
      BY <3>1, <3>2
  <2> QED
    BY <1>3, <1>4, <1>8, <2>1 DEF MemoryMatches
<1>11. ASSUME ~crossed', ~blind', ~failed'
       PROVE  \E k \in 0..MaxCalls : RowsChain(k)'
  <2>1. PICK k \in 0..MaxCalls : RowsChain(k)
    BY <1>1, <1>11 DEF AuditSound
  <2>2. Rows = 1..k /\ k \in Nat
    BY <2>1, WindowAssumption DEF RowsChain
  <2>3. LinkAt(k)' = LinkAt(k) /\ \A s \in 1..k : LinkAt(s - 1)' = LinkAt(s - 1)
    BY <1>1 DEF LinkAt
  <2>4. Continuation' = <<LinkAt(k), k + 1>>
    <3>1. CASE k = 0
      BY <1>9, <1>11, <2>2, <3>1 DEF LinkAt
    <3>2. CASE k # 0
      <4>1. k \in Rows /\ \A s \in Rows : (\A u \in Rows : u <= s) => s = k
        BY <2>2, <3>2
      <4> QED
        BY <1>9, <1>11, <3>2, <4>1 DEF LinkAt
    <3> QED
      BY <3>1, <3>2
  <2> QED
    BY <1>1, <1>3, <1>5, <2>1, <2>3, <2>4 DEF RowsChain
<1> QED
  BY <1>6, <1>7, <1>10, <1>11 DEF AuditSound

LEMMA AuditSoundStep == AuditSound /\ [AuditNext]_auditVars => AuditSound'
<1> SUFFICES ASSUME AuditSound, [AuditNext]_auditVars
             PROVE  AuditSound'
  OBVIOUS
<1>1. CASE UNCHANGED auditVars
  <2>1. UNCHANGED <<memory, auditHead, table, op, calls, failed, crossed, blind>>
    BY <1>1 DEF auditVars
  <2>2. Rows' = Rows /\ Continuation' = Continuation
    BY <2>1 DEF Rows, Continuation
  <2>3. AuditTypes'
    BY <2>1, <2>2 DEF AuditSound, AuditTypes, IsSequence
  <2>4. OneCalls' /\ MemoryMatches'
    BY <2>1, <2>2 DEF AuditSound, OneCalls, MemoryMatches, At
  <2>5. \A k : RowsChain(k) => RowsChain(k)'
    BY <2>1, <2>2 DEF RowsChain, LinkAt, At
  <2> QED
    BY <2>1, <2>3, <2>4, <2>5 DEF AuditSound
<1>2. CASE AuditNext
  BY <1>2, BuildSound, AppendSound, PersistSound, PersistFailsSound, RestartSound DEF AuditNext
<1> QED
  BY <1>1, <1>2

(* The invariant the theorems below read their properties from: entries    *)
(* hash to their hash and continue the number before theirs; while calls   *)
(* of _log_action do not cross, memory ends where the next entry goes on   *)
(* and agrees with the rows it has; and while nothing was lost the rows    *)
(* are one chain.                                                          *)
THEOREM AuditLogSound == AuditSpec => []AuditSound
<1>1. AuditInit => AuditSound
  BY AuditInitSound
<1>2. AuditSound /\ [AuditNext]_auditVars => AuditSound'
  BY AuditSoundStep
<1> QED
  BY <1>1, <1>2, PTL DEF AuditSpec

-----------------------------------------------------------------------------
(* What the invariant says of the stored rows                              *)

(* A set of numbers that is not empty has a least one.                     *)
LEMMA LeastOf ==
    ASSUME NEW T \in SUBSET Nat, T # {}
    PROVE  \E m \in T : \A x \in T : m <= x
<1> DEFINE Less == {ss \in Nat \X Nat : ss[1] < ss[2]}
<1>1. IsWellFoundedOn(Less, Nat)
  <2>1. Less = OpToRel(<, Nat)
    BY DEF OpToRel
  <2> QED
    BY <2>1, NatLessThanWellFounded
<1>2. \A x, y \in Nat : x < y => <<x, y>> \in Less
  OBVIOUS
<1> HIDE DEF Less
<1>3. PICK m \in T : \A x \in T : <<x, m>> \notin Less
  BY <1>1, WFMin
<1>4. \A x \in T : x \in Nat /\ m \in Nat /\ ~(x < m)
  BY <1>2, <1>3
<1> QED
  BY <1>4

(* When the rows are numbered without a gap, the i-th is the row of i.     *)
LEMMA RowsInTurn ==
    ASSUME NEW k \in Nat, Rows = 1..k
    PROVE  Cardinality(Rows) = k /\ \A i \in 1..k : RowAt(i) = i
<1>1. Cardinality(Rows) = k
  BY FS_Interval
<1>2. ASSUME NEW i \in 1..k PROVE RowAt(i) = i
  <2>1. RowAt(i) \in 1..k /\ Cardinality({u \in Rows : u <= RowAt(i)}) = i
    BY <1>1, RowsNumbered
  <2>2. {u \in Rows : u <= RowAt(i)} = 1..RowAt(i)
    BY <2>1
  <2>3. Cardinality(1..RowAt(i)) = RowAt(i)
    BY <2>1, FS_Interval
  <2> QED
    BY <2>1, <2>2, <2>3
<1> QED
  BY <1>1, <1>2

LEMMA SoundIsChain == AuditSound => StoredIsChain
<1> SUFFICES ASSUME AuditSound, ~crossed, ~failed, ~blind
             PROVE  /\ Verify(Stored)
                    /\ Stored # <<>> => Stored[1].prev = AuditRoot
                    /\ \A i \in 1..Len(Stored) : Stored[i].seq = i
  BY DEF StoredIsChain
<1>1. PICK k \in 0..MaxCalls : RowsChain(k)
  BY DEF AuditSound
<1>2. k \in Nat /\ Rows = 1..k /\ \A s \in 1..k : table[s].prev = LinkAt(s - 1)
  BY <1>1, WindowAssumption DEF RowsChain
<1>3. \A s \in 1..k : SoundEntry(table[s], calls) /\ table[s].seq = s
  BY <1>2 DEF AuditSound, AuditTypes
<1>4. Len(Stored) = k /\ \A i \in 1..k : Stored[i] = table[i]
  BY <1>2, RowsInTurn, StoredIs
<1>5. \A i \in 1..k : table[i].hash = EntryHash(table[i].prev, table[i].seq, table[i].ts)
  <2> SUFFICES ASSUME NEW i \in 1..k
               PROVE  table[i].hash = EntryHash(table[i].prev, table[i].seq, table[i].ts)
    OBVIOUS
  <2>1. PICK x : x = table[i]
    OBVIOUS
  <2>2. x = Entry(x.prev, x.seq, x.ts)
    BY <1>3, <2>1 DEF SoundEntry
  <2>3. x.hash = EntryHash(x.prev, x.seq, x.ts)
    BY <2>2 DEF Entry
  <2> QED
    BY <2>1, <2>3
<1>6. \A i \in 2..k : table[i].prev = table[i - 1].hash
  BY <1>2 DEF LinkAt
<1>7. Verify(Stored)
  <2>1. \A i \in 2..k : i \in 1..k /\ i - 1 \in 1..k
    BY <1>2
  <2> QED
    BY <1>4, <1>5, <1>6, <2>1 DEF Verify
<1>8. Stored # <<>> => Stored[1].prev = AuditRoot
  <2> SUFFICES ASSUME Stored # <<>> PROVE Stored[1].prev = AuditRoot
    OBVIOUS
  <2>1. 1 \in 1..k
    BY <1>2, <1>4, StoredIs
  <2> QED
    BY <1>2, <1>4, <2>1 DEF LinkAt
<1> QED
  BY <1>3, <1>4, <1>7, <1>8

(* Sound entries, each continuing the one before it.                       *)
Linked(s, n, c) ==
    /\ \A i \in 1..n : SoundEntry(s[i], c)
    /\ s[1].prev = AuditRoot
    /\ \A i \in 2..n : s[i].prev = s[i - 1].hash

(* Entries that are sound and linked from the first one on are numbered    *)
(* from 1 on: the number is part of what is hashed.                        *)
LEMMA LinkedIsNumbered ==
    ASSUME NEW n \in Nat, NEW c, NEW s, n >= 1, Linked(s, n, c)
    PROVE  \A i \in 1..n : s[i].seq = i
<1> DEFINE T == {i \in 1..n : s[i].seq # i}
<1> SUFFICES ASSUME T # {} PROVE FALSE
  OBVIOUS
<1>1. PICK i \in T : \A j \in T : i <= j
  <2>1. T \in SUBSET Nat
    OBVIOUS
  <2> HIDE DEF T
  <2> QED
    BY <2>1, LeastOf
<1>2. PICK x : x = s[i]
  OBVIOUS
<1>3. SoundEntry(x, c) /\ x.seq # i /\ i \in 1..n
  BY <1>1, <1>2 DEF Linked
<1>4. x.seq # 1 => x.prev = EntryHash(x.prev[1], x.seq - 1, x.prev[3])
  BY <1>3 DEF SoundEntry
<1>5. CASE i = 1
  <2>1. x.prev = <<>> /\ x.seq # 1
    BY <1>2, <1>3, <1>5 DEF AuditRoot, Linked
  <2> QED
    BY <1>4, <2>1 DEF EntryHash
<1>6. CASE i # 1
  <2>1. i - 1 \in 1..n /\ i \in 2..n /\ ~(i <= i - 1)
    BY <1>3, <1>6
  <2>2. s[i - 1].seq = i - 1
    BY <1>1, <2>1
  <2>3. PICK y : y = s[i - 1]
    OBVIOUS
  <2>4. SoundEntry(y, c) /\ y.seq = i - 1 /\ x.prev = y.hash
    BY <1>2, <2>1, <2>2, <2>3 DEF Linked
  <2>5. y = Entry(y.prev, y.seq, y.ts)
    BY <2>4 DEF SoundEntry
  <2>6. x.prev = <<y.prev, i - 1, y.ts>>
    BY <2>4, <2>5 DEF Entry, EntryHash
  <2>7. x.seq # 1
    <3>1. CASE x.seq = 1
      BY <1>3, <2>6, <3>1 DEF SoundEntry, AuditRoot
    <3> QED
      BY <3>1
  <2>8. x.seq - 1 = i - 1 /\ x.seq \in Int
    BY <1>3, <1>4, <2>6, <2>7 DEF EntryHash, SoundEntry
  <2> QED
    BY <1>3, <2>1, <2>8
<1> QED
  BY <1>5, <1>6

LEMMA SoundSeesHoles == AuditSound => HoleIsSeen
<1> SUFFICES ASSUME AuditSound, ~crossed, ~blind, Stored # <<>>, Verify(Stored),
                    Stored[1].prev = AuditRoot,
                    NEW i \in 1..Len(memory), memory[i].seq <= Stored[Len(Stored)].seq
             PROVE  table[memory[i].seq] = memory[i]
  BY DEF HoleIsSeen
<1> DEFINE n == Len(Stored)
<1>1. /\ n \in Nat /\ n >= 1
      /\ \A j \in 1..n : RowAt(j) \in Rows /\ Stored[j] = table[RowAt(j)]
  BY StoredIs
<1>2. \A j \in 1..n : SoundEntry(Stored[j], calls) /\ Stored[j].seq = RowAt(j)
  BY <1>1 DEF AuditSound, AuditTypes
<1>3. \A j \in 2..n : Stored[j].prev = Stored[j - 1].hash
  BY DEF Verify
<1>4. \A j \in 1..n : Stored[j].seq = j
  <2>1. PICK s : s = Stored
    OBVIOUS
  <2>2. Linked(s, n, calls)
    BY <1>2, <1>3, <2>1 DEF Linked
  <2> HIDE DEF n
  <2>3. \A j \in 1..n : s[j].seq = j
    BY <1>1, <2>2, LinkedIsNumbered
  <2> QED
    BY <2>1, <2>3
<1>5. Stored[n].seq = n
  BY <1>1, <1>4
<1>6. memory[i].seq \in Nat /\ memory[i].seq >= 1
  <2>1. memory[i].seq \in 1..calls
    BY DEF AuditSound, AuditTypes, SoundEntry
  <2> QED
    BY <2>1
<1>7. memory[i].seq \in 1..n
  BY <1>1, <1>5, <1>6
<1>8. memory[i].seq \in Rows
  BY <1>1, <1>2, <1>4, <1>7
<1>9. table[memory[i].seq] # NoRow
  BY <1>8 DEF Rows
<1>10. table[memory[i].seq] \in {NoRow, memory[i]}
  BY DEF AuditSound, MemoryMatches
<1> QED
  BY <1>9, <1>10

(* While calls do not cross, no insertion failed and every start could     *)
(* read the newest row, the stored rows are one chain from the first entry *)
(* on, for any number of threads, calls and restarts and any window.       *)
THEOREM StoredRowsAreChain == AuditSpec => []StoredIsChain
<1>1. AuditSound => StoredIsChain
  BY SoundIsChain
<1> QED
  BY <1>1, AuditLogSound, PTL

(* While calls do not cross and every start could read the newest row,     *)
(* rows that verify from the first entry on lack no entry of the window up *)
(* to the newest row, however many insertions failed.                      *)
THEOREM HolesAreSeen == AuditSpec => []HoleIsSeen
<1>1. AuditSound => HoleIsSeen
  BY SoundSeesHoles
<1> QED
  BY <1>1, AuditLogSound, PTL
=============================================================================
