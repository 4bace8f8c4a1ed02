---------------------- MODULE FrameworkVersionsProofs -----------------------
(***************************************************************************)
(* Theorems about FrameworkVersions.  The one inductive invariant (Sound)  *)
(* says that the versions stored and the copies handlers are about to save *)
(* are sound by themselves: each carries the way to its own status.  It    *)
(* needs no premise on interleaving, because a handler saves a whole copy. *)
(* What relates two versions (OneActive) rests on the database's index.    *)
(***************************************************************************)
EXTENDS FrameworkVersions, TLAPS

(* A version that is sound by itself.                                      *)
SoundVersions ==
    {r \in VersionRecord :
        /\ r.lifecycle \in Paths
        /\ r.lifecycle[Len(r.lifecycle)] = r.status
        /\ SoD /\ r.status # "draft" => r.activated_by # r.created_by}

VersionOps ==
    [step : {"create_save", "activate_check", "activate_save", "retire_save"},
     of : Versions, rec : SoundVersions]
ControlOps ==
    [step : {"control_save", "import_version", "import_find", "import_control"},
     of : Controls, rec : ControlRecord]

OpSound ==
    /\ op \in [Workers -> VersionOps \cup ControlOps \cup {NoOp}]
    /\ \A w \in Workers : op[w] # NoOp =>
          /\ op[w].step = "create_save" => op[w].rec.status = "draft"
          /\ op[w].step = "retire_save" => op[w].rec.status = "retired"

RowsSound ==
    /\ projection \in [Entities -> Payloads \cup {NoRecord}]
    /\ \A v \in Versions : Exists(v) => projection[v] \in SoundVersions
    /\ \A c \in Controls : Exists(c) => projection[c] \in ControlRecord

Sound == OpSound /\ RowsSound

(* What a save may write.                                                  *)
GoodSave(e, p) ==
    \/ e \in Controls /\ p \in ControlRecord
    \/ /\ e \in Versions /\ p \in SoundVersions
       /\ p.status = "active" => IndexAllows(e, p)

-----------------------------------------------------------------------------
(* Lifecycles *)

LEMMA PathsFit == Paths \subseteq UNION {[1..n -> Statuses] : n \in 1..3}
<1>1. <<"draft">> \in [1..1 -> Statuses]
  BY DEF Statuses
<1>2. <<"draft", "active">> \in [1..2 -> Statuses]
  BY DEF Statuses
<1>3. <<"draft", "active", "retired">> \in [1..3 -> Statuses]
  BY DEF Statuses
<1> QED
  BY <1>1, <1>2, <1>3 DEF Paths

LEMMA PathEnds ==
    ASSUME NEW p \in Paths
    PROVE  /\ p[Len(p)] = "draft" => p = <<"draft">>
           /\ p[Len(p)] = "active" => p = <<"draft", "active">>
  BY DEF Paths

LEMMA NewIsSound ==
    ASSUME NEW a \in Actors
    PROVE  NewVersion(a) \in SoundVersions /\ NewVersion(a).status = "draft"
<1>1. <<"draft">> \in Paths /\ <<"draft">>[Len(<<"draft">>)] = "draft"
  BY DEF Paths
<1>2. <<"draft">> \in UNION {[1..n -> Statuses] : n \in 1..3}
  BY <1>1, PathsFit
<1>3. NewVersion(a) \in VersionRecord
  BY <1>2 DEF NewVersion, VersionRecord, Statuses
<1> QED
  BY <1>1, <1>3 DEF NewVersion, SoundVersions

(* Short sequences are the tuples of their entries.                        *)
LEMMA Tuples ==
    ASSUME NEW T, NEW s \in Seq(T)
    PROVE  /\ Len(s) = 2 => s = <<s[1], s[2]>>
           /\ Len(s) = 3 => s = <<s[1], s[2], s[3]>>
<1>1. ASSUME Len(s) = 2 PROVE s = <<s[1], s[2]>>
  BY <1>1
<1>2. ASSUME Len(s) = 3 PROVE s = <<s[1], s[2], s[3]>>
  BY <1>2
<1> QED
  BY <1>1, <1>2

(* One more entry in the lifecycle.                                        *)
LEMMA OneMore ==
    ASSUME NEW p \in Seq(Statuses), NEW x \in Statuses
    PROVE  /\ p = <<"draft">> => Append(p, x) = <<"draft", x>>
           /\ p = <<"draft", "active">> => Append(p, x) = <<"draft", "active", x>>
<1> DEFINE q == Append(p, x)
<1>1. /\ q \in Seq(Statuses)
      /\ Len(q) = Len(p) + 1
      /\ q[Len(p) + 1] = x
      /\ \A i \in 1..Len(p) : q[i] = p[i]
      /\ Len(p) \in Nat
  OBVIOUS
<1> HIDE DEF q
<1>2. ASSUME p = <<"draft">> PROVE q = <<"draft", x>>
  <2>1. Len(p) = 1 /\ p[1] = "draft"
    BY <1>2
  <2>2. Len(q) = 2 /\ q[1] = "draft" /\ q[2] = x
    BY <1>1, <2>1
  <2> QED
    BY <1>1, <2>2, Tuples
<1>3. ASSUME p = <<"draft", "active">> PROVE q = <<"draft", "active", x>>
  <2>1. Len(p) = 2 /\ p[1] = "draft" /\ p[2] = "active"
    BY <1>3
  <2>2. Len(q) = 3 /\ q[1] = "draft" /\ q[2] = "active" /\ q[3] = x
    BY <1>1, <2>1
  <2> QED
    BY <1>1, <2>2, Tuples
<1> QED
  BY <1>2, <1>3 DEF q

LEMMA ActivatedIsSound ==
    ASSUME NEW r \in SoundVersions, NEW a \in Actors,
           r.status = "draft", MayApprove(r.created_by, a)
    PROVE  Applied(r, "active", a) \in SoundVersions
<1> DEFINE next == Append(r.lifecycle, "active")
           new == Applied(r, "active", a)
<1>1. r \in VersionRecord /\ r.lifecycle = <<"draft">>
  BY PathEnds DEF SoundVersions
<1>2. next = <<"draft", "active">>
  <2>1. r.lifecycle \in Seq(Statuses) /\ "active" \in Statuses
    BY <1>1 DEF Statuses
  <2> QED
    BY <1>1, <2>1, OneMore
<1>3. /\ next \in Paths /\ next[Len(next)] = "active"
      /\ next \in UNION {[1..n -> Statuses] : n \in 1..3}
  BY <1>2, PathsFit DEF Paths
<1> HIDE DEF next
<1>4. /\ new \in VersionRecord
      /\ new.status = "active" /\ new.lifecycle = next
      /\ new.activated_by = a /\ new.created_by = r.created_by
  BY <1>1, <1>3 DEF Applied, VersionRecord, Statuses, next
<1> HIDE DEF new
<1>5. SoD => new.activated_by # new.created_by
  BY <1>4 DEF MayApprove
<1> QED
  BY <1>3, <1>4, <1>5 DEF SoundVersions, new

LEMMA RetiredIsSound ==
    ASSUME NEW r \in SoundVersions, NEW a \in Actors, r.status = "active"
    PROVE  /\ Applied(r, "retired", a) \in SoundVersions
           /\ Applied(r, "retired", a).status = "retired"
<1> DEFINE next == Append(r.lifecycle, "retired")
           new == Applied(r, "retired", a)
<1>1. r \in VersionRecord /\ r.lifecycle = <<"draft", "active">>
  BY PathEnds DEF SoundVersions
<1>2. next = <<"draft", "active", "retired">>
  <2>1. r.lifecycle \in Seq(Statuses) /\ "retired" \in Statuses
    BY <1>1 DEF Statuses
  <2> QED
    BY <1>1, <2>1, OneMore
<1>3. /\ next \in Paths /\ next[Len(next)] = "retired"
      /\ next \in UNION {[1..n -> Statuses] : n \in 1..3}
  BY <1>2, PathsFit DEF Paths
<1> HIDE DEF next
<1>4. /\ new \in VersionRecord
      /\ new.status = "retired" /\ new.lifecycle = next
      /\ new.activated_by = r.activated_by /\ new.created_by = r.created_by
  BY <1>1, <1>3 DEF Applied, VersionRecord, Statuses, next
<1> HIDE DEF new
<1>5. SoD => new.activated_by # new.created_by
  BY <1>4 DEF SoundVersions
<1> QED
  BY <1>3, <1>4, <1>5 DEF SoundVersions, new

-----------------------------------------------------------------------------
(* The steps *)

IsOp(r) ==
    \/ r = NoOp
    \/ /\ r \in VersionOps \cup ControlOps
       /\ r.step = "create_save" => r.rec.status = "draft"
       /\ r.step = "retire_save" => r.rec.status = "retired"

LEMMA OpSet ==
    ASSUME OpSound, NEW w \in Workers, NEW r, IsOp(r), op' = [op EXCEPT ![w] = r]
    PROVE  OpSound'
<1>1. op' \in [Workers -> VersionOps \cup ControlOps \cup {NoOp}]
  BY DEF OpSound, IsOp
<1>2. \A v \in Workers : op'[v] = IF v = w THEN r ELSE op[v]
  BY DEF OpSound
<1>3. ASSUME NEW v \in Workers, op'[v] # NoOp
      PROVE  /\ op'[v].step = "create_save" => op'[v].rec.status = "draft"
             /\ op'[v].step = "retire_save" => op'[v].rec.status = "retired"
  BY <1>2, <1>3 DEF OpSound, IsOp
<1> QED
  BY <1>1, <1>3 DEF OpSound

(* What a handler holds at a step of its own.                              *)
LEMMA AtVersion ==
    ASSUME OpSound, NEW w \in Workers,
           NEW s \in {"create_save", "activate_check", "activate_save", "retire_save"},
           At(w, s)
    PROVE  /\ op[w] \in VersionOps /\ op[w].step = s
           /\ op[w].of \in Versions /\ op[w].rec \in SoundVersions
           /\ s = "create_save" => op[w].rec.status = "draft"
           /\ s = "retire_save" => op[w].rec.status = "retired"
<1>1. op[w] \in VersionOps \cup ControlOps /\ op[w].step = s
  BY DEF OpSound, At
<1>2. op[w] \in VersionOps
  BY <1>1 DEF ControlOps
<1> QED
  BY <1>1, <1>2 DEF OpSound, At, VersionOps

LEMMA AtControl ==
    ASSUME OpSound, NEW w \in Workers,
           NEW s \in {"control_save", "import_version", "import_find", "import_control"},
           At(w, s)
    PROVE  /\ op[w] \in ControlOps /\ op[w].step = s
           /\ op[w].of \in Controls /\ op[w].rec \in ControlRecord
<1>1. op[w] \in VersionOps \cup ControlOps /\ op[w].step = s
  BY DEF OpSound, At
<1>2. op[w] \in ControlOps
  BY <1>1 DEF VersionOps
<1> QED
  BY <1>1, <1>2 DEF ControlOps

(* A step saves something good and leaves good copies, or it saves         *)
(* nothing; to the ledger it is a save, a step of one, or nothing at all.  *)
StepOf(w) ==
    \/ \E e \in Entities, p \in Payloads :
          GoodSave(e, p) /\ L!SaveProjection(w, e, p)
    \/ L!Record(w)
    \/ UNCHANGED ledgerVars

LEMMA SaveShape ==
    ASSUME OpSound, NEW w \in Workers, NEW e, NEW p, GoodSave(e, p), Save(w, e, p)
    PROVE  OpSound' /\ StepOf(w)
<1>1. e \in Entities /\ p \in Payloads
  BY DEF GoodSave, Entities, Payloads, SoundVersions
<1>2. OpSound'
  BY OpSet DEF Save, IsOp
<1> QED
  BY <1>1, <1>2 DEF Save, StepOf

LEMMA BeginShape ==
    ASSUME OpSound, NEW w \in Workers, NEW r, IsOp(r), Begin(w, r)
    PROVE  OpSound' /\ StepOf(w)
  BY OpSet DEF Begin, StepOf

LEMMA RefuseShape ==
    ASSUME OpSound, NEW w \in Workers, Refuse(w)
    PROVE  OpSound' /\ StepOf(w)
  BY OpSet DEF Refuse, StepOf, IsOp

LEMMA BeginsAreSound ==
    ASSUME Sound, NEW w \in Workers,
           \/ \E v \in Versions, a \in Actors :
                 CreateVersion(w, v, a) \/ ActivateVersion(w, v, a) \/ RetireVersion(w, v, a)
           \/ \E c \in Controls, a \in Actors :
                 CreateControl(w, c, a) \/ ImportCatalog(w, c, a)
    PROVE  OpSound' /\ StepOf(w)
<1>1. OpSound
  BY DEF Sound
<1>2. ASSUME NEW v \in Versions, NEW a \in Actors, CreateVersion(w, v, a)
      PROVE  OpSound' /\ StepOf(w)
  <2> DEFINE r == [step |-> "create_save", of |-> v, rec |-> NewVersion(a)]
  <2>1. IsOp(r)
    BY NewIsSound DEF IsOp, VersionOps
  <2> HIDE DEF r
  <2> QED
    BY <1>1, <1>2, <2>1, BeginShape DEF CreateVersion, r
<1>3. ASSUME NEW v \in Versions, NEW a \in Actors, ActivateVersion(w, v, a)
      PROVE  OpSound' /\ StepOf(w)
  <2> DEFINE new == Applied(projection[v], "active", a)
             r == [step |-> "activate_check", of |-> v, rec |-> new]
  <2>1. projection[v] \in SoundVersions /\ projection[v].status = "draft"
    BY <1>3 DEF Sound, RowsSound, ActivateVersion, CanTransition, Status
  <2>2. MayApprove(projection[v].created_by, a)
    BY <1>3 DEF ActivateVersion
  <2>3. new \in SoundVersions
    BY <2>1, <2>2, ActivatedIsSound
  <2> HIDE DEF new
  <2>4. IsOp(r)
    BY <2>3 DEF IsOp, VersionOps
  <2> HIDE DEF r
  <2> QED
    BY <1>1, <1>3, <2>4, BeginShape DEF ActivateVersion, r, new
<1>4. ASSUME NEW v \in Versions, NEW a \in Actors, RetireVersion(w, v, a)
      PROVE  OpSound' /\ StepOf(w)
  <2> DEFINE new == Applied(projection[v], "retired", a)
             r == [step |-> "retire_save", of |-> v, rec |-> new]
  <2>1. projection[v] \in SoundVersions /\ projection[v].status = "active"
    BY <1>4 DEF Sound, RowsSound, RetireVersion, CanTransition, Status
  <2>2. new \in SoundVersions /\ new.status = "retired"
    BY <2>1, RetiredIsSound
  <2> HIDE DEF new
  <2>3. IsOp(r)
    BY <2>2 DEF IsOp, VersionOps
  <2> HIDE DEF r
  <2> QED
    BY <1>1, <1>4, <2>3, BeginShape DEF RetireVersion, r, new
<1>5. ASSUME NEW c \in Controls, NEW a \in Actors, CreateControl(w, c, a)
      PROVE  OpSound' /\ StepOf(w)
  <2> DEFINE r == [step |-> "control_save", of |-> c, rec |-> [created_by |-> a]]
  <2>1. IsOp(r)
    BY DEF IsOp, ControlOps, ControlRecord
  <2> HIDE DEF r
  <2> QED
    BY <1>1, <1>5, <2>1, BeginShape DEF CreateControl, r
<1>6. ASSUME NEW c \in Controls, NEW a \in Actors, ImportCatalog(w, c, a)
      PROVE  OpSound' /\ StepOf(w)
  <2> DEFINE r == [step |-> IF Exists(VersionOf[c]) THEN "import_find"
                                                    ELSE "import_version",
                   of |-> c, rec |-> [created_by |-> a]]
  <2>1. IsOp(r)
    BY DEF IsOp, ControlOps, ControlRecord
  <2> HIDE DEF r
  <2> QED
    BY <1>1, <1>6, <2>1, BeginShape DEF ImportCatalog, r
<1> QED
  BY <1>2, <1>3, <1>4, <1>5, <1>6

LEMMA HandlersAreSound ==
    ASSUME Sound, NEW w \in Workers, Handle(w) \/ RecordEvent(w)
    PROVE  OpSound' /\ StepOf(w)
<1>1. OpSound
  BY DEF Sound
<1>2. CASE \/ \E v \in Versions, a \in Actors :
                 CreateVersion(w, v, a) \/ ActivateVersion(w, v, a) \/ RetireVersion(w, v, a)
           \/ \E c \in Controls, a \in Actors :
                 CreateControl(w, c, a) \/ ImportCatalog(w, c, a)
  BY <1>2, BeginsAreSound
<1>3. CASE SaveCreated(w)
  <2>1. GoodSave(op[w].of, op[w].rec)
    BY <1>1, <1>3, AtVersion DEF SaveCreated, GoodSave
  <2> QED
    BY <1>1, <1>3, <2>1, SaveShape DEF SaveCreated
<1>4. CASE CheckOthers(w)
  <2>1. CASE Refuse(w)
    BY <1>1, <2>1, RefuseShape
  <2>2. CASE Goto(w, "activate_save")
    <3> DEFINE r == [op[w] EXCEPT !.step = "activate_save"]
    <3>1. op[w] \in VersionOps
      BY <1>1, <1>4, AtVersion DEF CheckOthers
    <3>2. r \in VersionOps /\ r.step = "activate_save"
      BY <3>1 DEF VersionOps
    <3>3. op' = [op EXCEPT ![w] = r]
      BY <2>2 DEF Goto
    <3> HIDE DEF r
    <3>4. OpSound'
      BY <1>1, <3>2, <3>3, OpSet DEF IsOp
    <3> QED
      BY <2>2, <3>4 DEF Goto, StepOf
  <2> QED
    BY <1>4, <2>1, <2>2 DEF CheckOthers
<1>5. CASE SaveActivated(w)
  <2>1. CASE IndexAllows(op[w].of, op[w].rec)
    <3>1. GoodSave(op[w].of, op[w].rec)
      BY <1>1, <1>5, <2>1, AtVersion DEF SaveActivated, GoodSave
    <3> QED
      BY <1>1, <1>5, <2>1, <3>1, SaveShape DEF SaveActivated
  <2>2. CASE ~IndexAllows(op[w].of, op[w].rec)
    BY <1>1, <1>5, <2>2, RefuseShape DEF SaveActivated
  <2> QED
    BY <2>1, <2>2
<1>6. CASE SaveRetired(w)
  <2>1. GoodSave(op[w].of, op[w].rec)
    BY <1>1, <1>6, AtVersion DEF SaveRetired, GoodSave
  <2> QED
    BY <1>1, <1>6, <2>1, SaveShape DEF SaveRetired
<1>7. CASE SaveControl(w)
  <2>1. GoodSave(op[w].of, op[w].rec)
    BY <1>1, <1>7, AtControl DEF SaveControl, GoodSave
  <2> QED
    BY <1>1, <1>7, <2>1, SaveShape DEF SaveControl
<1>8. CASE ImportVersion(w)
  <2> DEFINE v == VersionOf[op[w].of]
             p == NewVersion(op[w].rec.created_by)
             r == [op[w] EXCEPT !.step = "import_find"]
  <2>1. /\ op[w] \in ControlOps
        /\ op[w].of \in Controls /\ op[w].rec \in ControlRecord
    BY <1>1, <1>8, AtControl DEF ImportVersion
  <2>2. v \in Versions
    BY <2>1, VersionOfAssumption
  <2>3. p \in SoundVersions /\ p.status = "draft"
    BY <2>1, NewIsSound DEF ControlRecord
  <2>4. r \in ControlOps /\ r.step = "import_find"
    BY <2>1 DEF ControlOps
  <2>5. op' = [op EXCEPT ![w] = r] /\ L!SaveProjection(w, v, p)
    BY <1>8 DEF ImportVersion
  <2> HIDE DEF v, p, r
  <2>6. OpSound'
    BY <1>1, <2>4, <2>5, OpSet DEF IsOp
  <2>7. GoodSave(v, p) /\ v \in Entities /\ p \in Payloads
    BY <2>2, <2>3 DEF GoodSave, Entities, Payloads, SoundVersions
  <2> QED
    BY <2>5, <2>6, <2>7 DEF StepOf
<1>9. CASE ImportFindControl(w)
  <2>1. CASE Refuse(w)
    BY <1>1, <2>1, RefuseShape
  <2>2. CASE Goto(w, "import_control")
    <3> DEFINE r == [op[w] EXCEPT !.step = "import_control"]
    <3>1. op[w] \in ControlOps
      BY <1>1, <1>9, AtControl DEF ImportFindControl
    <3>2. r \in ControlOps /\ r.step = "import_control"
      BY <3>1 DEF ControlOps
    <3>3. op' = [op EXCEPT ![w] = r]
      BY <2>2 DEF Goto
    <3> HIDE DEF r
    <3>4. OpSound'
      BY <1>1, <3>2, <3>3, OpSet DEF IsOp
    <3> QED
      BY <2>2, <3>4 DEF Goto, StepOf
  <2> QED
    BY <1>9, <2>1, <2>2 DEF ImportFindControl
<1>10. CASE ImportControl(w)
  <2>1. GoodSave(op[w].of, op[w].rec)
    BY <1>1, <1>10, AtControl DEF ImportControl, GoodSave
  <2> QED
    BY <1>1, <1>10, <2>1, SaveShape DEF ImportControl
<1>11. CASE RecordEvent(w)
  BY <1>1, <1>11 DEF RecordEvent, StepOf, OpSound
<1> QED
  BY <1>2, <1>3, <1>4, <1>5, <1>6, <1>7, <1>8, <1>9, <1>10, <1>11 DEF Handle

-----------------------------------------------------------------------------
(* The rows *)

LEMMA SaveWrites ==
    ASSUME RowsSound, NEW w, NEW e \in Entities, NEW p \in Payloads,
           L!SaveProjection(w, e, p)
    PROVE  /\ projection' \in [Entities -> Payloads \cup {NoRecord}]
           /\ projection'[e] = p
           /\ \A u \in Entities \ {e} : projection'[u] = projection[u]
  BY DEF RowsSound, L!SaveProjection, L!Upserted

LEMMA RowsNext ==
    ASSUME RowsSound, NEW w \in Workers, StepOf(w)
    PROVE  RowsSound'
<1>1. ASSUME NEW e \in Entities, NEW p \in Payloads,
             GoodSave(e, p), L!SaveProjection(w, e, p)
      PROVE  RowsSound'
  <2>1. /\ projection' \in [Entities -> Payloads \cup {NoRecord}]
        /\ projection'[e] = p
        /\ \A u \in Entities \ {e} : projection'[u] = projection[u]
    BY <1>1, SaveWrites
  <2>2. e \in Versions => e \notin Controls /\ p \in SoundVersions
    BY <1>1, KindsAssumption DEF GoodSave
  <2>3. e \in Controls => e \notin Versions /\ p \in ControlRecord
    BY <1>1, KindsAssumption DEF GoodSave
  <2>4. ASSUME NEW v \in Versions, projection'[v] # NoRecord
        PROVE  projection'[v] \in SoundVersions
    BY <2>1, <2>2, <2>4 DEF RowsSound, Exists, Entities
  <2>5. ASSUME NEW c \in Controls, projection'[c] # NoRecord
        PROVE  projection'[c] \in ControlRecord
    BY <2>1, <2>3, <2>5 DEF RowsSound, Exists, Entities
  <2> QED
    BY <2>1, <2>4, <2>5 DEF RowsSound, Exists
<1>2. CASE UNCHANGED projection
  BY <1>2 DEF RowsSound, Exists
<1>3. L!Record(w) \/ UNCHANGED ledgerVars => UNCHANGED projection
  BY DEF ledgerVars, L!Record, L!ReadHead, L!CountRevision, L!AppendEvent, L!FailEvent
<1> QED
  BY <1>1, <1>2, <1>3 DEF StepOf

LEMMA SoundInit == Init => Sound
<1> SUFFICES ASSUME Init PROVE Sound
  OBVIOUS
<1>1. projection = [e \in Entities |-> NoRecord]
  BY DEF Init, L!Init
<1>2. op = [w \in Workers |-> NoOp]
  BY DEF Init
<1>3. RowsSound
  BY <1>1 DEF RowsSound, Exists, Entities
<1>4. OpSound
  BY <1>2 DEF OpSound
<1> QED
  BY <1>3, <1>4 DEF Sound

LEMMA SoundNext == Sound /\ [Next]_vars => Sound'
<1> SUFFICES ASSUME Sound, [Next]_vars PROVE Sound'
  OBVIOUS
<1>1. ASSUME NEW w \in Workers, Handle(w) \/ RecordEvent(w)
      PROVE  Sound'
  BY <1>1, HandlersAreSound, RowsNext DEF Sound
<1>2. CASE UNCHANGED vars
  BY <1>2 DEF vars, Sound, RowsSound, Exists, OpSound
<1> QED
  BY <1>1, <1>2 DEF Next

(* The invariant the theorems below rest on.                               *)
LEMMA AlwaysSound == Spec => []Sound
  BY SoundInit, SoundNext, PTL DEF Spec

-----------------------------------------------------------------------------
(* Whatever copies are saved over each other, the lifecycle kept in a      *)
(* version is the way to its status: draft, active, retired, each at most  *)
(* once (apply_version_lifecycle, can_version_transition).                 *)
THEOREM LifecyclesArePaths == Spec => []LifecycleIsPath
<1>1. Sound => LifecycleIsPath
  BY DEF Sound, RowsSound, SoundVersions, LifecycleIsPath, Status
<1> QED
  BY <1>1, AlwaysSound, PTL

(* With separation of duties on, no interleaving publishes a version by    *)
(* the hand of its author (_require_not_self_approval).                    *)
THEOREM NobodyApprovesTheirOwn == Spec => []NoSelfApproval
<1>1. Sound => NoSelfApproval
  BY DEF Sound, RowsSound, SoundVersions, NoSelfApproval, Status
<1> QED
  BY <1>1, AlwaysSound, PTL

(* The partial unique index is all it takes for one active version per     *)
(* framework: no check of activate_version is needed for it.               *)
THEOREM IndexKeepsOneActive ==
    ASSUME UniqueIndex
    PROVE  Spec => []OneActive
<1>1. Init => OneActive
  BY DEF Init, L!Init, OneActive, Status, Exists, Entities
<1>2. Sound /\ OneActive /\ [Next]_vars => OneActive'
  <2> SUFFICES ASSUME Sound, OneActive, [Next]_vars PROVE OneActive'
    OBVIOUS
  <2>1. ASSUME NEW w \in Workers, StepOf(w) PROVE OneActive'
    <3>1. ASSUME NEW e \in Entities, NEW p \in Payloads,
                 GoodSave(e, p), L!SaveProjection(w, e, p)
          PROVE  OneActive'
      <4>1. /\ projection'[e] = p
            /\ \A u \in Entities \ {e} : projection'[u] = projection[u]
        BY <3>1, SaveWrites DEF Sound
      <4>2. \A u \in Versions \ {e} : Status(u)' = Status(u)
        BY <4>1 DEF Status, Exists, Entities
      <4>3. ASSUME e \in Versions, Status(e)' = "active"
            PROVE  \A u \in Versions \ {e} :
                      FrameworkOf[u] = FrameworkOf[e] => Status(u)' # "active"
        <5>1. p.status = "active"
          BY <4>1, <4>3 DEF Status, Exists
        <5>2. IndexAllows(e, p)
          BY <3>1, <4>3, <5>1, KindsAssumption DEF GoodSave
        <5> QED
          BY <4>2, <5>1, <5>2 DEF IndexAllows
      <4> QED
        BY <4>2, <4>3 DEF OneActive
    <3>2. L!Record(w) \/ UNCHANGED ledgerVars => UNCHANGED projection
      BY DEF ledgerVars, L!Record, L!ReadHead, L!CountRevision, L!AppendEvent, L!FailEvent
    <3>3. UNCHANGED projection => OneActive'
      BY DEF OneActive, Status, Exists
    <3> QED
      BY <2>1, <3>1, <3>2, <3>3 DEF StepOf
  <2>2. CASE UNCHANGED vars
    BY <2>2 DEF vars, OneActive, Status, Exists
  <2> QED
    BY <2>1, <2>2, HandlersAreSound DEF Next
<1> QED
  BY <1>1, <1>2, AlwaysSound, PTL DEF Spec

(* Every behaviour of the handlers is one of the ledger, so what is proved *)
(* of GovernanceLedger holds beneath them.                                 *)
THEOREM HandlersUseTheLedger == Spec => L!Spec
<1>1. Init => L!Init
  BY DEF Init
<1>2. Sound /\ [Next]_vars => [L!Next]_(L!vars)
  <2> SUFFICES ASSUME Sound, [Next]_vars PROVE [L!Next]_(L!vars)
    OBVIOUS
  <2>1. ASSUME NEW w \in Workers, StepOf(w) PROVE [L!Next]_(L!vars)
    BY <2>1 DEF StepOf, L!Next, L!vars, ledgerVars
  <2>2. CASE UNCHANGED vars
    BY <2>2 DEF vars, L!vars
  <2> QED
    BY <2>1, <2>2, HandlersAreSound DEF Next
<1> QED
  BY <1>1, <1>2, AlwaysSound, PTL DEF Spec, L!Spec

-----------------------------------------------------------------------------
(* Requests that do not cross: the copy a handler holds still agrees with  *)
(* the rows, because no other worker has written since it was made.        *)

Alone ==
    /\ pc = [w \in Workers |-> pc[w]]
    /\ ~crossed => \A u, v \in Workers : ~Idle(u) /\ ~Idle(v) => u = v

NoneActive(v) ==
    \A u \in Versions : FrameworkOf[u] = FrameworkOf[v] => Status(u) # "active"

Fits(o) ==
    /\ o.step = "create_save" => ~Exists(o.of)
    /\ o.step \in {"activate_check", "activate_save"} => Status(o.of) = "draft"
    /\ o.step = "activate_save" => NoneActive(o.of)
    /\ o.step = "retire_save" => Status(o.of) = "active"
    /\ o.step = "control_save" => IsMutable(VersionOf[o.of])
    /\ o.step = "import_version" => ~Exists(VersionOf[o.of])

Activates(o) == o.step \in {"activate_check", "activate_save"} => o.rec.status = "active"

Current ==
    \A w \in Workers : op[w] # NoOp =>
        Activates(op[w]) /\ (~crossed => Fits(op[w]))

(* What a step of a worker leaves alone.                                   *)
LEMMA OnlyItsOwn ==
    ASSUME OpSound, Alone, NEW w \in Workers, Handle(w) \/ RecordEvent(w)
    PROVE  /\ pc' = [v \in Workers |-> pc'[v]]
           /\ \A v \in Workers \ {w} : op'[v] = op[v] /\ pc'[v] = pc[v]
           /\ \/ ~Idle(w) /\ (~crossed' => ~crossed)
              \/ /\ Idle(w) /\ UNCHANGED projection
                 /\ ~crossed' => ~crossed /\ \A v \in Workers : Idle(v)
<1>1. DOMAIN op = Workers /\ DOMAIN pc = Workers
  BY DEF OpSound, Alone
<1>2. ASSUME NEW r, Idle(w), Begin(w, r)
      PROVE  /\ op' = [op EXCEPT ![w] = r] /\ pc' = pc
             /\ Idle(w) /\ UNCHANGED projection
             /\ ~crossed' => ~crossed /\ \A v \in Workers : Idle(v)
  <2>1. /\ op' = [op EXCEPT ![w] = r] /\ pc' = pc
        /\ Idle(w) /\ UNCHANGED projection
    BY <1>2 DEF Begin, ledgerVars
  <2>2. crossed' = (crossed \/ \E v \in Workers : ~Idle(v))
    BY <1>2 DEF Begin
  <2>3. ~crossed' => ~crossed /\ \A v \in Workers : Idle(v)
    BY <2>2, Zenon
  <2> QED
    BY <2>1, <2>3
<1>3. ASSUME \/ \E v \in Versions, a \in Actors :
                  CreateVersion(w, v, a) \/ ActivateVersion(w, v, a) \/ RetireVersion(w, v, a)
             \/ \E c \in Controls, a \in Actors :
                  CreateControl(w, c, a) \/ ImportCatalog(w, c, a)
      PROVE  \E r : Idle(w) /\ Begin(w, r)
  BY <1>3 DEF CreateVersion, ActivateVersion, RetireVersion, CreateControl, ImportCatalog
<1>4. ASSUME \/ SaveCreated(w) \/ CheckOthers(w) \/ SaveActivated(w) \/ SaveRetired(w)
             \/ SaveControl(w)
             \/ ImportVersion(w) \/ ImportFindControl(w) \/ ImportControl(w)
      PROVE  /\ \E r : op' = [op EXCEPT ![w] = r]
             /\ pc' = pc \/ \E s : pc' = [pc EXCEPT ![w] = s]
             /\ ~Idle(w) /\ crossed' = crossed
  <2>1. \A e, p : Save(w, e, p) =>
             /\ \E r : op' = [op EXCEPT ![w] = r]
             /\ \E s : pc' = [pc EXCEPT ![w] = s]
             /\ crossed' = crossed
    BY DEF Save, L!SaveProjection
  <2>2. \A s : Goto(w, s) =>
             /\ \E r : op' = [op EXCEPT ![w] = r]
             /\ pc' = pc /\ crossed' = crossed
    BY DEF Goto, ledgerVars
  <2>3. Refuse(w) =>
             /\ \E r : op' = [op EXCEPT ![w] = r]
             /\ pc' = pc /\ crossed' = crossed
    BY DEF Refuse, ledgerVars
  <2>4. \A s : At(w, s) => ~Idle(w)
    BY DEF At, Idle
  <2>5. CASE SaveCreated(w)
    BY <2>1, <2>4, <2>5 DEF SaveCreated
  <2>6. CASE CheckOthers(w)
    BY <2>2, <2>3, <2>4, <2>6 DEF CheckOthers
  <2>7. CASE SaveActivated(w)
    BY <2>1, <2>3, <2>4, <2>7 DEF SaveActivated
  <2>8. CASE SaveRetired(w)
    BY <2>1, <2>4, <2>8 DEF SaveRetired
  <2>9. CASE SaveControl(w)
    BY <2>1, <2>4, <2>9 DEF SaveControl
  <2>10. CASE ImportVersion(w)
    BY <2>4, <2>10 DEF ImportVersion, L!SaveProjection
  <2>11. CASE ImportFindControl(w)
    BY <2>2, <2>3, <2>4, <2>11 DEF ImportFindControl
  <2>12. CASE ImportControl(w)
    BY <2>1, <2>4, <2>12 DEF ImportControl
  <2> QED
    BY <1>4, <2>5, <2>6, <2>7, <2>8, <2>9, <2>10, <2>11, <2>12
<1>5. ASSUME RecordEvent(w)
      PROVE  /\ op' = op
             /\ \E s : pc' = [pc EXCEPT ![w] = s]
             /\ ~Idle(w) /\ crossed' = crossed
  BY <1>5 DEF RecordEvent, Idle, L!Record, L!ReadHead, L!CountRevision,
              L!AppendEvent, L!FailEvent, L!Return
<1>6. ASSUME op' = op \/ \E r : op' = [op EXCEPT ![w] = r],
             pc' = pc \/ \E s : pc' = [pc EXCEPT ![w] = s]
      PROVE  /\ pc' = [v \in Workers |-> pc'[v]]
             /\ \A v \in Workers \ {w} : op'[v] = op[v] /\ pc'[v] = pc[v]
  <2>1. \A v \in Workers \ {w} : op'[v] = op[v]
    BY <1>1, <1>6
  <2>2. pc' = [v \in Workers |-> pc'[v]] /\ \A v \in Workers \ {w} : pc'[v] = pc[v]
    <3>1. CASE pc' = pc
      BY <3>1 DEF Alone
    <3>2. ASSUME NEW s, pc' = [pc EXCEPT ![w] = s]
          PROVE  pc' = [v \in Workers |-> pc'[v]] /\ \A v \in Workers \ {w} : pc'[v] = pc[v]
      BY <1>1, <3>2
    <3> QED
      BY <1>6, <3>1, <3>2
  <2> QED
    BY <2>1, <2>2
<1> QED
  BY <1>2, <1>3, <1>4, <1>5, <1>6 DEF Handle

LEMMA AloneNext ==
    ASSUME OpSound, Alone, NEW w \in Workers, Handle(w) \/ RecordEvent(w)
    PROVE  /\ Alone'
           /\ ~crossed' => \A v \in Workers \ {w} : op'[v] = NoOp
<1>1. /\ pc' = [v \in Workers |-> pc'[v]]
      /\ \A v \in Workers \ {w} : op'[v] = op[v] /\ pc'[v] = pc[v]
      /\ \/ ~Idle(w) /\ (~crossed' => ~crossed)
         \/ ~crossed' => \A v \in Workers : Idle(v)
  BY OnlyItsOwn
<1>2. ~crossed' => \A v \in Workers \ {w} : Idle(v)
  BY <1>1 DEF Alone
<1>3. ~crossed' => \A v \in Workers \ {w} : Idle(v)'
  BY <1>1, <1>2 DEF Idle
<1> QED
  BY <1>1, <1>3 DEF Alone, Idle

-----------------------------------------------------------------------------
(* What a save of a version, or of a control, changes of the promise.      *)
LEMMA VersionMoves ==
    ASSUME RowsSound, NEW w, NEW v \in Versions, NEW p \in SoundVersions,
           L!SaveProjection(w, v, p)
    PROVE  /\ [u \in Versions |-> Status(u)]' =
                  [[u \in Versions |-> Status(u)] EXCEPT ![v] = p.status]
           /\ DefinedControls' = DefinedControls
<1>1. v \in Entities /\ p \in Payloads
  BY DEF Entities, Payloads, SoundVersions
<1>2. /\ projection'[v] = p
      /\ \A u \in Entities \ {v} : projection'[u] = projection[u]
  BY <1>1, SaveWrites
<1>3. p # NoRecord
  BY <1>1, NoRecordAssumption
<1>4. \A u \in Versions : Status(u)' = IF u = v THEN p.status ELSE Status(u)
  BY <1>2, <1>3 DEF Status, Exists, Entities
<1>5. \A c \in Controls : Exists(c)' = Exists(c)
  BY <1>2, KindsAssumption DEF Exists, Entities
<1> QED
  BY <1>4, <1>5 DEF DefinedControls

LEMMA ControlAppears ==
    ASSUME RowsSound, NEW w, NEW c \in Controls, NEW p \in ControlRecord,
           L!SaveProjection(w, c, p)
    PROVE  /\ [u \in Versions |-> Status(u)]' = [u \in Versions |-> Status(u)]
           /\ DefinedControls' = DefinedControls \cup {c}
<1>1. c \in Entities /\ p \in Payloads
  BY DEF Entities, Payloads
<1>2. /\ projection'[c] = p
      /\ \A u \in Entities \ {c} : projection'[u] = projection[u]
  BY <1>1, SaveWrites
<1>3. p # NoRecord
  BY <1>1, NoRecordAssumption
<1>4. \A u \in Versions : Status(u)' = Status(u)
  BY <1>2, KindsAssumption DEF Status, Exists, Entities
<1>5. \A d \in Controls : Exists(d)' <=> Exists(d) \/ d = c
  BY <1>2, <1>3 DEF Exists, Entities
<1> QED
  BY <1>4, <1>5 DEF DefinedControls
-----------------------------------------------------------------------------
(* Each step, taken by a handler that works alone, is one the promise      *)
(* allows, and leaves a copy that fits the rows.                           *)

Allowed(w) == crossed' \/ Promise!Next \/ UNCHANGED projection \/ ImportControl(w)

FitsNext(w) == op'[w] # NoOp => Activates(op'[w]) /\ (~crossed' => Fits(op[w])')

(* A version that has a status is stored.                                  *)
LEMMA RowIsVersion ==
    ASSUME RowsSound, NEW v \in Versions, Status(v) # "none"
    PROVE  projection[v] \in SoundVersions
  BY DEF RowsSound, Status

(* A handler that begins has just looked at the rows.                      *)
LEMMA BeginFits ==
    ASSUME Sound, NEW w \in Workers,
           \/ \E v \in Versions, a \in Actors :
                 CreateVersion(w, v, a) \/ ActivateVersion(w, v, a) \/ RetireVersion(w, v, a)
           \/ \E c \in Controls, a \in Actors :
                 CreateControl(w, c, a) \/ ImportCatalog(w, c, a)
    PROVE  FitsNext(w) /\ UNCHANGED projection
<1>1. ASSUME NEW r, Begin(w, r)
      PROVE  op'[w] = r /\ projection' = projection
  BY <1>1 DEF Begin, ledgerVars, Sound, OpSound
<1>2. projection' = projection =>
         (Activates(op'[w]) /\ Fits(op'[w]) => FitsNext(w))
  BY DEF FitsNext, Activates, Fits, Status, Exists, IsMutable, NoneActive
<1>3. ASSUME NEW v \in Versions, NEW a \in Actors, CreateVersion(w, v, a)
      PROVE  FitsNext(w) /\ UNCHANGED projection
  <2> DEFINE r == [step |-> "create_save", of |-> v, rec |-> NewVersion(a)]
  <2>1. Begin(w, r) /\ ~Exists(v)
    BY <1>3 DEF CreateVersion
  <2>2. Activates(r) /\ Fits(r)
    BY <2>1 DEF Activates, Fits
  <2> HIDE DEF r
  <2> QED
    BY <1>1, <1>2, <2>1, <2>2
<1>4. ASSUME NEW v \in Versions, NEW a \in Actors, ActivateVersion(w, v, a)
      PROVE  FitsNext(w) /\ UNCHANGED projection
  <2> DEFINE new == Applied(projection[v], "active", a)
             r == [step |-> "activate_check", of |-> v, rec |-> new]
  <2>1. Begin(w, r) /\ Status(v) = "draft"
    BY <1>4 DEF ActivateVersion, CanTransition
  <2>2. new.status = "active"
    BY <2>1, RowIsVersion DEF Applied, VersionRecord, SoundVersions, Sound
  <2> HIDE DEF new
  <2>3. Activates(r) /\ Fits(r)
    BY <2>1, <2>2 DEF Activates, Fits
  <2> HIDE DEF r
  <2> QED
    BY <1>1, <1>2, <2>1, <2>3
<1>5. ASSUME NEW v \in Versions, NEW a \in Actors, RetireVersion(w, v, a)
      PROVE  FitsNext(w) /\ UNCHANGED projection
  <2> DEFINE r == [step |-> "retire_save", of |-> v,
                   rec |-> Applied(projection[v], "retired", a)]
  <2>1. Begin(w, r) /\ Status(v) = "active"
    BY <1>5 DEF RetireVersion, CanTransition
  <2>2. Activates(r) /\ Fits(r)
    BY <2>1 DEF Activates, Fits
  <2> HIDE DEF r
  <2> QED
    BY <1>1, <1>2, <2>1, <2>2
<1>6. ASSUME NEW c \in Controls, NEW a \in Actors, CreateControl(w, c, a)
      PROVE  FitsNext(w) /\ UNCHANGED projection
  <2> DEFINE r == [step |-> "control_save", of |-> c, rec |-> [created_by |-> a]]
  <2>1. Begin(w, r) /\ IsMutable(VersionOf[c])
    BY <1>6 DEF CreateControl
  <2>2. Activates(r) /\ Fits(r)
    BY <2>1 DEF Activates, Fits
  <2> HIDE DEF r
  <2> QED
    BY <1>1, <1>2, <2>1, <2>2
<1>7. ASSUME NEW c \in Controls, NEW a \in Actors, ImportCatalog(w, c, a)
      PROVE  FitsNext(w) /\ UNCHANGED projection
  <2> DEFINE r == [step |-> IF Exists(VersionOf[c]) THEN "import_find"
                                                    ELSE "import_version",
                   of |-> c, rec |-> [created_by |-> a]]
  <2>1. Begin(w, r)
    BY <1>7 DEF ImportCatalog
  <2>2. Activates(r) /\ Fits(r)
    BY DEF Activates, Fits
  <2> HIDE DEF r
  <2> QED
    BY <1>1, <1>2, <2>1, <2>2
<1> QED
  BY <1>3, <1>4, <1>5, <1>6, <1>7

(* A save of a version that has the status the promise starts from.        *)
LEMMA PromisedMove ==
    ASSUME RowsSound, NEW w, NEW v \in Versions, NEW p \in SoundVersions,
           L!SaveProjection(w, v, p),
           \/ Status(v) = "none" /\ p.status = "draft"
           \/ Status(v) = "draft" /\ p.status = "active" /\ NoneActive(v)
           \/ Status(v) = "active" /\ p.status = "retired"
    PROVE  Promise!Next
<1> DEFINE status == [u \in Versions |-> Status(u)]
<1>1. /\ status' = [status EXCEPT ![v] = p.status]
      /\ UNCHANGED DefinedControls
  BY VersionMoves
<1>2. status[v] = Status(v)
  OBVIOUS
<1>3. NoneActive(v) =>
         \A u \in Versions : FrameworkOf[u] = FrameworkOf[v] => status[u] # "active"
  BY DEF NoneActive
<1>4. CASE Status(v) = "none" /\ p.status = "draft"
  <2>1. Promise!Draft(v)
    BY <1>1, <1>2, <1>4 DEF Promise!Draft, Promise!Move
  <2> QED
    BY <2>1 DEF Promise!Next
<1>5. CASE Status(v) = "draft" /\ p.status = "active" /\ NoneActive(v)
  <2>1. Promise!Activate(v)
    BY <1>1, <1>2, <1>3, <1>5 DEF Promise!Activate, Promise!Move
  <2> QED
    BY <2>1 DEF Promise!Next
<1>6. CASE Status(v) = "active" /\ p.status = "retired"
  <2>1. Promise!Retire(v)
    BY <1>1, <1>2, <1>6 DEF Promise!Retire, Promise!Move
  <2> QED
    BY <2>1 DEF Promise!Next
<1> QED
  BY <1>4, <1>5, <1>6

LEMMA HandlersAreAllowed ==
    ASSUME Sound, Current, NEW w \in Workers, Handle(w) \/ RecordEvent(w),
           ~crossed' => ~crossed
    PROVE  FitsNext(w) /\ Allowed(w)
<1>1. OpSound /\ RowsSound
  BY DEF Sound
<1>2. ASSUME NEW s, At(w, s)
      PROVE  op[w].step = s /\ Activates(op[w]) /\ (~crossed => Fits(op[w]))
  BY <1>2 DEF At, Current
<1>3. ASSUME op'[w] = NoOp PROVE FitsNext(w)
  BY <1>3 DEF FitsNext
<1>4. ASSUME NEW e, NEW p, Save(w, e, p)
      PROVE  op'[w] = NoOp /\ L!SaveProjection(w, e, p)
  BY <1>1, <1>4 DEF Save, OpSound
<1>5. ASSUME Refuse(w) PROVE op'[w] = NoOp /\ UNCHANGED projection
  BY <1>1, <1>5 DEF Refuse, OpSound, ledgerVars
<1>6. CASE \/ \E v \in Versions, a \in Actors :
                 CreateVersion(w, v, a) \/ ActivateVersion(w, v, a) \/ RetireVersion(w, v, a)
           \/ \E c \in Controls, a \in Actors :
                 CreateControl(w, c, a) \/ ImportCatalog(w, c, a)
  BY <1>6, BeginFits DEF Allowed
<1>7. CASE SaveCreated(w)
  <2>1. /\ op[w].of \in Versions /\ op[w].rec \in SoundVersions
        /\ op[w].rec.status = "draft" /\ (~crossed => ~Exists(op[w].of))
    BY <1>1, <1>2, <1>7, AtVersion DEF SaveCreated, Fits
  <2>2. op'[w] = NoOp /\ L!SaveProjection(w, op[w].of, op[w].rec)
    BY <1>4, <1>7 DEF SaveCreated
  <2>3. ~crossed => Promise!Next
    BY <1>1, <2>1, <2>2, PromisedMove DEF Status
  <2> QED
    BY <1>3, <2>2, <2>3 DEF Allowed
<1>8. CASE CheckOthers(w)
  <2>1. CASE Refuse(w)
    BY <1>3, <1>5, <2>1 DEF Allowed
  <2>2. CASE Goto(w, "activate_save") /\ ~Refuse(w)
    <3> DEFINE v == op[w].of
    <3>1. /\ op[w] \in VersionOps /\ v \in Versions
          /\ Activates(op[w]) /\ (~crossed => Status(v) = "draft")
          /\ op[w].step = "activate_check"
      BY <1>1, <1>2, <1>8, AtVersion DEF CheckOthers, Fits
    <3>2. \A u \in Versions \ {v} : FrameworkOf[u] = FrameworkOf[v] => Status(u) # "active"
      BY <1>8, <2>2 DEF CheckOthers
    <3>3. ~crossed => NoneActive(v)
      BY <3>1, <3>2 DEF NoneActive
    <3>4. projection' = projection /\ op'[w] = [op[w] EXCEPT !.step = "activate_save"]
      BY <1>1, <2>2 DEF Goto, ledgerVars, OpSound
    <3>5. op'[w].step = "activate_save" /\ op'[w].of = v /\ op'[w].rec = op[w].rec
      BY <3>1, <3>4 DEF VersionOps
    <3>6. op[w].rec.status = "active"
      BY <3>1 DEF Activates
    <3>7. ~crossed => Fits(op[w])'
      BY <3>1, <3>3, <3>4, <3>5 DEF Fits, NoneActive, Status, Exists
    <3> QED
      BY <3>4, <3>5, <3>6, <3>7 DEF FitsNext, Activates, Allowed
  <2> QED
    BY <1>8, <2>1, <2>2 DEF CheckOthers
<1>9. CASE SaveActivated(w)
  <2>1. CASE Refuse(w)
    BY <1>3, <1>5, <2>1 DEF Allowed
  <2>2. CASE Save(w, op[w].of, op[w].rec)
    <3>1. /\ op[w].of \in Versions /\ op[w].rec \in SoundVersions
          /\ op[w].rec.status = "active"
          /\ ~crossed => Status(op[w].of) = "draft" /\ NoneActive(op[w].of)
      BY <1>1, <1>2, <1>9, AtVersion DEF SaveActivated, Fits, Activates
    <3>2. op'[w] = NoOp /\ L!SaveProjection(w, op[w].of, op[w].rec)
      BY <1>4, <2>2
    <3>3. ~crossed => Promise!Next
      BY <1>1, <3>1, <3>2, PromisedMove
    <3> QED
      BY <1>3, <3>2, <3>3 DEF Allowed
  <2> QED
    BY <1>9, <2>1, <2>2 DEF SaveActivated
<1>10. CASE SaveRetired(w)
  <2>1. /\ op[w].of \in Versions /\ op[w].rec \in SoundVersions
        /\ op[w].rec.status = "retired" /\ (~crossed => Status(op[w].of) = "active")
    BY <1>1, <1>2, <1>10, AtVersion DEF SaveRetired, Fits
  <2>2. op'[w] = NoOp /\ L!SaveProjection(w, op[w].of, op[w].rec)
    BY <1>4, <1>10 DEF SaveRetired
  <2>3. ~crossed => Promise!Next
    BY <1>1, <2>1, <2>2, PromisedMove
  <2> QED
    BY <1>3, <2>2, <2>3 DEF Allowed
<1>11. CASE SaveControl(w)
  <2> DEFINE c == op[w].of
  <2>1. /\ c \in Controls /\ op[w].rec \in ControlRecord
        /\ ~crossed => Status(VersionOf[c]) = "draft"
    BY <1>1, <1>2, <1>11, AtControl DEF SaveControl, Fits, IsMutable
  <2>2. op'[w] = NoOp /\ L!SaveProjection(w, c, op[w].rec)
    BY <1>4, <1>11 DEF SaveControl
  <2>3. /\ [u \in Versions |-> Status(u)]' = [u \in Versions |-> Status(u)]
        /\ DefinedControls' = DefinedControls \cup {c}
    BY <1>1, <2>1, <2>2, ControlAppears
  <2>4. VersionOf[c] \in Versions
    BY <2>1, VersionOfAssumption
  <2>5. ~crossed => Promise!Define(c)
    BY <2>1, <2>3, <2>4 DEF Promise!Define
  <2> QED
    BY <1>3, <2>1, <2>2, <2>5 DEF Allowed, Promise!Next
<1>12. CASE ImportVersion(w)
  <2> DEFINE v == VersionOf[op[w].of]
             p == NewVersion(op[w].rec.created_by)
  <2>1. /\ op[w] \in ControlOps
        /\ op[w].of \in Controls /\ op[w].rec \in ControlRecord
        /\ ~crossed => ~Exists(v)
    BY <1>1, <1>2, <1>12, AtControl DEF ImportVersion, Fits
  <2>2. v \in Versions
    BY <2>1, VersionOfAssumption
  <2>3. p \in SoundVersions /\ p.status = "draft"
    BY <2>1, NewIsSound DEF ControlRecord
  <2>4. /\ L!SaveProjection(w, v, p)
        /\ op'[w] = [op[w] EXCEPT !.step = "import_find"]
    BY <1>1, <1>12 DEF ImportVersion, OpSound
  <2> HIDE DEF v, p
  <2>5. ~crossed => Promise!Next
    BY <1>1, <2>1, <2>2, <2>3, <2>4, PromisedMove DEF Status
  <2>6. op'[w].step = "import_find"
    BY <2>1, <2>4 DEF ControlOps
  <2>7. FitsNext(w)
    BY <2>6 DEF FitsNext, Activates, Fits
  <2> QED
    BY <2>5, <2>7 DEF Allowed
<1>13. CASE ImportFindControl(w)
  <2>1. CASE Refuse(w)
    BY <1>3, <1>5, <2>1 DEF Allowed
  <2>2. CASE Goto(w, "import_control")
    <3>1. op[w] \in ControlOps
      BY <1>1, <1>13, AtControl DEF ImportFindControl
    <3>2. projection' = projection /\ op'[w] = [op[w] EXCEPT !.step = "import_control"]
      BY <1>1, <2>2 DEF Goto, ledgerVars, OpSound
    <3>3. op'[w].step = "import_control"
      BY <3>1, <3>2 DEF ControlOps
    <3> QED
      BY <3>2, <3>3 DEF FitsNext, Activates, Fits, Allowed
  <2> QED
    BY <1>13, <2>1, <2>2 DEF ImportFindControl
<1>14. CASE ImportControl(w)
  BY <1>3, <1>4, <1>14 DEF ImportControl, Allowed
<1>15. CASE RecordEvent(w)
  <2>1. projection' = projection /\ op' = op
    BY <1>15 DEF RecordEvent, L!Record, L!ReadHead, L!CountRevision, L!AppendEvent, L!FailEvent
  <2>2. op[w] # NoOp => Activates(op[w]) /\ (~crossed => Fits(op[w]))
    BY DEF Current
  <2>3. ~crossed => ~crossed'
    BY <1>15, Zenon DEF RecordEvent
  <2> QED
    BY <2>1, <2>2, <2>3 DEF FitsNext, Allowed, Activates, Fits, Status, Exists, IsMutable, NoneActive
<1> QED
  BY <1>6, <1>7, <1>8, <1>9, <1>10, <1>11, <1>12, <1>13, <1>14, <1>15 DEF Handle

LEMMA CurrentInit == Init => Alone /\ Current
  BY DEF Init, L!Init, Alone, Current, Idle

LEMMA CurrentStep ==
    ASSUME Sound, Alone, Current, NEW w \in Workers, Handle(w) \/ RecordEvent(w)
    PROVE  Alone' /\ Current' /\ Allowed(w)
<1>1. /\ Alone'
      /\ ~crossed' => \A v \in Workers \ {w} : op'[v] = NoOp
      /\ \A v \in Workers \ {w} : op'[v] = op[v]
      /\ ~crossed' => ~crossed
  BY AloneNext, OnlyItsOwn DEF Sound
<1>2. FitsNext(w) /\ Allowed(w)
  BY <1>1, HandlersAreAllowed
<1>3. ASSUME NEW v \in Workers, op'[v] # NoOp
      PROVE  Activates(op'[v]) /\ (~crossed' => Fits(op[v])')
  <2>1. CASE v = w
    BY <1>2, <1>3, <2>1 DEF FitsNext
  <2>2. CASE v # w
    BY <1>1, <1>3, <2>2 DEF Current
  <2> QED
    BY <2>1, <2>2
<1>4. Current'
  BY <1>3 DEF Current, Activates
<1> QED
  BY <1>1, <1>2, <1>4

(* Requests that do not cross move versions and controls as the docs say,  *)
(* for any versions, controls and number of requests, whatever events are  *)
(* lost, with the import of a control as the one exception.                *)
THEOREM LifecycleIsImplemented == Spec => ImplementsLifecycle
<1>1. Init => Alone /\ Current
  BY CurrentInit
<1>2. Init => Promise!Init
  BY DEF Init, L!Init, Promise!Init, Status, Exists, DefinedControls, Entities
<1>3. Sound /\ Alone /\ Current /\ [Next]_vars => Alone' /\ Current'
  <2> SUFFICES ASSUME Sound, Alone, Current, [Next]_vars PROVE Alone' /\ Current'
    OBVIOUS
  <2>1. CASE UNCHANGED vars
    BY <2>1 DEF vars, Alone, Current, Idle, Activates, Fits, Status, Exists, IsMutable, NoneActive
  <2> QED
    BY <2>1, CurrentStep DEF Next
<1>4. Sound /\ Alone /\ Current /\ [Next]_vars =>
         [\/ crossed'
          \/ Promise!Next
          \/ UNCHANGED projection
          \/ \E w \in Workers : ImportControl(w)]_vars
  BY CurrentStep DEF Next, Allowed
<1> QED
  BY <1>1, <1>2, <1>3, <1>4, AlwaysSound, PTL DEF Spec, ImplementsLifecycle

=============================================================================
