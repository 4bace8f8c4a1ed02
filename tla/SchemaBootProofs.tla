------------------------- MODULE SchemaBootProofs --------------------------
(***************************************************************************)
(* Proofs about SchemaBoot, for any processes, files, kinds and records,   *)
(* and any number of failures, crashes, edits and releases.                *)
(***************************************************************************)
EXTENDS SchemaBoot, FiniteSetTheorems, SequenceTheorems, TLAPS

-----------------------------------------------------------------------------
(* What a process has in hand.                                             *)
HandType ==
    [step : {"down", "gate", "apply", "record", "kind", "save", "delete", "up"},
     files : [Names -> Nat], i : Nat, failed : SUBSET {Files[n] : n \in Nat},
     k : Nat, rows : Seq(Records \X Nat)]

(* A process that saves or deletes has the row it does it for.             *)
Hands == {h \in HandType : h.step \in {"save", "delete"} => h.rows # <<>>}

TypeOK ==
    /\ release \in [Names -> Nat]
    /\ legacy \in [Records -> Nat \cup {None}]
    /\ normal \in [Records -> Nat \cup {None}]
    /\ faults \in [failures : Nat, crashes : Nat, edits : Nat, releases : Nat]
    /\ proc \in [Procs -> Hands]

(* What is about to be deleted from the generic table is in its own.       *)
DeletedIsMoved ==
    \A p \in Procs : At(p, "delete") => normal[Head(proc[p].rows)[1]] # None

Sound == TypeOK /\ NoRecordLost /\ DeletedIsMoved

-----------------------------------------------------------------------------
(* The helpers of the boot give a hand, and none that deletes. *)

LEMMA HeadTail ==
    ASSUME NEW rows \in Seq(Records \X Nat), rows # <<>>
    PROVE  /\ Head(rows) \in Records \X Nat
           /\ Tail(rows) \in Seq(Records \X Nat)
BY HeadTailProperties

LEMMA DownIsHand ==
    ASSUME TypeOK
    PROVE  /\ Down \in Hands /\ Down.step = "down"
           /\ [Down EXCEPT !.step = "gate"] \in Hands
           /\ [Down EXCEPT !.step = "gate"].step = "gate"
<1>1. Down \in HandType
  BY DEF TypeOK, Down, HandType
<1> QED
  BY <1>1 DEF Down, Hands, HandType

LEMMA CounterIsHand ==
    ASSUME NEW h \in HandType, NEW n \in Nat
    PROVE  /\ [h EXCEPT !.step = "kind", !.k = n] \in Hands
           /\ [h EXCEPT !.step = "kind", !.k = n].step = "kind"
           /\ [h EXCEPT !.step = "apply", !.i = n] \in Hands
           /\ [h EXCEPT !.step = "apply", !.i = n].step = "apply"
BY DEF Hands, HandType

LEMMA NextKindIsHand ==
    ASSUME NEW h \in HandType
    PROVE  NextKind(h) \in Hands /\ NextKind(h).step # "delete"
<1>1. h.k \in Nat
  BY DEF HandType
<1> DEFINE n == h.k + 1
<1>2. n \in Nat
  BY <1>1
<1>3. NextKind(h) = IF h.k = Len(Kinds) THEN [h EXCEPT !.step = "up"]
                    ELSE [h EXCEPT !.step = "kind", !.k = n]
  BY DEF NextKind
<1> HIDE DEF n
<1>4. [h EXCEPT !.step = "up"] \in Hands /\ [h EXCEPT !.step = "up"].step = "up"
  BY DEF Hands, HandType
<1> QED
  BY <1>2, <1>3, <1>4, CounterIsHand

LEMMA NextRowIsHand ==
    ASSUME NEW h \in HandType
    PROVE  NextRow(h) \in Hands /\ NextRow(h).step # "delete"
<1>1. CASE h.rows = <<>>
  BY <1>1, NextKindIsHand DEF NextRow
<1>2. CASE h.rows # <<>>
  BY <1>2 DEF NextRow, Hands, HandType
<1> QED
  BY <1>1, <1>2

LEMMA FilesDoneIsHand ==
    ASSUME TypeOK, NEW h \in HandType
    PROVE  FilesDone(h) \in Hands /\ FilesDone(h).step # "delete"
<1>1. [h EXCEPT !.step = "kind"] \in Hands /\ [h EXCEPT !.step = "kind"].step = "kind"
  BY DEF Hands, HandType
<1> QED
  BY <1>1, DownIsHand DEF FilesDone

(* The rest of the rows, after the first.                                  *)
LEMMA RestIsHand ==
    ASSUME NEW h \in HandType, h.rows # <<>>
    PROVE  [h EXCEPT !.rows = Tail(@)] \in HandType
<1>1. Tail(h.rows) \in Seq(Records \X Nat)
  BY HeadTail DEF HandType
<1> QED
  BY <1>1 DEF HandType

-----------------------------------------------------------------------------
(* A step of one process that takes no record away from where it is alone. *)
LEMMA StepKeepsRecords ==
    ASSUME Sound, NEW p \in Procs, NEW h \in Hands,
           proc' = [proc EXCEPT ![p] = h],
           release' = release,
           faults' \in [failures : Nat, crashes : Nat, edits : Nat, releases : Nat],
           legacy' \in [Records -> Nat \cup {None}],
           normal' \in [Records -> Nat \cup {None}],
           \A r \in Records : normal[r] # None => normal'[r] # None,
           \A r \in Records : legacy'[r] = None => legacy[r] = None \/ normal'[r] # None,
           h.step = "delete" => normal'[Head(h.rows)[1]] # None
    PROVE  Sound'
<1>1. TypeOK'
  BY DEF Sound, TypeOK
<1>2. NoRecordLost'
  BY DEF Sound, NoRecordLost
<1>3. DeletedIsMoved'
  <2> SUFFICES ASSUME NEW q \in Procs, At(q, "delete")'
               PROVE  normal'[Head(proc'[q].rows)[1]] # None
    BY DEF DeletedIsMoved
  <2>1. proc'[q] = IF q = p THEN h ELSE proc[q]
    BY DEF Sound, TypeOK
  <2>2. CASE q = p
    BY <2>1, <2>2 DEF At
  <2>3. CASE q # p
    <3>1. At(q, "delete") /\ normal[Head(proc[q].rows)[1]] # None
      BY <2>1, <2>3 DEF At, Sound, DeletedIsMoved
    <3>2. proc[q].rows \in Seq(Records \X Nat) /\ proc[q].rows # <<>>
      BY <3>1 DEF Sound, TypeOK, Hands, HandType, At
    <3>3. Head(proc[q].rows)[1] \in Records
      BY <3>2, HeadTail
    <3> QED
      BY <2>1, <2>3, <3>1, <3>3
  <2> QED
    BY <2>2, <2>3
<1> QED
  BY <1>1, <1>2, <1>3 DEF Sound

(* The same when both tables stay as they are.                             *)
LEMMA StepOfProcess ==
    ASSUME Sound, NEW p \in Procs, NEW h \in Hands, h.step # "delete",
           proc' = [proc EXCEPT ![p] = h],
           faults' \in [failures : Nat, crashes : Nat, edits : Nat, releases : Nat],
           UNCHANGED <<release, legacy, normal>>
    PROVE  Sound'
BY StepKeepsRecords DEF Sound, TypeOK

LEMMA AttemptIsCounted ==
    ASSUME TypeOK, NEW ok \in BOOLEAN, Attempt(ok)
    PROVE  faults' \in [failures : Nat, crashes : Nat, edits : Nat, releases : Nat]
BY DEF TypeOK, Attempt

-----------------------------------------------------------------------------
LEMMA BootStep ==
    ASSUME Sound, NEW p \in Procs, Boot(p)
    PROVE  Sound'
BY DownIsHand, StepOfProcess DEF Sound, TypeOK, Boot

LEMMA GateStep ==
    ASSUME Sound, NEW p \in Procs, NEW ok \in BOOLEAN, Gate(p, ok)
    PROVE  Sound'
<1> DEFINE h == IF failFast /\ (~ok \/ Drift(proc[p].files) # {}) THEN Down
                ELSE [proc[p] EXCEPT !.step = "apply"]
<1>1. [proc[p] EXCEPT !.step = "apply"] \in Hands /\ [proc[p] EXCEPT !.step = "apply"].step = "apply"
  BY DEF Sound, TypeOK, Hands, HandType
<1>2. h \in Hands /\ h.step # "delete"
  BY <1>1, DownIsHand DEF Sound
<1>3. proc' = [proc EXCEPT ![p] = h] /\ UNCHANGED <<release, legacy, normal>>
  BY DEF Gate
<1> HIDE DEF h
<1> QED
  BY <1>2, <1>3, AttemptIsCounted, StepOfProcess DEF Gate, Sound

LEMMA ApplyStep ==
    ASSUME Sound, NEW p \in Procs, NEW ok \in BOOLEAN, ApplyFile(p, ok)
    PROVE  Sound'
<1> DEFINE set == IF ok THEN proc[p].failed ELSE proc[p].failed \cup {File(p)}
           h == [proc[p] EXCEPT !.step = "record", !.failed = set]
<1>1. proc[p] \in HandType /\ proc[p].i \in Nat
  BY DEF Sound, TypeOK, Hands, HandType
<1>2. set \in SUBSET {Files[n] : n \in Nat}
  BY <1>1 DEF HandType, File
<1>3. proc' = [proc EXCEPT ![p] = h] /\ UNCHANGED <<release, legacy, normal>>
  BY DEF ApplyFile
<1> HIDE DEF set
<1>4. h \in Hands /\ h.step # "delete"
  BY <1>1, <1>2 DEF Hands, HandType
<1> HIDE DEF h
<1> QED
  BY <1>3, <1>4, AttemptIsCounted, StepOfProcess DEF ApplyFile, Sound

LEMMA RecordStep ==
    ASSUME Sound, NEW p \in Procs, NEW ok \in BOOLEAN, Record(p, ok)
    PROVE  Sound'
<1> DEFINE h == IF proc[p].i = Len(Files) THEN FilesDone(proc[p])
                ELSE [proc[p] EXCEPT !.step = "apply", !.i = @ + 1]
<1>1. proc[p] \in HandType
  BY DEF Sound, TypeOK, Hands
<1>2. /\ [proc[p] EXCEPT !.step = "apply", !.i = @ + 1] \in Hands
      /\ [proc[p] EXCEPT !.step = "apply", !.i = @ + 1].step = "apply"
  <2>1. proc[p].i + 1 \in Nat
    BY <1>1 DEF HandType
  <2> QED
    BY <1>1, <2>1, CounterIsHand
<1>3. h \in Hands /\ h.step # "delete"
  BY <1>1, <1>2, FilesDoneIsHand DEF Sound
<1>4. proc' = [proc EXCEPT ![p] = h] /\ UNCHANGED <<release, legacy, normal>>
  BY DEF Record
<1> HIDE DEF h
<1> QED
  BY <1>3, <1>4, AttemptIsCounted, StepOfProcess DEF Record, Sound

(* The rows read have a version: they are in the generic table.            *)
LEMMA ReadStep ==
    ASSUME Sound, NEW p \in Procs, NEW ok \in BOOLEAN, ReadKind(p, ok)
    PROVE  Sound'
<1> DEFINE kind == BackfillKind(proc[p].k)
           rows == {r \in Held : KindOf[r] = kind /\ TableOf[kind] \in tables}
           n == Cardinality(rows)
<1>1. proc[p] \in HandType
  BY DEF Sound, TypeOK, Hands
<1>2. IsFiniteSet(rows) /\ rows \subseteq Held /\ Held \subseteq Records
  <2>1. Held \subseteq Records /\ rows \subseteq Held
    BY DEF Held
  <2> QED
    BY <2>1, RecordsAssumption, FS_Subset
<1>3. n \in Nat
  BY <1>2, FS_CardinalityType
<1>4. \A r \in Held : legacy[r] \in Nat
  BY DEF Held, Sound, TypeOK
<1>5. PICK order \in [1..n -> rows] :
         proc' = [proc EXCEPT ![p] =
            IF Ended(p, ok) THEN [proc[p] EXCEPT !.step = "up"]
            ELSE NextRow([proc[p] EXCEPT !.rows =
                             [i \in 1..n |-> <<order[i], legacy[order[i]]>>]])]
  BY DEF ReadKind
<1>6. UNCHANGED <<release, legacy, normal>>
  BY DEF ReadKind
<1> HIDE DEF n, rows
<1> DEFINE list == [i \in 1..n |-> <<order[i], legacy[order[i]]>>]
           h == IF Ended(p, ok) THEN [proc[p] EXCEPT !.step = "up"]
                ELSE NextRow([proc[p] EXCEPT !.rows = list])
<1>7. list \in Seq(Records \X Nat)
  <2>1. \A i \in 1..n : order[i] \in Held /\ order[i] \in Records
    BY <1>2
  <2>2. list \in [1..n -> Records \X Nat]
    BY <1>4, <2>1
  <2> QED
    BY <1>3, <2>2
<1>8. proc' = [proc EXCEPT ![p] = h]
  BY <1>5
<1> HIDE DEF list
<1>9. [proc[p] EXCEPT !.rows = list] \in HandType
  BY <1>1, <1>7 DEF HandType
<1>10. [proc[p] EXCEPT !.step = "up"] \in Hands /\ [proc[p] EXCEPT !.step = "up"].step = "up"
  BY <1>1 DEF Hands, HandType
<1>11. h \in Hands /\ h.step # "delete"
  BY <1>9, <1>10, NextRowIsHand
<1> HIDE DEF h
<1> QED
  BY <1>6, <1>8, <1>11, AttemptIsCounted, StepOfProcess DEF ReadKind, Sound

(* A kind passed over takes nothing in hand.                               *)
LEMMA SkipStep ==
    ASSUME Sound, NEW p \in Procs, SkipKind(p)
    PROVE  Sound'
<1>1. proc[p] \in HandType
  BY DEF Sound, TypeOK, Hands
<1>2. NextKind(proc[p]) \in Hands /\ NextKind(proc[p]).step # "delete"
  BY <1>1, NextKindIsHand
<1>3. proc' = [proc EXCEPT ![p] = NextKind(proc[p])] /\ UNCHANGED <<release, legacy, normal>>
  BY DEF SkipKind
<1> QED
  BY <1>2, <1>3, AttemptIsCounted, StepOfProcess DEF SkipKind, Sound

(* A saved row is in its own table when it comes to be deleted.            *)
LEMMA SaveStep ==
    ASSUME Sound, NEW p \in Procs, NEW ok \in BOOLEAN, SaveRow(p, ok)
    PROVE  Sound'
<1> DEFINE row == Head(proc[p].rows)
           saved == ok /\ KeyHolds(row[1])
           h == AfterSave(proc[p], saved)
<1>1. /\ proc[p] \in HandType
      /\ proc[p].rows \in Seq(Records \X Nat)
      /\ proc[p].rows # <<>>
  BY DEF Sound, TypeOK, Hands, HandType, SaveRow, At
<1>2. row \in Records \X Nat
  BY <1>1, HeadTail
<1>3. /\ proc' = [proc EXCEPT ![p] = h]
      /\ normal' = IF saved THEN [normal EXCEPT ![row[1]] = row[2]] ELSE normal
      /\ UNCHANGED <<release, legacy>>
  BY DEF SaveRow
<1>4. [proc[p] EXCEPT !.step = "delete"] \in Hands
      /\ [proc[p] EXCEPT !.step = "delete"].rows = proc[p].rows
  BY <1>1 DEF Hands, HandType
<1> HIDE DEF row, saved
<1>5. [proc[p] EXCEPT !.rows = Tail(@)] \in HandType
  BY <1>1, RestIsHand
<1>6. /\ h \in Hands
      /\ h.step = "delete" => saved /\ h.rows = proc[p].rows
  BY <1>4, <1>5, NextRowIsHand DEF AfterSave
<1> HIDE DEF h
<1>7. row[2] \in Nat /\ row[2] # None /\ row[1] \in Records
  BY <1>2, RecordsAssumption
<1>8. /\ normal' \in [Records -> Nat \cup {None}]
      /\ \A r \in Records : normal[r] # None => normal'[r] # None
      /\ saved => normal'[row[1]] # None
  BY <1>3, <1>7 DEF Sound, TypeOK
<1>9. h.step = "delete" => normal'[Head(h.rows)[1]] # None
  BY <1>6, <1>8 DEF row
<1>10. legacy' \in [Records -> Nat \cup {None}]
  BY <1>3 DEF Sound, TypeOK
<1>11. \A r \in Records : legacy'[r] = None => legacy[r] = None
  BY <1>3
<1>12. faults' \in [failures : Nat, crashes : Nat, edits : Nat, releases : Nat]
  BY AttemptIsCounted DEF SaveRow, Sound
<1> QED
  BY <1>3, <1>6, <1>8, <1>9, <1>10, <1>11, <1>12, StepKeepsRecords

LEMMA DeleteStep ==
    ASSUME Sound, NEW p \in Procs, NEW ok \in BOOLEAN, DeleteRow(p, ok)
    PROVE  Sound'
<1> DEFINE rec == Head(proc[p].rows)[1]
           h == NextRow([proc[p] EXCEPT !.rows = Tail(@)])
<1>1. /\ proc[p] \in HandType
      /\ proc[p].rows \in Seq(Records \X Nat)
      /\ proc[p].rows # <<>>
  BY DEF Sound, TypeOK, Hands, HandType, DeleteRow, At
<1>2. h \in Hands /\ h.step # "delete"
  BY <1>1, RestIsHand, NextRowIsHand
<1>3. rec \in Records /\ normal[rec] # None
  BY <1>1, HeadTail DEF Sound, DeletedIsMoved, DeleteRow
<1>4. /\ proc' = [proc EXCEPT ![p] = h]
      /\ legacy' = IF ok THEN [legacy EXCEPT ![rec] = None] ELSE legacy
      /\ UNCHANGED <<release, normal>>
  BY DEF DeleteRow, Deleted
<1> HIDE DEF rec, h
<1>5. /\ legacy' \in [Records -> Nat \cup {None}]
      /\ \A r \in Records : legacy'[r] = None => legacy[r] = None \/ normal'[r] # None
  BY <1>3, <1>4 DEF Sound, TypeOK
<1>6. normal' \in [Records -> Nat \cup {None}]
  BY <1>4 DEF Sound, TypeOK
<1>7. \A r \in Records : normal[r] # None => normal'[r] # None
  BY <1>4
<1>8. faults' \in [failures : Nat, crashes : Nat, edits : Nat, releases : Nat]
  BY AttemptIsCounted DEF DeleteRow, Sound
<1> QED
  BY <1>2, <1>4, <1>5, <1>6, <1>7, <1>8, StepKeepsRecords

LEMMA CrashStep ==
    ASSUME Sound, NEW p \in Procs, Crash(p)
    PROVE  Sound'
<1>1. faults' \in [failures : Nat, crashes : Nat, edits : Nat, releases : Nat]
  BY DEF Sound, TypeOK, Crash
<1> QED
  BY <1>1, DownIsHand, StepOfProcess DEF Sound, Crash

(* An edit, or a release, takes no record away.                            *)
LEMMA AroundStep ==
    ASSUME Sound,
           \/ \E p \in Procs, r \in Records : Edit(p, r)
           \/ \E f \in Names : Release(f)
    PROVE  Sound'
<1>1. proc' = proc /\ legacy' = legacy
  BY DEF Edit, Release
<1>2. /\ faults' \in [failures : Nat, crashes : Nat, edits : Nat, releases : Nat]
      /\ release' \in [Names -> Nat]
      /\ normal' \in [Records -> Nat \cup {None}]
      /\ \A r \in Records : normal[r] # None => normal'[r] # None
  <2>1. CASE \E p \in Procs, r \in Records : Edit(p, r)
    <3>1. PICK p \in Procs, r \in Records : Edit(p, r)
      BY <2>1
    <3>2. faults.edits + 1 \in Nat /\ faults.edits + 1 # None
      BY RecordsAssumption DEF Sound, TypeOK
    <3>3. /\ normal' = [normal EXCEPT ![r] = faults.edits + 1]
          /\ faults' = [faults EXCEPT !.edits = @ + 1]
          /\ release' = release
      BY <3>1 DEF Edit
    <3> QED
      BY <3>2, <3>3 DEF Sound, TypeOK
  <2>2. CASE \E f \in Names : Release(f)
    BY <2>2 DEF Release, Sound, TypeOK
  <2> QED
    BY <2>1, <2>2
<1>3. TypeOK'
  BY <1>1, <1>2 DEF Sound, TypeOK
<1>4. NoRecordLost'
  BY <1>1, <1>2 DEF Sound, NoRecordLost
<1>5. \A p \in Procs : At(p, "delete") => Head(proc[p].rows)[1] \in Records
  <2> SUFFICES ASSUME NEW p \in Procs, At(p, "delete")
               PROVE  Head(proc[p].rows)[1] \in Records
    OBVIOUS
  <2>1. proc[p].rows \in Seq(Records \X Nat) /\ proc[p].rows # <<>>
    BY DEF Sound, TypeOK, Hands, HandType, At
  <2> QED
    BY <2>1, HeadTail
<1>6. DeletedIsMoved'
  BY <1>1, <1>2, <1>5 DEF Sound, DeletedIsMoved, At
<1> QED
  BY <1>3, <1>4, <1>6 DEF Sound

-----------------------------------------------------------------------------
THEOREM SoundInit == Init => Sound
<1> SUFFICES ASSUME Init PROVE Sound
  OBVIOUS
<1>1. release \in [Names -> Nat]
  BY DEF Init
<1>2. Down \in HandType /\ Down.step = "down"
  BY <1>1 DEF Down, HandType
<1>3. Down \in Hands
  BY <1>2 DEF Hands
<1>4. TypeOK
  BY <1>1, <1>3 DEF Init, TypeOK
<1>5. NoRecordLost
  BY RecordsAssumption DEF Init, NoRecordLost
<1>6. DeletedIsMoved
  BY <1>2 DEF Init, DeletedIsMoved, At
<1> QED
  BY <1>4, <1>5, <1>6 DEF Sound

THEOREM SoundStep == Sound /\ [Next]_vars => Sound'
<1> SUFFICES ASSUME Sound, [Next]_vars PROVE Sound'
  OBVIOUS
<1>1. ASSUME NEW p \in Procs, Step(p)
      PROVE  Sound'
  <2>1. CASE Boot(p)
    BY <2>1, BootStep
  <2>2. CASE \E ok \in BOOLEAN : Gate(p, ok)
    BY <2>2, GateStep
  <2>3. CASE \E ok \in BOOLEAN : ApplyFile(p, ok)
    BY <2>3, ApplyStep
  <2>4. CASE \E ok \in BOOLEAN : Record(p, ok)
    BY <2>4, RecordStep
  <2>5. CASE \E ok \in BOOLEAN : ReadKind(p, ok)
    BY <2>5, ReadStep
  <2>6. CASE \E ok \in BOOLEAN : SaveRow(p, ok)
    BY <2>6, SaveStep
  <2>7. CASE \E ok \in BOOLEAN : DeleteRow(p, ok)
    BY <2>7, DeleteStep
  <2>8. CASE SkipKind(p)
    BY <2>8, SkipStep
  <2> QED
    BY <1>1, <2>1, <2>2, <2>3, <2>4, <2>5, <2>6, <2>7, <2>8 DEF Step
<1>2. ASSUME NEW p \in Procs, Crash(p)
      PROVE  Sound'
  BY <1>2, CrashStep
<1>3. CASE \/ \E p \in Procs, r \in Records : Edit(p, r)
           \/ \E f \in Names : Release(f)
  BY <1>3, AroundStep
<1>4. CASE UNCHANGED vars
  BY <1>4 DEF vars, Sound, TypeOK, NoRecordLost, DeletedIsMoved, At
<1> QED
  BY <1>1, <1>2, <1>3, <1>4 DEF Next

(* Whatever fails, crashes or overlaps, and whoever edits meanwhile, no    *)
(* record of the older release is lost on its way to the new tables        *)
(* (_backfill_governance_normalized).                                      *)
THEOREM BackfillLosesNothing == Spec => []NoRecordLost
<1>1. Sound => NoRecordLost
  BY DEF Sound
<1> QED
  BY SoundInit, SoundStep, <1>1, PTL DEF Spec

-----------------------------------------------------------------------------
(* What the helpers make of a hand: where it goes, and that it keeps its   *)
(* rows and its place.                                                     *)

LEMMA DownIs ==
    /\ Down.step = "down" /\ Down.rows = <<>> /\ Down.k = 1
    /\ [Down EXCEPT !.step = "gate"].step = "gate"
    /\ [Down EXCEPT !.step = "gate"].rows = <<>>
    /\ [Down EXCEPT !.step = "gate"].k = 1
BY DEF Down

LEMMA HandWith ==
    ASSUME NEW h \in HandType, NEW s, NEW x, NEW n
    PROVE  /\ [h EXCEPT !.step = s].step = s
           /\ [h EXCEPT !.step = s].rows = h.rows
           /\ [h EXCEPT !.step = s].k = h.k
           /\ [h EXCEPT !.step = s].files = h.files
           /\ [h EXCEPT !.rows = x].step = h.step
           /\ [h EXCEPT !.rows = x].rows = x
           /\ [h EXCEPT !.rows = x].k = h.k
           /\ [h EXCEPT !.step = s, !.i = n].step = s
           /\ [h EXCEPT !.step = s, !.i = n].rows = h.rows
           /\ [h EXCEPT !.step = s, !.i = n].k = h.k
           /\ [h EXCEPT !.step = s, !.i = n].files = h.files
           /\ [h EXCEPT !.step = s, !.failed = x].step = s
           /\ [h EXCEPT !.step = s, !.failed = x].rows = h.rows
           /\ [h EXCEPT !.step = s, !.failed = x].k = h.k
           /\ [h EXCEPT !.step = s, !.failed = x].files = h.files
           /\ [h EXCEPT !.step = s, !.k = n].step = s
           /\ [h EXCEPT !.step = s, !.k = n].rows = h.rows
           /\ [h EXCEPT !.step = s, !.k = n].k = n
BY DEF HandType

LEMMA NextKindIs ==
    ASSUME NEW h \in HandType
    PROVE  /\ NextKind(h).rows = h.rows
           /\ h.k = Len(Kinds) => NextKind(h).step = "up"
           /\ h.k # Len(Kinds) => NextKind(h).step = "kind" /\ NextKind(h).k = h.k + 1
<1>1. NextKind(h) = IF h.k = Len(Kinds) THEN [h EXCEPT !.step = "up"]
                    ELSE [h EXCEPT !.step = "kind", !.k = h.k + 1]
  BY DEF NextKind
<1> QED
  BY <1>1, HandWith

LEMMA NextRowIs ==
    ASSUME NEW h \in HandType
    PROVE  /\ NextRow(h).rows = h.rows
           /\ h.rows = <<>> => NextRow(h) = NextKind(h)
           /\ h.rows # <<>> => NextRow(h).step = "save" /\ NextRow(h).k = h.k
           /\ NextRow(h).step \in {"kind", "save", "up"}
<1>1. CASE h.rows = <<>>
  BY <1>1, NextKindIs DEF NextRow
<1>2. CASE h.rows # <<>>
  BY <1>2, HandWith DEF NextRow
<1> QED
  BY <1>1, <1>2

LEMMA FilesDoneIs ==
    ASSUME NEW h \in HandType
    PROVE  \/ FilesDone(h) = Down
           \/ /\ FilesDone(h).step = "kind" /\ FilesDone(h).rows = h.rows
              /\ FilesDone(h).k = h.k
BY HandWith DEF FilesDone

LEMMA RestIs ==
    ASSUME NEW rows \in Seq(Records \X Nat), rows # <<>>
    PROVE  /\ Len(rows) \in Nat \ {0} /\ Len(Tail(rows)) = Len(rows) - 1
           /\ \A i \in 1..Len(Tail(rows)) : i + 1 \in 1..Len(rows)
                                        /\ Tail(rows)[i] = rows[i + 1]
           /\ \A j \in 1..Len(rows) : j = 1 \/ (j - 1 \in 1..Len(Tail(rows))
                                          /\ Tail(rows)[j - 1] = rows[j])
           /\ Head(rows) = rows[1] /\ 1 \in 1..Len(rows)
BY HeadTailProperties

-----------------------------------------------------------------------------
(* The rows of the older release are of version 0, which no edit writes    *)
(* again; and a boot comes to the backfill with its first kind.            *)
HandIsOld(h) ==
    /\ \A i \in 1..Len(h.rows) : h.rows[i][2] = 0
    /\ h.step \in {"gate", "apply", "record"} => h.k = 1

Versions ==
    /\ \A r \in Records : legacy[r] \in {0, None}
    /\ \A r \in Records : normal[r] \in {None} \cup (0..faults.edits)
    /\ \A p \in Procs : HandIsOld(proc[p])

LEMMA VersionsInit == Init => Versions
<1> SUFFICES ASSUME Init PROVE Versions
  OBVIOUS
<1>1. HandIsOld(Down)
  BY DownIs DEF HandIsOld
<1> QED
  BY <1>1 DEF Init, Versions

LEMMA StepKeepsVersions ==
    ASSUME TypeOK, Versions, NEW p \in Procs, NEW h, proc' = [proc EXCEPT ![p] = h],
           HandIsOld(h),
           \A r \in Records : legacy'[r] \in {0, None},
           \A r \in Records : normal'[r] \in {None} \cup (0..faults'.edits)
    PROVE  Versions'
<1>1. \A q \in Procs : proc'[q] = IF q = p THEN h ELSE proc[q]
  BY DEF TypeOK
<1>2. \A q \in Procs : HandIsOld(proc'[q])
  BY <1>1 DEF Versions
<1> QED
  BY <1>2 DEF Versions, HandIsOld

LEMMA TablesKept ==
    ASSUME TypeOK, Versions, UNCHANGED <<legacy, normal>>, faults'.edits = faults.edits
    PROVE  /\ \A r \in Records : legacy'[r] \in {0, None}
           /\ \A r \in Records : normal'[r] \in {None} \cup (0..faults'.edits)
BY DEF Versions

LEMMA AttemptEdits ==
    ASSUME TypeOK, NEW ok \in BOOLEAN, Attempt(ok)
    PROVE  faults'.edits = faults.edits /\ faults.edits \in Nat
BY DEF TypeOK, Attempt

LEMMA HandsAre ==
    ASSUME TypeOK, NEW p \in Procs
    PROVE  /\ proc[p] \in HandType /\ proc[p].k \in Nat
           /\ proc[p].rows \in Seq(Records \X Nat)
           /\ proc[p].step \in {"save", "delete"} => proc[p].rows # <<>>
BY DEF TypeOK, Hands, HandType

LEMMA RestIsOld ==
    ASSUME NEW h \in HandType, HandIsOld(h), h.rows # <<>>
    PROVE  HandIsOld(NextRow([h EXCEPT !.rows = Tail(@)]))
<1> DEFINE g == [h EXCEPT !.rows = Tail(@)]
<1>1. g \in HandType /\ g.rows = Tail(h.rows) /\ h.rows \in Seq(Records \X Nat)
  BY RestIsHand, HandWith DEF HandType
<1>2. \A i \in 1..Len(Tail(h.rows)) : Tail(h.rows)[i][2] = 0
  <2>1. \A i \in 1..Len(h.rows) : h.rows[i][2] = 0
    BY DEF HandIsOld
  <2>2. \A i \in 1..Len(Tail(h.rows)) : i + 1 \in 1..Len(h.rows)
                                       /\ Tail(h.rows)[i] = h.rows[i + 1]
    BY <1>1, RestIs
  <2> QED
    BY <2>1, <2>2
<1> HIDE DEF g
<1>3. NextRow(g).rows = g.rows /\ NextRow(g).step \in {"kind", "save", "up"}
  BY <1>1, NextRowIs
<1> QED
  BY <1>1, <1>2, <1>3 DEF HandIsOld, g

(* The rows that a kind is read with, each once, from the generic table.   *)
RowsOnce(list, held) ==
    /\ \A i \in 1..Len(list) : list[i][1] \in held
    /\ \A i, j \in 1..Len(list) : list[i][1] = list[j][1] => i = j

WithRows(p, list) == [proc[p] EXCEPT !.rows = list]

AllRowsOf(kind, list) ==
    /\ \A i \in 1..Len(list) : list[i][2] = 0
    /\ RowsOnce(list, Held)
    /\ TableOf[kind] \in tables =>
          \A r \in Held : KindOf[r] = kind => \E i \in 1..Len(list) : list[i][1] = r

LEMMA ReadRows ==
    ASSUME TypeOK, Versions, NEW p \in Procs, NEW ok \in BOOLEAN, ReadKind(p, ok)
    PROVE  \E list \in Seq(Records \X Nat) :
             /\ AllRowsOf(Kinds[proc[p].k], list)
             /\ WithRows(p, list) \in HandType
             /\ proc' = [proc EXCEPT ![p] = IF Ended(p, ok) THEN [proc[p] EXCEPT !.step = "up"]
                                           ELSE NextRow(WithRows(p, list))]
<1> DEFINE kind == BackfillKind(proc[p].k)
           rows == {r \in Held : KindOf[r] = kind /\ TableOf[kind] \in tables}
           n == Cardinality(rows)
<1>1. proc[p] \in HandType
  BY HandsAre
<1>2. IsFiniteSet(rows) /\ rows \subseteq Held /\ Held \subseteq Records
  <2>1. Held \subseteq Records /\ rows \subseteq Held
    BY DEF Held
  <2> QED
    BY <2>1, RecordsAssumption, FS_Subset
<1>3. n \in Nat
  BY <1>2, FS_CardinalityType
<1>4. \A r \in Held : legacy[r] = 0
  BY DEF Held, Versions
<1>5. PICK order \in [1..n -> rows] :
         /\ \A r \in rows : \E i \in 1..n : order[i] = r
         /\ proc' = [proc EXCEPT ![p] =
               IF Ended(p, ok) THEN [proc[p] EXCEPT !.step = "up"]
               ELSE NextRow([proc[p] EXCEPT !.rows =
                                [i \in 1..n |-> <<order[i], legacy[order[i]]>>]])]
  BY DEF ReadKind
<1>6. \A r \in Held : KindOf[r] = kind /\ TableOf[kind] \in tables => r \in rows
  OBVIOUS
<1> DEFINE list == [i \in 1..n |-> <<order[i], legacy[order[i]]>>]
<1>7. \A i, j \in 1..n : order[i] = order[j] => i = j
  <2> HIDE DEF rows
  <2>1. IsFiniteSet(1..n) /\ Cardinality(1..n) = n
    BY <1>3, FS_Interval
  <2>2. order \in Surjection(1..n, rows)
    BY <1>5 DEF Surjection
  <2>3. Cardinality(1..n) = Cardinality(rows)
    BY <2>1
  <2>4. order \in Injection(1..n, rows)
    BY <2>1, <2>2, <2>3, FS_SurjSameCardinalityImpliesInj
  <2> QED
    BY <2>4 DEF Injection, IsInjective
<1> HIDE DEF n, rows
<1>8. \A i \in 1..n : /\ order[i] \in rows /\ order[i] \in Held /\ order[i] \in Records
                     /\ legacy[order[i]] = 0
  BY <1>2, <1>4
<1>9. list \in Seq(Records \X Nat) /\ Len(list) = n
  <2>1. list \in [1..n -> Records \X Nat]
    BY <1>8
  <2> QED
    BY <1>3, <2>1
<1>10. \A i \in 1..n : list[i][1] = order[i] /\ list[i][2] = 0
  BY <1>8
<1>11. proc' = [proc EXCEPT ![p] =
          IF Ended(p, ok) THEN [proc[p] EXCEPT !.step = "up"]
          ELSE NextRow([proc[p] EXCEPT !.rows = list])]
  BY <1>5
<1> HIDE DEF list
<1>12. [proc[p] EXCEPT !.rows = list] \in HandType
  BY <1>1, <1>9 DEF HandType
<1>13. TableOf[kind] \in tables =>
         \A r \in Held : KindOf[r] = kind => \E i \in 1..Len(list) : list[i][1] = r
  <2> SUFFICES ASSUME TableOf[kind] \in tables, NEW r \in Held, KindOf[r] = kind
               PROVE  \E i \in 1..Len(list) : list[i][1] = r
    OBVIOUS
  <2>1. r \in rows
    BY <1>6
  <2>2. PICK i \in 1..n : order[i] = r
    BY <1>5, <2>1
  <2> QED
    BY <2>2, <1>9, <1>10
<1>14. \A i, j \in 1..Len(list) : list[i][1] = list[j][1] => i = j
  BY <1>7, <1>9, <1>10
<1>15. \A i \in 1..Len(list) : list[i][2] = 0 /\ list[i][1] \in Held
  BY <1>8, <1>9, <1>10
<1>16. AllRowsOf(Kinds[proc[p].k], list)
  BY <1>13, <1>14, <1>15, Zenon DEF AllRowsOf, RowsOnce, BackfillKind
<1> QED
  BY <1>9, <1>11, <1>12, <1>16, Zenon DEF WithRows

LEMMA VersionsStep ==
    ASSUME Sound, Versions, [Next]_vars
    PROVE  Versions'
<1> USE DEF Sound
<1>1. ASSUME NEW p \in Procs, Boot(p) PROVE Versions'
  <2> DEFINE h == [Down EXCEPT !.step = "gate"]
  <2>1. HandIsOld(h)
    BY DownIs DEF HandIsOld
  <2>2. /\ proc' = [proc EXCEPT ![p] = h] /\ UNCHANGED <<legacy, normal>>
        /\ faults'.edits = faults.edits
    BY <1>1 DEF Boot
  <2> HIDE DEF h
  <2> QED
    BY <2>1, <2>2, TablesKept, StepKeepsVersions
<1>2. ASSUME NEW p \in Procs, NEW ok \in BOOLEAN, Gate(p, ok) PROVE Versions'
  <2> DEFINE h == IF failFast /\ (~ok \/ Drift(proc[p].files) # {}) THEN Down
                  ELSE [proc[p] EXCEPT !.step = "apply"]
  <2>1. HandIsOld(proc[p]) /\ proc[p] \in HandType /\ proc[p].step = "gate"
    BY <1>2, HandsAre DEF Versions, Gate, At
  <2>2. HandIsOld([proc[p] EXCEPT !.step = "apply"])
    BY <2>1, HandWith DEF HandIsOld
  <2>3. HandIsOld(h)
    BY <2>2, DownIs DEF HandIsOld
  <2>4. proc' = [proc EXCEPT ![p] = h] /\ UNCHANGED <<legacy, normal>>
    BY <1>2 DEF Gate
  <2>5. faults'.edits = faults.edits
    BY <1>2, AttemptEdits DEF Gate
  <2> HIDE DEF h
  <2> QED
    BY <2>3, <2>4, <2>5, TablesKept, StepKeepsVersions
<1>3. ASSUME NEW p \in Procs, NEW ok \in BOOLEAN, ApplyFile(p, ok) PROVE Versions'
  <2> DEFINE set == IF ok THEN proc[p].failed ELSE proc[p].failed \cup {File(p)}
             h == [proc[p] EXCEPT !.step = "record", !.failed = set]
  <2>1. HandIsOld(proc[p]) /\ proc[p] \in HandType /\ proc[p].step = "apply"
    BY <1>3, HandsAre DEF Versions, ApplyFile, At
  <2>2. proc' = [proc EXCEPT ![p] = h] /\ UNCHANGED <<legacy, normal>>
    BY <1>3 DEF ApplyFile
  <2> HIDE DEF set
  <2>3. HandIsOld(h)
    BY <2>1, HandWith DEF HandIsOld
  <2>4. faults'.edits = faults.edits
    BY <1>3, AttemptEdits DEF ApplyFile
  <2> HIDE DEF h
  <2> QED
    BY <2>2, <2>3, <2>4, TablesKept, StepKeepsVersions
<1>4. ASSUME NEW p \in Procs, NEW ok \in BOOLEAN, Record(p, ok) PROVE Versions'
  <2> DEFINE n == proc[p].i + 1
             h == IF proc[p].i = Len(Files) THEN FilesDone(proc[p])
                  ELSE [proc[p] EXCEPT !.step = "apply", !.i = n]
  <2>1. HandIsOld(proc[p]) /\ proc[p] \in HandType /\ proc[p].step = "record"
    BY <1>4, HandsAre DEF Versions, Record, At
  <2>2. proc' = [proc EXCEPT ![p] = h] /\ UNCHANGED <<legacy, normal>>
    BY <1>4 DEF Record
  <2> HIDE DEF n
  <2>3. HandIsOld([proc[p] EXCEPT !.step = "apply", !.i = n])
    BY <2>1, HandWith DEF HandIsOld
  <2>4. HandIsOld(Down)
    BY DownIs DEF HandIsOld
  <2>5. HandIsOld(FilesDone(proc[p]))
    BY <2>1, <2>4, FilesDoneIs DEF HandIsOld
  <2>6. HandIsOld(h)
    BY <2>3, <2>5
  <2>7. faults'.edits = faults.edits
    BY <1>4, AttemptEdits DEF Record
  <2> HIDE DEF h
  <2> QED
    BY <2>2, <2>6, <2>7, TablesKept, StepKeepsVersions
<1>5. ASSUME NEW p \in Procs, NEW ok \in BOOLEAN, ReadKind(p, ok) PROVE Versions'
  <2>1. PICK list \in Seq(Records \X Nat) :
           /\ AllRowsOf(Kinds[proc[p].k], list)
           /\ WithRows(p, list) \in HandType
           /\ proc' = [proc EXCEPT ![p] = IF Ended(p, ok) THEN [proc[p] EXCEPT !.step = "up"]
                                         ELSE NextRow(WithRows(p, list))]
    BY <1>5, ReadRows
  <2> DEFINE g == WithRows(p, list)
             h == IF Ended(p, ok) THEN [proc[p] EXCEPT !.step = "up"] ELSE NextRow(g)
  <2>2. HandIsOld(proc[p]) /\ proc[p] \in HandType
    BY HandsAre DEF Versions
  <2>3. HandIsOld([proc[p] EXCEPT !.step = "up"])
    BY <2>2, HandWith DEF HandIsOld
  <2>4. g \in HandType /\ g.rows = list
    BY <2>1, <2>2, HandWith DEF WithRows
  <2>5. NextRow(g).rows = list /\ NextRow(g).step \in {"kind", "save", "up"}
    BY <2>4, NextRowIs
  <2>6. HandIsOld(NextRow(g))
    BY <2>1, <2>5 DEF HandIsOld, AllRowsOf
  <2>7. HandIsOld(h)
    BY <2>3, <2>6
  <2>8. proc' = [proc EXCEPT ![p] = h] /\ UNCHANGED <<legacy, normal>>
    BY <1>5, <2>1 DEF ReadKind
  <2>9. faults'.edits = faults.edits
    BY <1>5, AttemptEdits DEF ReadKind
  <2> HIDE DEF h
  <2> QED
    BY <2>7, <2>8, <2>9, TablesKept, StepKeepsVersions
<1>6. ASSUME NEW p \in Procs, NEW ok \in BOOLEAN, SaveRow(p, ok) PROVE Versions'
  <2> DEFINE row == Head(proc[p].rows)
             saved == ok /\ KeyHolds(row[1])
             h == AfterSave(proc[p], saved)
  <2>1. /\ HandIsOld(proc[p]) /\ proc[p] \in HandType /\ proc[p].rows # <<>>
        /\ proc[p].rows \in Seq(Records \X Nat)
    BY <1>6, HandsAre DEF Versions, SaveRow, At
  <2>2. row[2] = 0
    BY <2>1, RestIs DEF HandIsOld
  <2>3. /\ proc' = [proc EXCEPT ![p] = h] /\ UNCHANGED legacy
        /\ normal' = IF saved THEN [normal EXCEPT ![row[1]] = row[2]] ELSE normal
    BY <1>6 DEF SaveRow
  <2>4. HandIsOld([proc[p] EXCEPT !.step = "delete"])
    BY <2>1, HandWith DEF HandIsOld
  <2> HIDE DEF row, saved
  <2>5. HandIsOld(h)
    BY <2>1, <2>4, RestIsOld DEF AfterSave
  <2>6. faults'.edits = faults.edits /\ faults.edits \in Nat
    BY <1>6, AttemptEdits DEF SaveRow
  <2>7. \A r \in Records : legacy'[r] \in {0, None}
    BY <2>3 DEF Versions
  <2>8. \A r \in Records : normal'[r] \in {None} \cup (0..faults'.edits)
    BY <2>2, <2>3, <2>6 DEF Versions, TypeOK
  <2> HIDE DEF h
  <2> QED
    BY <2>3, <2>5, <2>7, <2>8, StepKeepsVersions
<1>7. ASSUME NEW p \in Procs, NEW ok \in BOOLEAN, DeleteRow(p, ok) PROVE Versions'
  <2> DEFINE h == NextRow([proc[p] EXCEPT !.rows = Tail(@)])
             r == Head(proc[p].rows)[1]
  <2>1. HandIsOld(proc[p]) /\ proc[p] \in HandType /\ proc[p].rows # <<>>
    BY <1>7, HandsAre DEF Versions, DeleteRow, At
  <2>2. HandIsOld(h)
    BY <2>1, RestIsOld
  <2>3. /\ proc' = [proc EXCEPT ![p] = h] /\ UNCHANGED normal
        /\ legacy' = IF ok THEN [legacy EXCEPT ![r] = None] ELSE legacy
    BY <1>7 DEF DeleteRow, Deleted
  <2> HIDE DEF h, r
  <2>4. \A x \in Records : legacy'[x] \in {0, None}
    BY <2>3 DEF Versions, TypeOK
  <2>5. faults'.edits = faults.edits
    BY <1>7, AttemptEdits DEF DeleteRow
  <2>6. \A x \in Records : normal'[x] \in {None} \cup (0..faults'.edits)
    BY <2>3, <2>5 DEF Versions
  <2> QED
    BY <2>2, <2>3, <2>4, <2>6, StepKeepsVersions
<1>8. ASSUME NEW p \in Procs, Crash(p) PROVE Versions'
  <2>1. HandIsOld(Down)
    BY DownIs DEF HandIsOld
  <2>2. /\ proc' = [proc EXCEPT ![p] = Down] /\ UNCHANGED <<legacy, normal>>
        /\ faults'.edits = faults.edits
    BY <1>8 DEF Crash, TypeOK
  <2> QED
    BY <2>1, <2>2, TablesKept, StepKeepsVersions
<1>9. ASSUME NEW p \in Procs, NEW r \in Records, Edit(p, r) PROVE Versions'
  <2>1. /\ UNCHANGED <<proc, legacy>> /\ faults'.edits = faults.edits + 1
        /\ normal' = [normal EXCEPT ![r] = faults.edits + 1] /\ faults.edits \in Nat
    BY <1>9 DEF Edit, TypeOK
  <2>2. \A x \in Records : normal'[x] \in {None} \cup (0..faults'.edits)
    BY <2>1 DEF Versions, TypeOK
  <2> QED
    BY <2>1, <2>2 DEF Versions, HandIsOld
<1>10. ASSUME NEW f \in Names, Release(f) PROVE Versions'
  <2>1. UNCHANGED <<proc, legacy, normal>> /\ faults'.edits = faults.edits
    BY <1>10 DEF Release, TypeOK
  <2> QED
    BY <2>1 DEF Versions, HandIsOld
<1>11. CASE UNCHANGED vars
  BY <1>11 DEF vars, Versions, HandIsOld
<1>12. ASSUME NEW p \in Procs, SkipKind(p) PROVE Versions'
  <2> DEFINE h == NextKind(proc[p])
  <2>1. HandIsOld(proc[p]) /\ proc[p] \in HandType
    BY HandsAre DEF Versions
  <2>2. h.rows = proc[p].rows /\ h.step \in {"kind", "up"}
    BY <2>1, NextKindIs
  <2>3. HandIsOld(h)
    BY <2>1, <2>2 DEF HandIsOld
  <2>4. proc' = [proc EXCEPT ![p] = h] /\ UNCHANGED <<legacy, normal>>
    BY <1>12 DEF SkipKind
  <2>5. faults'.edits = faults.edits
    BY <1>12, AttemptEdits DEF SkipKind
  <2> HIDE DEF h
  <2> QED
    BY <2>3, <2>4, <2>5, TablesKept, StepKeepsVersions
<1> QED
  BY <1>1, <1>2, <1>3, <1>4, <1>5, <1>6, <1>7, <1>8, <1>9, <1>10, <1>11, <1>12
     DEF Next, Step

-----------------------------------------------------------------------------
(* While no two boots have overlapped, one process boots at a time; and in *)
(* production nothing of what it applies has changed since it was applied  *)
(* with success.                                                           *)
BootAlone == ~crossed => \A p, q \in Procs : Booting(p) /\ Booting(q) => p = q

Applying(p) == proc[p].step \in {"apply", "record"}

NoDrift ==
    ~crossed /\ failFast => \A p \in Procs : Applying(p) => Drift(proc[p].files) = {}

Ledgers ==
    /\ history = [f \in Names |-> history[f]]
    /\ applied = [f \in Names |-> applied[f]]

Gated == Ledgers /\ BootAlone /\ NoDrift

LEMMA GatedInit == Init => Gated
<1> SUFFICES ASSUME Init PROVE Gated
  OBVIOUS
<1>1. Ledgers
  BY DEF Init, Ledgers
<1>2. \A p \in Procs : proc[p].step = "down"
  BY DownIs DEF Init
<1> QED
  BY <1>1, <1>2 DEF Gated, BootAlone, NoDrift, Applying, Booting

(* A step of the process that boots, or that ends a boot.                  *)
LEMMA StepKeepsAlone ==
    ASSUME BootAlone, NEW p \in Procs, UNCHANGED crossed,
           Booting(p) \/ ~Booting(p)',
           \A q \in Procs \ {p} : proc'[q] = proc[q]
    PROVE  BootAlone'
<1>1. \A q \in Procs : Booting(q)' => Booting(q) \/ q = p
  BY DEF Booting
<1>2. \A q \in Procs \ {p} : Booting(q)' => Booting(q)
  BY <1>1
<1> QED
  BY <1>1, <1>2 DEF BootAlone

LEMMA OthersStay ==
    ASSUME TypeOK, NEW p \in Procs, NEW h, proc' = [proc EXCEPT ![p] = h]
    PROVE  proc'[p] = h /\ \A q \in Procs \ {p} : proc'[q] = proc[q]
BY DEF TypeOK

(* A step of the process that boots: nobody else is past the gate.         *)
LEMMA StepKeepsNoDrift ==
    ASSUME BootAlone, NEW p \in Procs, UNCHANGED <<crossed, failFast>>, Booting(p),
           \A q \in Procs \ {p} : proc'[q] = proc[q],
           ~crossed /\ failFast /\ Applying(p)' => (Drift(proc[p].files) = {})'
    PROVE  NoDrift'
<1> SUFFICES ASSUME ~crossed, failFast, NEW q \in Procs, Applying(q)'
             PROVE  (Drift(proc[q].files) = {})'
  BY DEF NoDrift
<1>1. q = p
  <2> SUFFICES ASSUME q # p PROVE FALSE
    OBVIOUS
  <2>1. Booting(q)
    BY DEF Applying, Booting
  <2> QED
    BY <2>1 DEF BootAlone
<1> QED
  BY <1>1

(* A step that is not one of a boot before the backfill.                   *)
LEMMA StepPastFiles ==
    ASSUME Sound, Gated, NEW p \in Procs, NEW h, proc' = [proc EXCEPT ![p] = h],
           UNCHANGED <<crossed, failFast, history, applied>>,
           Booting(p) \/ h.step \in {"down", "up"}, ~(h.step \in {"apply", "record"})
    PROVE  Gated'
<1>1. proc'[p] = h /\ \A q \in Procs \ {p} : proc'[q] = proc[q]
  BY OthersStay DEF Sound
<1>2. BootAlone'
  BY <1>1, StepKeepsAlone DEF Gated, Booting
<1>3. Ledgers'
  BY DEF Gated, Ledgers
<1>4. NoDrift'
  <2> SUFFICES ASSUME ~crossed, failFast, NEW q \in Procs, Applying(q)'
               PROVE  (Drift(proc[q].files) = {})'
    BY DEF NoDrift
  <2>1. proc'[q] = proc[q] /\ Applying(q)
    BY <1>1 DEF Applying
  <2>2. Drift(proc[q].files) = {}
    BY <2>1 DEF Gated, NoDrift
  <2> QED
    BY <2>1, <2>2 DEF Drift
<1> QED
  BY <1>2, <1>3, <1>4 DEF Gated

LEMMA BootGated ==
    ASSUME Sound, Gated, NEW p \in Procs, Boot(p)
    PROVE  Gated'
<1>1. crossed' = (crossed \/ \E q \in Procs : Booting(q)) /\ UNCHANGED <<history, applied>>
  BY DEF Boot
<1>2. /\ proc'[p] = [Down EXCEPT !.step = "gate"]
      /\ \A q \in Procs \ {p} : proc'[q] = proc[q]
  BY OthersStay DEF Sound, Boot
<1>3. ~crossed' => \A q \in Procs \ {p} : ~Booting(q)'
  BY <1>1, <1>2 DEF Booting
<1>4. BootAlone'
  BY <1>3 DEF BootAlone
<1>5. ~crossed' => \A q \in Procs : ~Applying(q)'
  BY <1>2, <1>3, DownIs DEF Applying, Booting
<1>6. Ledgers' /\ NoDrift'
  BY <1>1, <1>5 DEF Gated, Ledgers, NoDrift
<1> QED
  BY <1>4, <1>6 DEF Gated

LEMMA GateGated ==
    ASSUME Sound, Gated, NEW p \in Procs, NEW ok \in BOOLEAN, Gate(p, ok)
    PROVE  Gated'
<1> DEFINE stop == failFast /\ (~ok \/ Drift(proc[p].files) # {})
           h == IF stop THEN Down ELSE [proc[p] EXCEPT !.step = "apply"]
<1>1. UNCHANGED <<crossed, failFast, history, applied>> /\ Booting(p)
  BY DEF Gate, At, Booting
<1>2. proc'[p] = h /\ \A q \in Procs \ {p} : proc'[q] = proc[q]
  BY OthersStay DEF Sound, Gate
<1>3. BootAlone' /\ Ledgers'
  BY <1>1, <1>2, StepKeepsAlone DEF Gated, Ledgers
<1>4. ~stop => proc'[p].files = proc[p].files
  BY <1>2, HandsAre, HandWith DEF Sound
<1>5. stop => ~Applying(p)'
  BY <1>2, DownIs DEF Applying
<1>6. failFast /\ Applying(p)' => (Drift(proc[p].files) = {})'
  <2> SUFFICES ASSUME failFast, Applying(p)' PROVE (Drift(proc[p].files) = {})'
    OBVIOUS
  <2>1. ~stop
    BY <1>5
  <2>2. Drift(proc[p].files) = {}
    BY <2>1
  <2> QED
    BY <1>1, <1>4, <2>1, <2>2 DEF Drift
<1>7. NoDrift'
  BY <1>1, <1>2, <1>6, StepKeepsNoDrift DEF Gated
<1> QED
  BY <1>3, <1>7 DEF Gated

LEMMA ApplyGated ==
    ASSUME Sound, Gated, NEW p \in Procs, NEW ok \in BOOLEAN, ApplyFile(p, ok)
    PROVE  Gated'
<1> DEFINE set == IF ok THEN proc[p].failed ELSE proc[p].failed \cup {File(p)}
           h == [proc[p] EXCEPT !.step = "record", !.failed = set]
<1>1. UNCHANGED <<crossed, failFast, history>> /\ Booting(p) /\ Applying(p)
  BY DEF ApplyFile, At, Booting, Applying
<1>2. proc'[p] = h /\ \A q \in Procs \ {p} : proc'[q] = proc[q]
  BY OthersStay DEF Sound, ApplyFile
<1>3. BootAlone'
  BY <1>1, <1>2, StepKeepsAlone DEF Gated
<1>4. Ledgers'
  <2> DEFINE new == Append(applied[File(p)], proc[p].files[File(p)])
  <2>1. applied' = applied \/ applied' = [applied EXCEPT ![File(p)] = new]
    BY DEF ApplyFile
  <2> HIDE DEF new
  <2>2. applied' = [f \in Names |-> applied'[f]]
    BY <2>1 DEF Gated, Ledgers
  <2> QED
    BY <1>1, <2>2 DEF Gated, Ledgers
<1> HIDE DEF set
<1>5. proc'[p].files = proc[p].files
  BY <1>2, HandsAre, HandWith DEF Sound
<1>6. ~crossed /\ failFast => Drift(proc[p].files) = {}
  BY <1>1 DEF Gated, NoDrift
<1>7. ~crossed /\ failFast => (Drift(proc[p].files) = {})'
  BY <1>1, <1>5, <1>6 DEF Drift
<1>8. NoDrift'
  BY <1>1, <1>2, <1>7, StepKeepsNoDrift DEF Gated
<1> QED
  BY <1>3, <1>4, <1>8 DEF Gated

(* What is recorded is the sum of what was just applied.                   *)
LEMMA RecordGated ==
    ASSUME Sound, Gated, NEW p \in Procs, NEW ok \in BOOLEAN, Record(p, ok)
    PROVE  Gated'
<1> DEFINE n == proc[p].i + 1
           h == IF proc[p].i = Len(Files) THEN FilesDone(proc[p])
                ELSE [proc[p] EXCEPT !.step = "apply", !.i = n]
           row == [sum |-> proc[p].files[File(p)], success |-> File(p) \notin proc[p].failed]
<1>1. UNCHANGED <<crossed, failFast, applied>> /\ Booting(p) /\ Applying(p)
  BY DEF Record, At, Booting, Applying
<1>2. proc'[p] = h /\ \A q \in Procs \ {p} : proc'[q] = proc[q]
  BY OthersStay DEF Sound, Record
<1>3. history' = history \/ history' = [history EXCEPT ![File(p)] = row]
  BY DEF Record
<1>4. row.sum = proc[p].files[File(p)]
  OBVIOUS
<1>5. BootAlone'
  BY <1>1, <1>2, StepKeepsAlone DEF Gated
<1> HIDE DEF row, n
<1>6. \A f \in Names : history'[f] = history[f]
                       \/ (f = File(p) /\ history'[f] = row)
  BY <1>3 DEF Gated, Ledgers
<1>7. Ledgers'
  <2>1. history' = [f \in Names |-> history'[f]]
    BY <1>3 DEF Gated, Ledgers
  <2> QED
    BY <1>1, <2>1 DEF Gated, Ledgers
<1>8. Applying(p)' => proc'[p].files = proc[p].files
  <2>1. proc[p] \in HandType
    BY HandsAre DEF Sound
  <2>2. ~(FilesDone(proc[p]).step \in {"apply", "record"})
    BY <2>1, FilesDoneIs, DownIs
  <2>3. [proc[p] EXCEPT !.step = "apply", !.i = n].files = proc[p].files
    BY <2>1, HandWith
  <2> QED
    BY <1>2, <2>2, <2>3 DEF Applying
<1>9. ~crossed /\ failFast => Drift(proc[p].files) = {}
  BY <1>1 DEF Gated, NoDrift
<1>10. ~crossed /\ failFast /\ Applying(p)' => (Drift(proc[p].files) = {})'
  BY <1>4, <1>6, <1>8, <1>9 DEF Drift
<1>11. NoDrift'
  BY <1>1, <1>2, <1>10, StepKeepsNoDrift DEF Gated
<1> QED
  BY <1>5, <1>7, <1>11 DEF Gated

LEMMA GatedStep ==
    ASSUME Sound, Versions, Gated, [Next]_vars
    PROVE  Gated'
<1>1. ASSUME NEW p \in Procs, NEW ok \in BOOLEAN, ReadKind(p, ok) PROVE Gated'
  <2> DEFINE up == [proc[p] EXCEPT !.step = "up"]
  <2>0. PICK list \in Seq(Records \X Nat) :
           /\ WithRows(p, list) \in HandType
           /\ proc' = [proc EXCEPT ![p] = IF Ended(p, ok) THEN [proc[p] EXCEPT !.step = "up"]
                                         ELSE NextRow(WithRows(p, list))]
    BY <1>1, ReadRows DEF Sound
  <2>1. PICK g \in HandType :
           proc' = [proc EXCEPT ![p] = IF Ended(p, ok) THEN up ELSE NextRow(g)]
    BY <2>0
  <2>2. NextRow(g).step \in {"kind", "save", "up"} /\ up.step = "up"
    BY NextRowIs, HandsAre, HandWith DEF Sound
  <2>3. UNCHANGED <<crossed, failFast, history, applied>> /\ Booting(p)
    BY <1>1 DEF ReadKind, At, Booting
  <2> DEFINE h == IF Ended(p, ok) THEN up ELSE NextRow(g)
  <2>4. ~(h.step \in {"apply", "record"})
    BY <2>2
  <2>5. proc' = [proc EXCEPT ![p] = h]
    BY <2>1
  <2> HIDE DEF h
  <2> QED
    BY <2>3, <2>4, <2>5, StepPastFiles
<1>2. ASSUME NEW p \in Procs, NEW ok \in BOOLEAN, SaveRow(p, ok) PROVE Gated'
  <2> DEFINE saved == ok /\ KeyHolds(Head(proc[p].rows)[1])
             h == AfterSave(proc[p], saved)
  <2>1. proc[p] \in HandType /\ proc[p].rows # <<>>
    BY <1>2, HandsAre DEF Sound, SaveRow, At
  <2>2. UNCHANGED <<crossed, failFast, history, applied>> /\ Booting(p)
    BY <1>2 DEF SaveRow, At, Booting
  <2>3. proc' = [proc EXCEPT ![p] = h]
    BY <1>2 DEF SaveRow
  <2> HIDE DEF saved
  <2>4. ~(h.step \in {"apply", "record"})
    BY <2>1, RestIsHand, NextRowIs, HandWith DEF AfterSave
  <2> HIDE DEF h
  <2> QED
    BY <2>2, <2>3, <2>4, StepPastFiles
<1>3. ASSUME NEW p \in Procs, NEW ok \in BOOLEAN, DeleteRow(p, ok) PROVE Gated'
  <2> DEFINE h == NextRow([proc[p] EXCEPT !.rows = Tail(@)])
  <2>1. proc[p] \in HandType /\ proc[p].rows # <<>>
    BY <1>3, HandsAre DEF Sound, DeleteRow, At
  <2>2. UNCHANGED <<crossed, failFast, history, applied>> /\ Booting(p)
    BY <1>3 DEF DeleteRow, At, Booting
  <2>3. proc' = [proc EXCEPT ![p] = h]
    BY <1>3 DEF DeleteRow
  <2>4. ~(h.step \in {"apply", "record"})
    BY <2>1, RestIsHand, NextRowIs
  <2> HIDE DEF h
  <2> QED
    BY <2>2, <2>3, <2>4, StepPastFiles
<1>4. ASSUME NEW p \in Procs, Crash(p) PROVE Gated'
  BY <1>4, DownIs, StepPastFiles DEF Crash
<1>5. CASE UNCHANGED <<proc, crossed, failFast, history, applied>>
  BY <1>5 DEF Gated, Ledgers, BootAlone, NoDrift, Booting, Applying, Drift
<1>6. ASSUME \/ \E p \in Procs, r \in Records : Edit(p, r)
             \/ \E f \in Names : Release(f)
             \/ UNCHANGED vars
      PROVE  UNCHANGED <<proc, crossed, failFast, history, applied>>
  BY <1>6 DEF Edit, Release, vars
<1>7. ASSUME NEW p \in Procs, SkipKind(p) PROVE Gated'
  <2> DEFINE h == NextKind(proc[p])
  <2>1. UNCHANGED <<crossed, failFast, history, applied>> /\ Booting(p)
        /\ proc' = [proc EXCEPT ![p] = h]
    BY <1>7 DEF SkipKind, At, Booting
  <2>2. ~(h.step \in {"apply", "record"})
    BY NextKindIs, HandsAre DEF Sound
  <2> HIDE DEF h
  <2> QED
    BY <2>1, <2>2, StepPastFiles
<1> QED
  BY <1>1, <1>2, <1>3, <1>4, <1>5, <1>6, <1>7, BootGated, GateGated, ApplyGated, RecordGated
     DEF Next, Step

(* Only the application of a file changes what was applied, and only that  *)
(* of a content that was not the last.                                     *)
LEMMA AppliedOnlyHere ==
    ASSUME [Next]_vars, NEW f \in Names, Ledgers, applied'[f] # applied[f]
    PROVE  \E p \in Procs : Applying(p) /\ (applied[f] = <<>> \/ Last(applied[f]) # proc[p].files[f])
<1>1. \E p \in Procs : \E ok \in BOOLEAN : ApplyFile(p, ok)
  <2>1. ASSUME NEW p \in Procs, NEW ok \in BOOLEAN,
               \/ Boot(p) \/ SkipKind(p) \/ Crash(p) \/ Gate(p, ok) \/ Record(p, ok)
               \/ ReadKind(p, ok) \/ SaveRow(p, ok) \/ DeleteRow(p, ok)
        PROVE  applied' = applied
    BY <2>1 DEF Boot, SkipKind, Crash, Gate, Record, ReadKind, SaveRow, DeleteRow
  <2>2. ASSUME \/ \E p \in Procs, x \in Records : Edit(p, x)
               \/ \E x \in Names : Release(x)
               \/ UNCHANGED vars
        PROVE  applied' = applied
    BY <2>2 DEF Edit, Release, vars
  <2> QED
    BY <2>1, <2>2 DEF Next, Step
<1>2. PICK p \in Procs, ok \in BOOLEAN : ApplyFile(p, ok)
  BY <1>1
<1>3. /\ applied' = [applied EXCEPT ![File(p)] = Append(@, proc[p].files[File(p)])]
      /\ ~Current(File(p), proc[p].files)
  BY <1>2 DEF ApplyFile
<1>4. f = File(p)
  BY <1>3 DEF Ledgers
<1> QED
  BY <1>2, <1>3, <1>4 DEF Current, ApplyFile, At, Applying

GateStepHolds ==
    \A f \in Names :
        applied[f] # <<>> /\ applied'[f] # applied[f] /\ failFast =>
            \/ crossed
            \/ history[f] = None \/ ~history[f].success
            \/ history[f].sum # Last(applied[f])

(* In production a content that differs from what is on record as applied  *)
(* with success is never applied, by any release and after any crash, as   *)
(* long as boots do not overlap (_detect_migration_drift before the loop   *)
(* of apply_schema).                                                       *)
THEOREM GateIsKept == Spec => GateHolds
<1>1. Sound /\ Gated /\ [Next]_vars => GateStepHolds
  <2> SUFFICES ASSUME Sound, Gated, [Next]_vars, NEW f \in Names, applied[f] # <<>>,
                      applied'[f] # applied[f], failFast, ~crossed,
                      history[f] # None, history[f].success
               PROVE  history[f].sum # Last(applied[f])
    BY Zenon DEF GateStepHolds
  <2>1. PICK p \in Procs : Applying(p) /\ Last(applied[f]) # proc[p].files[f]
    BY AppliedOnlyHere DEF Gated
  <2>2. f \notin Drift(proc[p].files)
    BY <2>1 DEF Gated, NoDrift
  <2> QED
    BY <2>1, <2>2 DEF Drift
<1>2. Sound /\ Versions /\ Gated /\ [Next]_vars => Sound' /\ Versions' /\ Gated'
  BY SoundStep, VersionsStep, GatedStep
<1> QED
  BY SoundInit, VersionsInit, GatedInit, <1>1, <1>2, PTL DEF Spec, GateHolds, GateStepHolds

-----------------------------------------------------------------------------
(* The records that no boot has failed to move wait to be moved: none has  *)
(* been edited yet, a process that serves has left none behind, and one in *)
(* the backfill has those of the earlier kinds behind it and those of its  *)
(* kind in hand.                                                           *)
Waiting == Held \ left

HandMoves(h, waiting, held) ==
    /\ h.step = "up" => waiting = {}
    /\ h.step \in {"kind", "save", "delete"} =>
          \A r \in waiting : \A i \in 1..(h.k - 1) : KindOf[r] # Kinds[i]
    /\ h.step \in {"save", "delete"} =>
          /\ RowsOnce(h.rows, held)
          /\ \A r \in waiting : KindOf[r] = Kinds[h.k] =>
                \E i \in 1..Len(h.rows) : h.rows[i][1] = r

Moving ==
    ~crossed =>
        /\ \A r \in Waiting : normal[r] \in {None, 0}
        /\ \A p \in Procs : HandMoves(proc[p], Waiting, Held)

LEMMA MovingInit == Init => Moving
<1> SUFFICES ASSUME Init PROVE Moving
  OBVIOUS
<1>1. \A p \in Procs : proc[p].step = "down"
  BY DownIs DEF Init
<1>2. \A r \in Records : normal[r] = None
  BY DEF Init
<1> QED
  BY <1>1, <1>2 DEF Moving, HandMoves, Waiting, Held

(* A hand that has all the rows of its kind goes on to the first of them,  *)
(* or to the next kind; every record has its kind.                         *)
LEMMA GoesOn ==
    ASSUME NEW h \in HandType, NEW waiting \in SUBSET Records, NEW held,
           RowsOnce(h.rows, held),
           \A r \in waiting : \A i \in 1..(h.k - 1) : KindOf[r] # Kinds[i],
           \A r \in waiting : KindOf[r] = Kinds[h.k] =>
              \E i \in 1..Len(h.rows) : h.rows[i][1] = r
    PROVE  HandMoves(NextRow(h), waiting, held)
<1>1. h.k \in Nat
  BY DEF HandType
<1>2. CASE h.rows # <<>>
  BY <1>2, NextRowIs DEF HandMoves
<1>3. CASE h.rows = <<>>
  <2>1. NextRow(h) = NextKind(h)
    BY <1>3, NextRowIs
  <2>2. \A r \in waiting : KindOf[r] # Kinds[h.k]
    BY <1>3
  <2>3. \A r \in waiting : \A i \in 1..h.k : KindOf[r] # Kinds[i]
    <3>1. \A i \in 1..h.k : i = h.k \/ i \in 1..(h.k - 1)
      BY <1>1
    <3> QED
      BY <2>2, <3>1
  <2>4. CASE h.k = Len(Kinds)
    <3>1. waiting = {}
      <4> SUFFICES ASSUME NEW r \in waiting PROVE FALSE
        OBVIOUS
      <4>1. PICK j \in 1..Len(Kinds) : KindOf[r] = Kinds[j]
        BY OrderAssumption
      <4> QED
        BY <2>3, <2>4, <4>1
    <3>2. NextKind(h).step = "up"
      BY <2>4, NextKindIs
    <3> QED
      BY <2>1, <3>1, <3>2 DEF HandMoves
  <2>5. CASE h.k # Len(Kinds)
    <3>1. NextKind(h).step = "kind" /\ NextKind(h).k = h.k + 1
      BY <2>5, NextKindIs
    <3>2. 1..(NextKind(h).k - 1) = 1..h.k
      BY <1>1, <3>1
    <3> QED
      BY <2>1, <2>3, <3>1, <3>2 DEF HandMoves
  <2> QED
    BY <2>4, <2>5
<1> QED
  BY <1>2, <1>3

(* When the first row is done with, moved or left, the rest is in hand.    *)
LEMMA RestMoves ==
    ASSUME NEW h \in HandType, h.rows # <<>>, h.step \in {"save", "delete"},
           NEW waiting \in SUBSET Records, NEW held, HandMoves(h, waiting, held),
           NEW rest \in SUBSET waiting, Head(h.rows)[1] \notin rest,
           NEW still, \A r \in held : r # Head(h.rows)[1] => r \in still
    PROVE  HandMoves(NextRow([h EXCEPT !.rows = Tail(@)]), rest, still)
<1> DEFINE g == [h EXCEPT !.rows = Tail(@)]
           first == Head(h.rows)[1]
<1>1. g \in HandType /\ g.rows = Tail(h.rows) /\ g.k = h.k /\ h.rows \in Seq(Records \X Nat)
  BY RestIsHand, HandWith DEF HandType
<1>2. /\ \A i \in 1..Len(Tail(h.rows)) : i + 1 \in 1..Len(h.rows)
                                        /\ Tail(h.rows)[i] = h.rows[i + 1]
      /\ \A j \in 1..Len(h.rows) : j = 1 \/ (j - 1 \in 1..Len(Tail(h.rows))
                                          /\ Tail(h.rows)[j - 1] = h.rows[j])
      /\ Head(h.rows) = h.rows[1] /\ 1 \in 1..Len(h.rows)
  BY <1>1, RestIs
<1>3. RowsOnce(h.rows, held)
  BY DEF HandMoves
<1>4. RowsOnce(Tail(h.rows), still)
  <2>1. \A i \in 1..Len(Tail(h.rows)) : Tail(h.rows)[i][1] \in held
    BY <1>2, <1>3 DEF RowsOnce
  <2>2. \A i \in 1..Len(Tail(h.rows)) : Tail(h.rows)[i][1] # first
    <3> SUFFICES ASSUME NEW i \in 1..Len(Tail(h.rows)), Tail(h.rows)[i][1] = first
                 PROVE  FALSE
      OBVIOUS
    <3>1. i + 1 \in 1..Len(h.rows) /\ h.rows[i + 1][1] = h.rows[1][1]
      BY <1>2
    <3>2. i + 1 = 1
      BY <1>2, <1>3, <3>1 DEF RowsOnce
    <3> QED
      BY <3>2
  <2>3. ASSUME NEW i \in 1..Len(Tail(h.rows)), NEW j \in 1..Len(Tail(h.rows)),
               Tail(h.rows)[i][1] = Tail(h.rows)[j][1]
        PROVE  i = j
    <3>1. /\ i + 1 \in 1..Len(h.rows) /\ j + 1 \in 1..Len(h.rows)
          /\ h.rows[i + 1][1] = h.rows[j + 1][1]
      BY <1>2, <2>3
    <3>2. i + 1 = j + 1
      BY <1>3, <3>1 DEF RowsOnce
    <3> QED
      BY <3>2
  <2> QED
    BY <2>1, <2>2, <2>3 DEF RowsOnce
<1>5. \A r \in rest : KindOf[r] = Kinds[h.k] =>
         \E i \in 1..Len(Tail(h.rows)) : Tail(h.rows)[i][1] = r
  <2> SUFFICES ASSUME NEW r \in rest, KindOf[r] = Kinds[h.k]
               PROVE  \E i \in 1..Len(Tail(h.rows)) : Tail(h.rows)[i][1] = r
    OBVIOUS
  <2>1. PICK j \in 1..Len(h.rows) : h.rows[j][1] = r
    BY DEF HandMoves
  <2>2. j # 1
    BY <1>2, <2>1
  <2> QED
    BY <1>2, <2>1, <2>2
<1>6. \A r \in rest : \A i \in 1..(h.k - 1) : KindOf[r] # Kinds[i]
  BY DEF HandMoves
<1> HIDE DEF g
<1>7. HandMoves(NextRow(g), rest, still)
  <2>1. RowsOnce(g.rows, still) /\ rest \in SUBSET Records /\ g \in HandType
    BY <1>1, <1>4
  <2>2. \A r \in rest : KindOf[r] = Kinds[g.k] =>
           \E i \in 1..Len(g.rows) : g.rows[i][1] = r
    BY <1>1, <1>5
  <2>3. \A r \in rest : \A i \in 1..(g.k - 1) : KindOf[r] # Kinds[i]
    BY <1>1, <1>6
  <2> QED
    BY <2>1, <2>2, <2>3, GoesOn
<1> QED
  BY <1>7 DEF g

LEMMA WaitingIs == Waiting \in SUBSET Records /\ Waiting \subseteq Held /\ Held \subseteq Records
BY DEF Waiting, Held

(* The rest of the processes do not boot: what they have left behind stays *)
(* nothing.                                                                *)
LEMMA StepKeepsMoving ==
    ASSUME TypeOK, BootAlone, Moving, NEW p \in Procs, NEW h,
           proc' = [proc EXCEPT ![p] = h], UNCHANGED crossed, Booting(p),
           Waiting' \subseteq Waiting,
           ~crossed => \A r \in Waiting' : normal'[r] \in {None, 0},
           ~crossed => HandMoves(h, Waiting', Held')
    PROVE  Moving'
<1> SUFFICES ASSUME ~crossed, NEW q \in Procs
             PROVE  HandMoves(proc'[q], Waiting', Held')
  BY DEF Moving
<1>1. proc'[p] = h /\ \A x \in Procs \ {p} : proc'[x] = proc[x]
  BY OthersStay
<1>2. CASE q = p
  BY <1>1, <1>2
<1>3. CASE q # p
  <2>1. proc'[q] = proc[q] /\ proc[q].step \in {"down", "up"}
    BY <1>1, <1>3 DEF BootAlone, Booting
  <2>2. proc[q].step = "up" => Waiting = {}
    BY DEF Moving, HandMoves
  <2> QED
    BY <2>1, <2>2 DEF HandMoves
<1> QED
  BY <1>2, <1>3

(* The tables stay as they are, and the hand is not in the backfill.       *)
LEMMA StepBeforeRows ==
    ASSUME TypeOK, BootAlone, Moving, NEW p \in Procs, NEW h,
           proc' = [proc EXCEPT ![p] = h], UNCHANGED crossed, Booting(p),
           UNCHANGED <<legacy, normal, left>>,
           h.step \in {"down", "gate", "apply", "record"} \/ (h.step = "kind" /\ h.k = 1)
    PROVE  Moving'
<1>1. Waiting' = Waiting /\ Held' = Held
  BY DEF Waiting, Held
<1>2. HandMoves(h, Waiting', Held')
  BY DEF HandMoves
<1>3. ~crossed => \A r \in Waiting' : normal'[r] \in {None, 0}
  BY <1>1 DEF Moving
<1> HIDE DEF Moving
<1> QED
  BY <1>1, <1>2, <1>3, StepKeepsMoving

LEMMA FilesMoving ==
    ASSUME Sound, Versions, BootAlone, Moving, NEW p \in Procs, NEW ok \in BOOLEAN,
           Gate(p, ok) \/ ApplyFile(p, ok) \/ Record(p, ok)
    PROVE  Moving'
<1>1. /\ UNCHANGED <<crossed, legacy, normal, left>> /\ Booting(p)
      /\ proc[p].step \in {"gate", "apply", "record"}
  BY DEF Gate, ApplyFile, Record, At, Booting
<1>2. proc[p] \in HandType /\ proc[p].k = 1
  BY <1>1, HandsAre DEF Sound, Versions, HandIsOld
<1>3. CASE Gate(p, ok)
  <2> DEFINE h == IF failFast /\ (~ok \/ Drift(proc[p].files) # {}) THEN Down
                  ELSE [proc[p] EXCEPT !.step = "apply"]
  <2>1. proc' = [proc EXCEPT ![p] = h]
    BY <1>3 DEF Gate
  <2>2. h.step \in {"down", "apply"}
    BY <1>2, DownIs, HandWith
  <2> HIDE DEF h
  <2> QED
    BY <1>1, <2>1, <2>2, StepBeforeRows DEF Sound
<1>4. CASE ApplyFile(p, ok)
  <2> DEFINE set == IF ok THEN proc[p].failed ELSE proc[p].failed \cup {File(p)}
             h == [proc[p] EXCEPT !.step = "record", !.failed = set]
  <2>1. proc' = [proc EXCEPT ![p] = h]
    BY <1>4 DEF ApplyFile
  <2> HIDE DEF set
  <2>2. h.step = "record"
    BY <1>2, HandWith
  <2> HIDE DEF h
  <2> QED
    BY <1>1, <2>1, <2>2, StepBeforeRows DEF Sound
<1>5. CASE Record(p, ok)
  <2> DEFINE n == proc[p].i + 1
             next == [proc[p] EXCEPT !.step = "apply", !.i = n]
             h == IF proc[p].i = Len(Files) THEN FilesDone(proc[p]) ELSE next
  <2>1. proc' = [proc EXCEPT ![p] = h]
    BY <1>5 DEF Record
  <2> HIDE DEF n
  <2>2. next.step = "apply"
    BY <1>2, HandWith
  <2>3. h.step \in {"down", "apply"} \/ (h.step = "kind" /\ h.k = 1)
    BY <1>2, <2>2, FilesDoneIs, DownIs
  <2> HIDE DEF h
  <2> QED
    BY <1>1, <2>1, <2>3, StepBeforeRows DEF Sound
<1> QED
  BY <1>3, <1>4, <1>5

LEMMA ReadMoving ==
    ASSUME Sound, Versions, BootAlone, Moving, NEW p \in Procs, NEW ok \in BOOLEAN,
           ReadKind(p, ok)
    PROVE  Moving'
<1>1. PICK list \in Seq(Records \X Nat) :
         /\ AllRowsOf(Kinds[proc[p].k], list)
         /\ WithRows(p, list) \in HandType
         /\ proc' = [proc EXCEPT ![p] = IF Ended(p, ok) THEN [proc[p] EXCEPT !.step = "up"]
                                       ELSE NextRow(WithRows(p, list))]
  BY ReadRows DEF Sound
<1> DEFINE g == WithRows(p, list)
           up == [proc[p] EXCEPT !.step = "up"]
           h == IF Ended(p, ok) THEN up ELSE NextRow(g)
           kind == Kinds[proc[p].k]
<1>2. /\ UNCHANGED <<crossed, legacy, normal>> /\ Booting(p) /\ proc[p].step = "kind"
      /\ left' = IF ok /\ TableOf[kind] \in tables THEN left ELSE left \cup Held
  BY DEF ReadKind, At, Booting, BackfillKind
<1>3. Held' = Held /\ Waiting' \subseteq Waiting
  BY <1>2 DEF Held, Waiting
<1>4. ~(ok /\ TableOf[kind] \in tables) => Waiting' = {}
  BY <1>2, <1>3 DEF Waiting
<1>5. proc[p] \in HandType /\ up.step = "up" /\ g.rows = list /\ g.k = proc[p].k
  BY HandsAre, HandWith DEF Sound, WithRows
<1> HIDE DEF g
<1>6. ASSUME ~crossed PROVE HandMoves(h, Waiting', Held')
  <2>1. CASE Ended(p, ok)
    <3>1. ~(ok /\ TableOf[kind] \in tables)
      BY <2>1 DEF Ended, BackfillKind
    <3> QED
      BY <1>4, <1>5, <2>1, <3>1 DEF HandMoves
  <2>2. CASE ~Ended(p, ok)
    <3>1. RowsOnce(g.rows, Held)
      BY <1>1, <1>5 DEF AllRowsOf
    <3>2. \A r \in Waiting' : \A i \in 1..(g.k - 1) : KindOf[r] # Kinds[i]
      BY <1>2, <1>3, <1>5, <1>6 DEF Moving, HandMoves
    <3>3. \A r \in Waiting' : KindOf[r] = Kinds[g.k] =>
             \E i \in 1..Len(g.rows) : g.rows[i][1] = r
      <4> SUFFICES ASSUME NEW r \in Waiting', KindOf[r] = Kinds[g.k]
                   PROVE  \E i \in 1..Len(list) : list[i][1] = r
        BY <1>5
      <4>1. TableOf[kind] \in tables /\ r \in Held /\ KindOf[r] = kind
        BY <1>3, <1>4, <1>5, WaitingIs
      <4> QED
        BY <1>1, <4>1 DEF AllRowsOf
    <3>4. g \in HandType /\ Waiting' \in SUBSET Records
      BY <1>1, <1>3, WaitingIs DEF g
    <3> QED
      BY <1>3, <2>2, <3>1, <3>2, <3>3, <3>4, GoesOn
  <2> QED
    BY <2>1, <2>2
<1>7. ~crossed => \A r \in Waiting' : normal'[r] \in {None, 0}
  BY <1>2, <1>3 DEF Moving
<1>8. proc' = [proc EXCEPT ![p] = h]
  BY <1>1 DEF g
<1> HIDE DEF h
<1> QED
  BY <1>2, <1>3, <1>6, <1>7, <1>8, StepKeepsMoving DEF Sound

(* What a kind passed over leaves behind waits for nothing.                *)
LEMMA SkipMoving ==
    ASSUME Sound, BootAlone, Moving, NEW p \in Procs, SkipKind(p)
    PROVE  Moving'
<1> DEFINE h == NextKind(proc[p])
<1>1. /\ UNCHANGED <<crossed, legacy, normal>> /\ Booting(p)
      /\ left' = left \cup Held /\ proc' = [proc EXCEPT ![p] = h]
  BY DEF SkipKind, At, Booting
<1>2. Held' = Held /\ Waiting' = {}
  BY <1>1 DEF Held, Waiting
<1>3. h.step \in {"kind", "up"}
  BY NextKindIs, HandsAre DEF Sound
<1> HIDE DEF h
<1>4. HandMoves(h, Waiting', Held')
  BY <1>2, <1>3 DEF HandMoves
<1> QED
  BY <1>1, <1>2, <1>4, StepKeepsMoving DEF Sound

(* A record that waits is of no version but the old one when it is saved.  *)
LEMMA SaveMoving ==
    ASSUME Sound, Versions, BootAlone, Moving, NEW p \in Procs, NEW ok \in BOOLEAN,
           SaveRow(p, ok)
    PROVE  Moving'
<1> DEFINE row == Head(proc[p].rows)
           saved == ok /\ KeyHolds(row[1])
           h == AfterSave(proc[p], saved)
           rest == [proc[p] EXCEPT !.rows = Tail(@)]
           delete == [proc[p] EXCEPT !.step = "delete"]
<1>1. /\ proc[p] \in HandType /\ proc[p].step = "save" /\ proc[p].rows # <<>>
      /\ proc[p].rows \in Seq(Records \X Nat) /\ HandIsOld(proc[p])
  BY HandsAre DEF Sound, Versions, SaveRow, At
<1>2. /\ UNCHANGED <<crossed, legacy>> /\ Booting(p)
      /\ proc' = [proc EXCEPT ![p] = h]
      /\ normal' = IF saved THEN [normal EXCEPT ![row[1]] = row[2]] ELSE normal
      /\ left' = IF saved THEN left ELSE left \cup {row[1]}
  BY DEF SaveRow, At, Booting
<1>3. row[2] = 0
  BY <1>1, RestIs DEF HandIsOld
<1>4. Held' = Held /\ Waiting' \subseteq Waiting
  BY <1>2 DEF Held, Waiting
<1>5. saved => Waiting' = Waiting
  BY <1>2, <1>4 DEF Waiting
<1>6. ~saved => row[1] \notin Waiting'
  BY <1>2 DEF Waiting
<1>7. h = IF saved THEN delete ELSE NextRow(rest)
  BY DEF AfterSave
<1> HIDE DEF h, saved
<1>8. ASSUME ~crossed PROVE HandMoves(h, Waiting', Held')
  <2>1. HandMoves(proc[p], Waiting, Held)
    BY <1>8 DEF Moving
  <2>2. CASE saved
    <3>1. delete.step = "delete" /\ delete.rows = proc[p].rows /\ delete.k = proc[p].k
      BY <1>1, HandWith
    <3>2. RowsOnce(delete.rows, Held)
      BY <1>1, <2>1, <3>1 DEF HandMoves
    <3>3. HandMoves(delete, Waiting, Held)
      <4> HIDE DEF delete
      <4> QED
        BY <1>1, <2>1, <3>1, <3>2 DEF HandMoves
    <3> QED
      BY <1>4, <1>5, <1>7, <2>2, <3>3
  <2>3. CASE ~saved
    <3>1. row[1] \notin Waiting' /\ Waiting' \in SUBSET Waiting
      BY <1>4, <1>6, <2>3
    <3>2. proc[p].step \in {"save", "delete"} /\ Waiting \in SUBSET Records
      BY <1>1, WaitingIs
    <3>3. HandMoves(NextRow(rest), Waiting', Held)
      BY <1>1, <2>1, <3>1, <3>2, RestMoves
    <3> QED
      BY <1>4, <1>7, <2>3, <3>3
  <2> QED
    BY <2>2, <2>3
<1>9. ~crossed => \A r \in Waiting' : normal'[r] \in {None, 0}
  <2> SUFFICES ASSUME ~crossed, NEW r \in Waiting' PROVE normal'[r] \in {None, 0}
    OBVIOUS
  <2>1. normal[r] \in {None, 0} /\ r \in Records
    BY <1>4, WaitingIs DEF Moving
  <2> HIDE DEF row
  <2> QED
    BY <1>2, <1>3, <2>1 DEF Sound, TypeOK
<1> QED
  BY <1>2, <1>4, <1>8, <1>9, StepKeepsMoving DEF Sound

LEMMA DeleteMoving ==
    ASSUME Sound, Versions, BootAlone, Moving, NEW p \in Procs, NEW ok \in BOOLEAN,
           DeleteRow(p, ok)
    PROVE  Moving'
<1> DEFINE first == Head(proc[p].rows)[1]
           h == NextRow([proc[p] EXCEPT !.rows = Tail(@)])
<1>1. /\ proc[p] \in HandType /\ proc[p].step = "delete" /\ proc[p].rows # <<>>
  BY HandsAre DEF Sound, DeleteRow, At
<1>2. /\ UNCHANGED <<crossed, normal>> /\ Booting(p)
      /\ proc' = [proc EXCEPT ![p] = h]
      /\ legacy' = IF ok THEN [legacy EXCEPT ![first] = None] ELSE legacy
      /\ left' = IF ok THEN left ELSE left \cup {first}
  BY DEF DeleteRow, At, Booting, Deleted
<1>3. legacy \in [Records -> Nat \cup {None}]
  BY DEF Sound, TypeOK
<1>4. Held' \subseteq Held /\ \A r \in Held : r # first => r \in Held'
  <2> HIDE DEF first
  <2> QED
    BY <1>2, <1>3 DEF Held
<1>5. Waiting' \subseteq Waiting /\ first \notin Waiting'
  <2> HIDE DEF first
  <2>1. ok => first \notin Held'
    BY <1>2, <1>3 DEF Held
  <2>2. left \subseteq left'
    BY <1>2
  <2> QED
    BY <1>2, <1>4, <2>1, <2>2 DEF Waiting
<1>6. ASSUME ~crossed PROVE HandMoves(h, Waiting', Held')
  <2>1. HandMoves(proc[p], Waiting, Held)
    BY <1>6 DEF Moving
  <2>2. /\ proc[p].step \in {"save", "delete"} /\ Waiting \in SUBSET Records
        /\ Waiting' \in SUBSET Waiting
    BY <1>1, <1>5, WaitingIs
  <2> QED
    BY <1>1, <1>4, <1>5, <2>1, <2>2, RestMoves
<1>7. ~crossed => \A r \in Waiting' : normal'[r] \in {None, 0}
  BY <1>2, <1>5 DEF Moving
<1> HIDE DEF h
<1> QED
  BY <1>2, <1>5, <1>6, <1>7, StepKeepsMoving DEF Sound

(* A crash of a boot leaves what it had not moved; an edit needs a process *)
(* that serves, which has left nothing to wait.                            *)
LEMMA AroundMoving ==
    ASSUME Sound, Versions, BootAlone, Moving,
           \/ \E p \in Procs : Boot(p) \/ Crash(p)
           \/ \E p \in Procs, r \in Records : Edit(p, r)
           \/ \E f \in Names : Release(f)
    PROVE  Moving'
<1>1. ASSUME NEW p \in Procs, Boot(p) PROVE Moving'
  <2>1. /\ UNCHANGED <<legacy, normal, left>> /\ (crossed => crossed')
        /\ proc' = [proc EXCEPT ![p] = [Down EXCEPT !.step = "gate"]]
    BY <1>1 DEF Boot
  <2>2. Waiting' = Waiting /\ Held' = Held
    BY <2>1 DEF Waiting, Held
  <2>3. /\ proc'[p] = [Down EXCEPT !.step = "gate"]
        /\ \A q \in Procs \ {p} : proc'[q] = proc[q]
    BY <2>1, OthersStay DEF Sound
  <2>4. HandMoves(proc'[p], Waiting', Held')
    BY <2>3, DownIs DEF HandMoves
  <2> QED
    BY <2>1, <2>2, <2>3, <2>4 DEF Moving
<1>2. ASSUME NEW p \in Procs, Crash(p) PROVE Moving'
  <2>1. /\ UNCHANGED <<legacy, normal, crossed>> /\ proc' = [proc EXCEPT ![p] = Down]
        /\ left' = IF Booting(p) THEN left \cup Held ELSE left
    BY <1>2 DEF Crash
  <2>2. Held' = Held /\ Waiting' = (IF Booting(p) THEN {} ELSE Waiting)
    BY <2>1 DEF Held, Waiting
  <2>3. HandMoves(Down, Waiting', Held')
    BY DownIs DEF HandMoves
  <2>4. CASE Booting(p)
    <3>1. Waiting' \subseteq Waiting /\ \A r \in Waiting' : normal'[r] \in {None, 0}
      BY <2>2, <2>4
    <3> QED
      BY <2>1, <2>3, <2>4, <3>1, StepKeepsMoving DEF Sound
  <2>5. CASE ~Booting(p)
    <3>1. proc'[p] = Down /\ \A q \in Procs \ {p} : proc'[q] = proc[q]
      BY <2>1, OthersStay DEF Sound
    <3> QED
      BY <2>1, <2>2, <2>3, <2>5, <3>1 DEF Moving
  <2> QED
    BY <2>4, <2>5
<1>3. ASSUME NEW p \in Procs, NEW r \in Records, Edit(p, r) PROVE Moving'
  <2>1. UNCHANGED <<legacy, left, proc, crossed>> /\ proc[p].step = "up"
    BY <1>3 DEF Edit, At
  <2>2. Waiting' = Waiting /\ Held' = Held
    BY <2>1 DEF Waiting, Held
  <2>3. ~crossed => Waiting = {}
    BY <2>1 DEF Moving, HandMoves
  <2> QED
    BY <2>1, <2>2, <2>3 DEF Moving
<1>4. ASSUME NEW f \in Names, Release(f) PROVE Moving'
  <2>1. UNCHANGED <<legacy, normal, left, proc, crossed>>
    BY <1>4 DEF Release
  <2>2. Waiting' = Waiting /\ Held' = Held
    BY <2>1 DEF Waiting, Held
  <2> QED
    BY <2>1, <2>2 DEF Moving
<1> QED
  BY <1>1, <1>2, <1>3, <1>4

LEMMA MovingStep ==
    ASSUME Sound, Versions, Gated, Moving, [Next]_vars
    PROVE  Moving'
<1>1. BootAlone
  BY DEF Gated
<1>2. CASE UNCHANGED vars
  <2>1. UNCHANGED <<legacy, normal, left, proc, crossed>>
    BY <1>2 DEF vars
  <2>2. Waiting' = Waiting /\ Held' = Held
    BY <2>1 DEF Waiting, Held
  <2> QED
    BY <2>1, <2>2 DEF Moving
<1>3. CASE Next
  BY <1>1, <1>3, FilesMoving, ReadMoving, SkipMoving, SaveMoving, DeleteMoving,
     AroundMoving DEF Next, Step
<1> QED
  BY <1>2, <1>3

NewerStepKept ==
    \A r \in Records : normal[r] # None /\ normal'[r] # None /\ normal'[r] < normal[r]
        => crossed \/ r \in left

(* A record edited since the upgrade is never set back by a later boot,    *)
(* unless an earlier boot could not move it or two overlapped              *)
(* (_backfill_governance_normalized saves over what the table holds).      *)
THEOREM NewerRecordsStay == Spec => NewerKept
<1>1. Sound /\ Versions /\ Gated /\ Moving /\ [Next]_vars => NewerStepKept
  <2> SUFFICES ASSUME Sound, Versions, Moving, [Next]_vars, NEW r \in Records,
                      normal[r] # None, normal'[r] # None, normal'[r] < normal[r],
                      ~crossed, r \notin left
               PROVE  FALSE
    BY Zenon DEF NewerStepKept
  <2>1. normal[r] \in 0..faults.edits /\ faults.edits \in Nat /\ normal'[r] # normal[r]
    BY DEF Versions, Sound, TypeOK
  <2>2. \/ \E p \in Procs : \E ok \in BOOLEAN : SaveRow(p, ok)
        \/ \E p \in Procs, x \in Records : Edit(p, x)
    <3>1. ASSUME NEW p \in Procs, NEW ok \in BOOLEAN,
                 \/ Boot(p) \/ SkipKind(p) \/ Crash(p) \/ Gate(p, ok) \/ ApplyFile(p, ok)
                 \/ Record(p, ok) \/ ReadKind(p, ok) \/ DeleteRow(p, ok)
          PROVE  normal' = normal
      BY <3>1 DEF Boot, SkipKind, Crash, Gate, ApplyFile, Record, ReadKind, DeleteRow
    <3>2. ASSUME (\E f \in Names : Release(f)) \/ UNCHANGED vars PROVE normal' = normal
      BY <3>2 DEF Release, vars
    <3> QED
      BY <2>1, <3>1, <3>2 DEF Next, Step
  <2>3. CASE \E p \in Procs : \E ok \in BOOLEAN : SaveRow(p, ok)
    <3>1. PICK p \in Procs, ok \in BOOLEAN : SaveRow(p, ok)
      BY <2>3
    <3> DEFINE row == Head(proc[p].rows)
    <3>2. /\ proc[p].step = "save" /\ proc[p].rows # <<>>
          /\ proc[p].rows \in Seq(Records \X Nat) /\ HandIsOld(proc[p])
      BY <3>1, HandsAre DEF Sound, Versions, SaveRow, At
    <3>3. RowsOnce(proc[p].rows, Held)
      BY <3>2 DEF Moving, HandMoves
    <3>4. row[1] \in Held /\ row[2] = 0
      BY <3>2, <3>3, RestIs DEF RowsOnce, HandIsOld
    <3>5. normal' = normal \/ normal' = [normal EXCEPT ![row[1]] = row[2]]
      BY <3>1 DEF SaveRow
    <3> HIDE DEF row
    <3>6. r = row[1]
      BY <2>1, <3>5 DEF Sound, TypeOK
    <3>7. normal[r] \in {None, 0}
      BY <3>4, <3>6 DEF Moving, Waiting
    <3>8. normal[r] = 0 /\ normal'[r] = 0
      BY <2>1, <3>4, <3>5, <3>6, <3>7 DEF Sound, TypeOK
    <3> QED
      BY <3>8
  <2>4. CASE \E p \in Procs, x \in Records : Edit(p, x)
    <3>1. PICK x \in Records : normal' = [normal EXCEPT ![x] = faults.edits + 1]
      BY <2>4 DEF Edit
    <3>2. normal'[r] = faults.edits + 1
      BY <2>1, <3>1 DEF Sound, TypeOK
    <3> QED
      BY <2>1, <3>2
  <2> QED
    BY <2>2, <2>3, <2>4
<1>2. /\ Init => Sound /\ Versions /\ Gated /\ Moving
      /\ Sound /\ Versions /\ Gated /\ Moving /\ [Next]_vars
         => Sound' /\ Versions' /\ Gated' /\ Moving'
  BY SoundInit, VersionsInit, GatedInit, MovingInit, SoundStep, VersionsStep, GatedStep, MovingStep
<1> QED
  BY <1>1, <1>2, PTL DEF Spec, NewerKept, NewerStepKept

=============================================================================
