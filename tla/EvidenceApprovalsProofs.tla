---------------------- MODULE EvidenceApprovalsProofs ----------------------
(***************************************************************************)
(* Proofs about EvidenceApprovals, for any reviewers, records, contents    *)
(* and number of rows.                                                     *)
(***************************************************************************)
EXTENDS EvidenceApprovals, SequenceTheorems, WellFoundedInduction, TLAPS

-----------------------------------------------------------------------------
(* What may be read of the evidence, and the contents it is decided on.    *)
Records == [id : Ids, body : Bodies, stamped : BOOLEAN]
Contents == {Hash(set) : set \in SUBSET Records}

(* A row still has the status it was inserted with, or it was superseded.  *)
Rows ==
    {r \in [content : Contents, made : Statuses, status : Statuses, prev : Nat] :
        r.status \in {r.made, "superseded"}}

ReviewedIn(rows, content) ==
    \E j \in 1..Len(rows) : rows[j].made = "reviewed" /\ rows[j].content = content

Handlers ==
    {NoOp}
    \cup [step : {"load"}, seen : SUBSET Records]
    \cup [step : {"save"}, row : Rows, seen : SUBSET Records, old : SUBSET Nat]
    \cup [step : {"supersede"}, old : SUBSET Nat]

TypeOK ==
    /\ evidence \in SUBSET Records
    /\ approvals \in Seq(Rows)
    /\ op \in [Workers -> Handlers]

(* The row of a handler on its way to the table was decided on the rows    *)
(* that were there; rows are added since, and never taken away.            *)
PendingReviewed ==
    \A w \in Workers : At(w, "save") /\ op[w].row.made = "approved" =>
        ReviewedIn(approvals, op[w].row.content)

Sound == TypeOK /\ PendingReviewed /\ ApprovedWasReviewed

-----------------------------------------------------------------------------
(* A status that may be approved is the one of the latest row, made for    *)
(* the same content (can_transition, _current_approval_status).            *)
LEMMA ApprovalNeedsReview ==
    ASSUME NEW rows \in Seq(Rows), NEW now,
           CanTransition(CurrentStatus(rows, now), "approved")
    PROVE  ReviewedIn(rows, now)
<1>1. CurrentStatus(rows, now) = "reviewed"
  BY DEF CanTransition
<1>2. /\ rows # <<>>
      /\ rows[Len(rows)].content = now
      /\ rows[Len(rows)].status = "reviewed"
  BY <1>1 DEF CurrentStatus
<1>3. Len(rows) \in 1..Len(rows)
  BY <1>2
<1>4. rows[Len(rows)] \in Rows
  BY <1>3
<1>5. rows[Len(rows)].made = "reviewed"
  BY <1>2, <1>4 DEF Rows
<1> QED
  BY <1>2, <1>3, <1>5 DEF ReviewedIn

(* A table that keeps its rows, apart from their status, and may have more *)
(* still shows the reviews it showed.                                      *)
LEMMA ReviewsStay ==
    ASSUME NEW rows \in Seq(Rows), NEW more \in Seq(Rows), NEW content,
           Len(rows) <= Len(more),
           \A j \in 1..Len(rows) : /\ more[j].made = rows[j].made
                                   /\ more[j].content = rows[j].content,
           ReviewedIn(rows, content)
    PROVE  ReviewedIn(more, content)
BY DEF ReviewedIn

-----------------------------------------------------------------------------
(* What each step does to the rows. *)

LEMMA InsertFacts ==
    ASSUME NEW rows \in Seq(Rows), NEW r \in Rows
    PROVE  /\ Inserted(rows, r) \in Seq(Rows)
           /\ Len(Inserted(rows, r)) = Len(rows) + 1
           /\ Inserted(rows, r)[Len(rows) + 1] = r
           /\ \A j \in 1..Len(rows) : Inserted(rows, r)[j] = rows[j]
BY AppendProperties DEF Inserted

LEMMA SupersedeFacts ==
    ASSUME NEW rows \in Seq(Rows), NEW i
    PROVE  LET new == [rows EXCEPT ![i].status = "superseded"]
           IN  /\ new \in Seq(Rows)
               /\ Len(new) = Len(rows)
               /\ \A j \in 1..Len(rows) :
                     new[j].made = rows[j].made /\ new[j].content = rows[j].content
<1> DEFINE new == [rows EXCEPT ![i].status = "superseded"]
<1>1. /\ Len(rows) \in Nat
      /\ DOMAIN rows = 1..Len(rows)
      /\ \A j \in 1..Len(rows) : rows[j] \in Rows
  OBVIOUS
<1>2. DOMAIN new = 1..Len(rows)
  BY <1>1
<1>3. \A j \in 1..Len(rows) :
         new[j] = IF j = i THEN [rows[j] EXCEPT !.status = "superseded"] ELSE rows[j]
  BY <1>1
<1>4. \A r \in Rows : /\ [r EXCEPT !.status = "superseded"] \in Rows
                      /\ [r EXCEPT !.status = "superseded"].made = r.made
                      /\ [r EXCEPT !.status = "superseded"].content = r.content
  BY DEF Rows, Statuses
<1>5. \A j \in 1..Len(rows) : new[j] \in Rows
  BY <1>1, <1>3, <1>4
<1>6. new \in [1..Len(rows) -> Rows]
  BY <1>2, <1>5
<1>7. new \in Seq(Rows) /\ Len(new) = Len(rows)
  BY <1>1, <1>6
<1> QED
  BY <1>1, <1>3, <1>4, <1>7

-----------------------------------------------------------------------------
THEOREM SoundInit == Init => Sound
<1> SUFFICES ASSUME Init PROVE Sound
  OBVIOUS
<1>1. TypeOK
  BY DEF Init, TypeOK, Handlers
<1>2. PendingReviewed
  BY DEF Init, PendingReviewed, At
<1>3. ApprovedWasReviewed
  BY DEF Init, ApprovedWasReviewed
<1> QED
  BY <1>1, <1>2, <1>3 DEF Sound

(* Steps that leave the rows alone and put no handler on the way to them.  *)
LEMMA QuietStep ==
    ASSUME Sound, approvals' = approvals, TypeOK',
           \A w \in Workers : At(w, "save")' => At(w, "save") /\ op'[w] = op[w]
    PROVE  Sound'
BY DEF Sound, PendingReviewed, ApprovedWasReviewed, At, ReviewedIn

(* Writing and deleting evidence, and a restart, decide nothing.           *)
LEMMA EvidenceStep ==
    ASSUME Sound,
           \/ \E id \in Ids, body \in Bodies : PutEvidence(id, body)
           \/ \E id \in Ids : DeleteEvidence(id)
           \/ Restart
    PROVE  Sound'
<1>1. /\ approvals' = approvals
      /\ evidence' \in SUBSET Records
      /\ op' = op \/ op' = [w \in Workers |-> NoOp]
  <2>1. evidence \in SUBSET Records
    BY DEF Sound, TypeOK
  <2>2. CASE \E id \in Ids, body \in Bodies : PutEvidence(id, body)
    <3>1. PICK id \in Ids, body \in Bodies : PutEvidence(id, body)
      BY <2>2
    <3>2. [id |-> id, body |-> body, stamped |-> TRUE] \in Records
      BY DEF Records
    <3>3. Without(id) \in SUBSET Records
      BY <2>1 DEF Without
    <3> QED
      BY <3>1, <3>2, <3>3 DEF PutEvidence
  <2>3. CASE \E id \in Ids : DeleteEvidence(id)
    BY <2>1, <2>3 DEF DeleteEvidence, Without
  <2>4. CASE Restart
    <3>1. \A r \in Records : [r EXCEPT !.stamped = FALSE] \in Records
      BY DEF Records
    <3>2. evidence' \in SUBSET Records
      BY <2>1, <2>4, <3>1 DEF Restart
    <3> QED
      BY <2>4, <3>2 DEF Restart
  <2> QED
    BY <2>2, <2>3, <2>4
<1>2. TypeOK'
  BY <1>1 DEF Sound, TypeOK, Handlers
<1>3. \A w \in Workers : At(w, "save")' => At(w, "save") /\ op'[w] = op[w]
  BY <1>1 DEF At
<1> QED
  BY <1>1, <1>2, <1>3, QuietStep

(* What a handler in hand is, by its step.                                 *)
LEMMA HandlerForms ==
    ASSUME TypeOK, NEW w \in Workers
    PROVE  /\ At(w, "load") => op[w].seen \in SUBSET Records
           /\ At(w, "save") => op[w].row \in Rows /\ op[w].old \in SUBSET Nat
           /\ At(w, "supersede") => op[w].old \in SUBSET Nat
<1>1. op[w] \in Handlers
  BY DEF TypeOK
<1> QED
  BY <1>1 DEF Handlers, At

(* A handler that reads the evidence, or is cut short.                     *)
LEMMA ReadOrCut ==
    ASSUME Sound, NEW w \in Workers, ReadEvidence(w) \/ CutShort(w)
    PROVE  Sound'
<1>1. PICK h \in {NoOp} \cup [step : {"load"}, seen : SUBSET Records] :
         op' = [op EXCEPT ![w] = h]
  <2>1. CASE CutShort(w)
    BY <2>1 DEF CutShort
  <2>2. CASE ReadEvidence(w)
    BY <2>2 DEF ReadEvidence, Sound, TypeOK
  <2> QED
    BY <2>1, <2>2
<1>2. approvals' = approvals /\ evidence' = evidence
  BY DEF ReadEvidence, CutShort
<1>3. h \in Handlers
  BY DEF Handlers
<1>4. TypeOK'
  BY <1>1, <1>2, <1>3 DEF Sound, TypeOK
<1>5. \A v \in Workers : op'[v] = IF v = w THEN h ELSE op[v]
  BY <1>1 DEF Sound, TypeOK
<1>6. h # NoOp => h.step = "load"
  OBVIOUS
<1>7. \A v \in Workers : At(v, "save")' => At(v, "save") /\ op'[v] = op[v]
  BY <1>5, <1>6 DEF At
<1> QED
  BY <1>2, <1>4, <1>7, QuietStep

(* A decision: the row it makes is whole, and one that approves follows a  *)
(* review of the same content (evidence_transition).                       *)
LEMMA DecideStep ==
    ASSUME Sound, NEW w \in Workers, NEW target \in Statuses, Decide(w, target)
    PROVE  Sound'
<1> DEFINE now == Hash(op[w].seen)
           row == Row(now, target, Previous(approvals))
           old == IF Replaces(target) THEN Replaced(approvals, now) ELSE {}
           saving == [step |-> "save", row |-> row, seen |-> op[w].seen, old |-> old]
           goes == CanTransition(CurrentStatus(approvals, now), target)
           h == IF goes THEN saving ELSE NoOp
<1>1. /\ TypeOK
      /\ approvals \in Seq(Rows)
      /\ At(w, "load")
      /\ op[w].seen \in SUBSET Records
  BY HandlerForms DEF Sound, TypeOK, Decide
<1>2. op' = [op EXCEPT ![w] = h]
  BY DEF Decide
<1>3. row \in Rows
  <2>1. now \in Contents
    BY <1>1 DEF Contents
  <2>2. Previous(approvals) \in Nat
    BY <1>1 DEF Previous
  <2> HIDE DEF now
  <2> QED
    BY <2>1, <2>2 DEF Row, Rows
<1>4. old \in SUBSET Nat
  BY <1>1 DEF Replaced
<1>5. row.content = now /\ row.made = target
  BY DEF Row
<1>6. goes /\ target = "approved" => ReviewedIn(approvals, now)
  BY <1>1, ApprovalNeedsReview
<1> HIDE DEF now, row, old, goes
<1>7. h \in Handlers
  BY <1>1, <1>3, <1>4 DEF Handlers
<1>8. evidence' = evidence /\ approvals' = approvals
  BY DEF Decide
<1>9. \A v \in Workers : op'[v] = IF v = w THEN h ELSE op[v]
  BY <1>1, <1>2 DEF TypeOK
<1>10. h # NoOp => goes /\ h.row = row
  OBVIOUS
<1> HIDE DEF h
<1>11. TypeOK'
  BY <1>1, <1>2, <1>7, <1>8 DEF TypeOK
<1>12. PendingReviewed'
  <2> SUFFICES ASSUME NEW v \in Workers, At(v, "save")', op'[v].row.made = "approved"
               PROVE  ReviewedIn(approvals, op'[v].row.content)
    BY <1>8 DEF PendingReviewed, ReviewedIn
  <2>1. CASE v = w
    BY <2>1, <1>5, <1>6, <1>9, <1>10 DEF At
  <2>2. CASE v # w
    BY <2>2, <1>9 DEF Sound, PendingReviewed, At
  <2> QED
    BY <2>1, <2>2
<1>13. ApprovedWasReviewed'
  BY <1>8 DEF Sound, ApprovedWasReviewed
<1> QED
  BY <1>11, <1>12, <1>13 DEF Sound

(* The row arrives: what it needs is still in the table.                   *)
LEMMA SaveStep ==
    ASSUME Sound, NEW w \in Workers, SaveApproval(w)
    PROVE  Sound'
<1> DEFINE row == op[w].row
           h == IF op[w].old = {} THEN NoOp ELSE [step |-> "supersede", old |-> op[w].old]
<1>1. /\ TypeOK
      /\ approvals \in Seq(Rows)
      /\ At(w, "save")
      /\ row \in Rows
      /\ op[w].old \in SUBSET Nat
  BY HandlerForms DEF Sound, TypeOK, SaveApproval
<1>2. /\ approvals' = Inserted(approvals, row)
      /\ op' = [op EXCEPT ![w] = h]
      /\ evidence' = evidence
  BY DEF SaveApproval
<1>3. row.made = "approved" => ReviewedIn(approvals, row.content)
  BY <1>1 DEF Sound, PendingReviewed
<1> HIDE DEF row
<1>4. /\ approvals' \in Seq(Rows)
      /\ Len(approvals') = Len(approvals) + 1
      /\ approvals'[Len(approvals) + 1] = row
      /\ \A j \in 1..Len(approvals) : approvals'[j] = approvals[j]
  BY <1>1, <1>2, InsertFacts
<1>5. h \in Handlers /\ (h # NoOp => h.step = "supersede")
  BY <1>1 DEF Handlers
<1> HIDE DEF h
<1>6. TypeOK'
  BY <1>1, <1>2, <1>4, <1>5 DEF TypeOK
<1>7. \A v \in Workers : At(v, "save")' => At(v, "save") /\ op'[v] = op[v]
  BY <1>1, <1>2, <1>5 DEF At, TypeOK
<1>8. Len(approvals) \in Nat
  BY <1>1
<1>9. \A content : ReviewedIn(approvals, content) => ReviewedIn(approvals', content)
  BY <1>1, <1>4, <1>8, ReviewsStay
<1>10. PendingReviewed'
  <2> SUFFICES ASSUME NEW v \in Workers, At(v, "save")', op'[v].row.made = "approved"
               PROVE  ReviewedIn(approvals', op'[v].row.content)
    BY DEF PendingReviewed, ReviewedIn
  <2>1. At(v, "save") /\ op'[v] = op[v]
    BY <1>7
  <2>2. ReviewedIn(approvals, op'[v].row.content)
    BY <2>1 DEF Sound, PendingReviewed
  <2> QED
    BY <2>2, <1>9
<1>11. ApprovedWasReviewed'
  <2> SUFFICES ASSUME NEW i \in 1..Len(approvals'), approvals'[i].made = "approved"
               PROVE  \E j \in 1..(i - 1) : /\ approvals'[j].made = "reviewed"
                                            /\ approvals'[j].content = approvals'[i].content
    BY DEF ApprovedWasReviewed
  <2>1. CASE i \in 1..Len(approvals)
    <3>1. PICK j \in 1..(i - 1) : /\ approvals[j].made = "reviewed"
                                  /\ approvals[j].content = approvals[i].content
      BY <2>1, <1>4 DEF Sound, ApprovedWasReviewed
    <3>2. j \in 1..Len(approvals)
      BY <2>1, <1>8
    <3> QED
      BY <3>1, <3>2, <2>1, <1>4
  <2>2. CASE i = Len(approvals) + 1
    <3>1. PICK j \in 1..Len(approvals) : /\ approvals[j].made = "reviewed"
                                         /\ approvals[j].content = row.content
      BY <2>2, <1>3, <1>4 DEF ReviewedIn
    <3>2. j \in 1..(i - 1)
      BY <2>2, <1>8
    <3> QED
      BY <3>1, <3>2, <2>2, <1>4
  <2> QED
    BY <2>1, <2>2, <1>4, <1>8
<1> QED
  BY <1>6, <1>10, <1>11 DEF Sound

(* A supersession changes the status of a row and nothing else.            *)
LEMMA SupersedeStep ==
    ASSUME Sound, NEW w \in Workers, Supersede(w)
    PROVE  Sound'
<1> DEFINE i == Max(op[w].old)
           left == op[w].old \ {i}
           h == IF left = {} THEN NoOp ELSE [step |-> "supersede", old |-> left]
<1>1. /\ TypeOK
      /\ approvals \in Seq(Rows)
      /\ op[w].old \in SUBSET Nat
  BY HandlerForms DEF Sound, TypeOK, Supersede
<1>2. /\ approvals' = [approvals EXCEPT ![i].status = "superseded"]
      /\ op' = [op EXCEPT ![w] = h]
      /\ evidence' = evidence
  BY DEF Supersede
<1>3. h \in Handlers /\ (h # NoOp => h.step = "supersede")
  BY <1>1 DEF Handlers
<1> HIDE DEF i, left, h
<1>4. /\ approvals' \in Seq(Rows)
      /\ Len(approvals') = Len(approvals)
      /\ \A j \in 1..Len(approvals) : /\ approvals'[j].made = approvals[j].made
                                      /\ approvals'[j].content = approvals[j].content
  BY <1>1, <1>2, SupersedeFacts
<1>5. TypeOK'
  BY <1>1, <1>2, <1>3, <1>4 DEF TypeOK
<1>6. \A v \in Workers : At(v, "save")' => At(v, "save") /\ op'[v] = op[v]
  BY <1>1, <1>2, <1>3 DEF At, TypeOK
<1>7. Len(approvals) \in Nat
  BY <1>1
<1>8. \A content : ReviewedIn(approvals, content) => ReviewedIn(approvals', content)
  BY <1>1, <1>4, <1>7, ReviewsStay
<1>9. PendingReviewed'
  <2> SUFFICES ASSUME NEW v \in Workers, At(v, "save")', op'[v].row.made = "approved"
               PROVE  ReviewedIn(approvals', op'[v].row.content)
    BY DEF PendingReviewed, ReviewedIn
  <2>1. At(v, "save") /\ op'[v] = op[v]
    BY <1>6
  <2>2. ReviewedIn(approvals, op'[v].row.content)
    BY <2>1 DEF Sound, PendingReviewed
  <2> QED
    BY <2>2, <1>8
<1>10. ApprovedWasReviewed'
  <2> SUFFICES ASSUME NEW k \in 1..Len(approvals), approvals[k].made = "approved"
               PROVE  \E j \in 1..(k - 1) : /\ approvals'[j].made = "reviewed"
                                            /\ approvals'[j].content = approvals'[k].content
    BY <1>4 DEF ApprovedWasReviewed
  <2>1. PICK j \in 1..(k - 1) : /\ approvals[j].made = "reviewed"
                                /\ approvals[j].content = approvals[k].content
    BY DEF Sound, ApprovedWasReviewed
  <2>2. j \in 1..Len(approvals)
    BY <1>7
  <2> QED
    BY <2>1, <2>2, <1>4
<1> QED
  BY <1>5, <1>9, <1>10 DEF Sound

-----------------------------------------------------------------------------
THEOREM SoundStep == Sound /\ [Next]_vars => Sound'
<1> SUFFICES ASSUME Sound, [Next]_vars PROVE Sound'
  OBVIOUS
<1>1. CASE \/ \E id \in Ids, body \in Bodies : PutEvidence(id, body)
           \/ \E id \in Ids : DeleteEvidence(id)
           \/ Restart
  BY <1>1, EvidenceStep
<1>2. ASSUME NEW w \in Workers, NEW target \in Statuses, Decide(w, target)
      PROVE  Sound'
  BY <1>2, DecideStep
<1>3. ASSUME NEW w \in Workers, ReadEvidence(w) \/ CutShort(w)
      PROVE  Sound'
  BY <1>3, ReadOrCut
<1>4. ASSUME NEW w \in Workers, SaveApproval(w)
      PROVE  Sound'
  BY <1>4, SaveStep
<1>5. ASSUME NEW w \in Workers, Supersede(w)
      PROVE  Sound'
  BY <1>5, SupersedeStep
<1>6. CASE UNCHANGED vars
  <2>1. evidence' = evidence /\ approvals' = approvals /\ op' = op
    BY <1>6 DEF vars
  <2>2. TypeOK' /\ \A w \in Workers : At(w, "save")' => At(w, "save") /\ op'[w] = op[w]
    BY <2>1 DEF Sound, TypeOK, At
  <2> QED
    BY <2>1, <2>2, QuietStep
<1> QED
  BY <1>1, <1>2, <1>3, <1>4, <1>5, <1>6 DEF Next

(* Whatever interleaves, is cut short or restarts, and whenever evidence   *)
(* changes under a request, a content that was approved had been reviewed  *)
(* (evidence_transition).                                                  *)
THEOREM ApprovalsWereReviewed == Spec => []ApprovedWasReviewed
<1>1. Sound => ApprovedWasReviewed
  BY DEF Sound
<1> QED
  BY SoundInit, SoundStep, <1>1, PTL DEF Spec

-----------------------------------------------------------------------------
(* The largest of some numbers up to n is one of them: the row that a      *)
(* supersession marks first is a row it loaded.                            *)
LEMMA MaxIsIn ==
    ASSUME NEW n \in Nat, NEW S \in SUBSET (1..n), S # {}
    PROVE  Max(S) \in S /\ \A x \in S : Max(S) >= x
<1> DEFINE T == {n - x : x \in S}
           Less == {ss \in Nat \X Nat : ss[1] < ss[2]}
<1>1. T \subseteq Nat /\ T # {}
  <2>1. \A x \in S : n - x \in Nat
    OBVIOUS
  <2> QED
    BY <2>1
<1>2. IsWellFoundedOn(Less, Nat)
  <2>1. Less = OpToRel(<, Nat)
    BY DEF OpToRel
  <2> QED
    BY <2>1, NatLessThanWellFounded
<1>3. PICK m \in T : \A y \in T : <<y, m>> \notin Less
  <2> HIDE DEF T, Less
  <2> QED
    BY <1>1, <1>2, WFMin
<1>4. \A y \in T : y >= m
  <2>1. \A y, z \in Nat : y < z => <<y, z>> \in Less
    OBVIOUS
  <2> HIDE DEF T, Less
  <2>2. \A y \in T : y \in Nat /\ m \in Nat /\ ~(y < m)
    BY <1>1, <1>3, <2>1
  <2> QED
    BY <2>2
<1>5. \E x \in S : \A y \in S : x >= y
  <2>1. PICK x \in S : m = n - x
    OBVIOUS
  <2>2. \A y \in S : n - y \in T
    OBVIOUS
  <2>3. \A y \in S : n - y >= n - x
    BY <1>4, <2>1, <2>2
  <2> QED
    BY <2>3
<1> QED
  BY <1>5 DEF Max

-----------------------------------------------------------------------------
(* What each step of a handler changes, said once. *)

Others(w) == \A v \in Workers \ {w} : op'[v] = op[v]

LEMMA ReadFacts ==
    ASSUME TypeOK, NEW w \in Workers, ReadEvidence(w)
    PROVE  /\ Others(w)
           /\ op'[w].step = "load" /\ op'[w].seen = evidence
           /\ ~crossed' => ~crossed /\ \A v \in Workers : op[v] = NoOp
           /\ UNCHANGED <<evidence, approvals, cut, said>>
<1>1. op' = [op EXCEPT ![w] = [step |-> "load", seen |-> evidence]]
  BY DEF ReadEvidence
<1>2. crossed' = (crossed \/ \E v \in Workers : op[v] # NoOp)
  BY DEF ReadEvidence
<1>3. ~crossed' => ~crossed /\ \A v \in Workers : op[v] = NoOp
  BY <1>2, Zenon
<1> QED
  BY <1>1, <1>3 DEF ReadEvidence, TypeOK, Others

LEMMA DecideFacts ==
    ASSUME TypeOK, NEW w \in Workers, NEW target \in Statuses, Decide(w, target)
    PROVE  LET now == Hash(op[w].seen) IN
           /\ At(w, "load")
           /\ Others(w)
           /\ \/ op'[w] = NoOp
              \/ /\ CanTransition(CurrentStatus(approvals, now), target)
                 /\ op'[w].step = "save"
                 /\ op'[w].row.content = now
                 /\ op'[w].row.made = target /\ op'[w].row.status = target
                 /\ op'[w].seen = op[w].seen
                 /\ op'[w].old = IF Replaces(target) THEN Replaced(approvals, now) ELSE {}
           /\ UNCHANGED <<evidence, approvals, crossed, cut, said>>
<1> DEFINE now == Hash(op[w].seen)
           row == Row(now, target, Previous(approvals))
           old == IF Replaces(target) THEN Replaced(approvals, now) ELSE {}
           goes == CanTransition(CurrentStatus(approvals, now), target)
           h == IF goes THEN [step |-> "save", row |-> row, seen |-> op[w].seen, old |-> old]
                ELSE NoOp
<1>1. /\ At(w, "load") /\ op' = [op EXCEPT ![w] = h]
      /\ UNCHANGED <<evidence, approvals, crossed, cut, said>>
  BY DEF Decide
<1>2. row.content = now /\ row.made = target /\ row.status = target
  BY DEF Row
<1> HIDE DEF row, old, goes, now
<1>3. \/ h = NoOp
      \/ goes /\ h.step = "save" /\ h.row = row /\ h.seen = op[w].seen /\ h.old = old
  OBVIOUS
<1> HIDE DEF h
<1>4. Others(w) /\ op'[w] = h
  BY <1>1 DEF TypeOK, Others
<1> QED
  BY <1>1, <1>2, <1>3, <1>4 DEF goes, old, now

LEMMA SaveFacts ==
    ASSUME TypeOK, NEW w \in Workers, SaveApproval(w)
    PROVE  /\ At(w, "save") /\ Others(w)
           /\ op[w].row \in Rows /\ op[w].old \in SUBSET Nat
           /\ \/ op[w].old = {} /\ op'[w] = NoOp
              \/ /\ op[w].old # {}
                 /\ op'[w] # NoOp
                 /\ op'[w].step = "supersede" /\ op'[w].old = op[w].old
           /\ Len(approvals) \in Nat
           /\ Len(approvals') = Len(approvals) + 1
           /\ approvals'[Len(approvals) + 1] = op[w].row
           /\ \A j \in 1..Len(approvals) : approvals'[j] = approvals[j]
           /\ said' = Said(op[w].seen)
           /\ UNCHANGED <<evidence, crossed, cut>>
<1> DEFINE h == IF op[w].old = {} THEN NoOp ELSE [step |-> "supersede", old |-> op[w].old]
<1>1. /\ At(w, "save") /\ approvals' = Inserted(approvals, op[w].row)
      /\ op' = [op EXCEPT ![w] = h] /\ said' = Said(op[w].seen)
      /\ UNCHANGED <<evidence, crossed, cut>>
  BY DEF SaveApproval
<1>2. op[w].row \in Rows /\ op[w].old \in SUBSET Nat /\ approvals \in Seq(Rows)
  BY <1>1, HandlerForms DEF TypeOK
<1>3. \/ op[w].old = {} /\ h = NoOp
      \/ op[w].old # {} /\ h # NoOp /\ h.step = "supersede" /\ h.old = op[w].old
  BY <1>2, NoOpAssumption
<1> HIDE DEF h
<1>4. Others(w) /\ op'[w] = h
  BY <1>1 DEF TypeOK, Others
<1>5. /\ Len(approvals) \in Nat
      /\ Len(approvals') = Len(approvals) + 1
      /\ approvals'[Len(approvals) + 1] = op[w].row
      /\ \A j \in 1..Len(approvals) : approvals'[j] = approvals[j]
  <2> DEFINE r == op[w].row
  <2>1. r \in Rows /\ approvals' = Inserted(approvals, r)
    BY <1>1, <1>2
  <2> HIDE DEF r
  <2>2. Len(approvals) \in Nat
    BY <1>2
  <2> QED
    BY <1>2, <2>1, <2>2, InsertFacts DEF r
<1> QED
  BY <1>1, <1>2, <1>3, <1>4, <1>5

LEMMA SupersedeChanges ==
    ASSUME TypeOK, NEW w \in Workers, Supersede(w)
    PROVE  LET i == Max(op[w].old) IN
           /\ At(w, "supersede") /\ Others(w)
           /\ \/ op[w].old \ {i} = {} /\ op'[w] = NoOp
              \/ /\ op[w].old \ {i} # {}
                 /\ op'[w] # NoOp
                 /\ op'[w].step = "supersede" /\ op'[w].old = op[w].old \ {i}
           /\ Len(approvals) \in Nat
           /\ Len(approvals') = Len(approvals)
           /\ \A j \in 1..Len(approvals) :
                 /\ approvals'[j].made = approvals[j].made
                 /\ approvals'[j].content = approvals[j].content
                 /\ j # i => approvals'[j] = approvals[j]
                 /\ j = i => approvals'[j].status = "superseded"
           /\ UNCHANGED <<evidence, crossed, cut, said>>
<1> DEFINE i == Max(op[w].old)
           left == op[w].old \ {i}
           h == IF left = {} THEN NoOp ELSE [step |-> "supersede", old |-> left]
<1>1. /\ At(w, "supersede") /\ approvals' = [approvals EXCEPT ![i].status = "superseded"]
      /\ op' = [op EXCEPT ![w] = h]
      /\ UNCHANGED <<evidence, crossed, cut, said>>
  BY DEF Supersede
<1>2. approvals \in Seq(Rows) /\ op[w].old \in SUBSET Nat
  BY <1>1, HandlerForms DEF TypeOK
<1>3. \/ left = {} /\ h = NoOp
      \/ left # {} /\ h # NoOp /\ h.step = "supersede" /\ h.old = left
  BY <1>2, NoOpAssumption
<1> HIDE DEF h, i
<1>4. Others(w) /\ op'[w] = h
  BY <1>1 DEF TypeOK, Others
<1>5. /\ Len(approvals') = Len(approvals) /\ Len(approvals) \in Nat
      /\ \A j \in 1..Len(approvals) : /\ approvals'[j].made = approvals[j].made
                                      /\ approvals'[j].content = approvals[j].content
  BY <1>1, <1>2, SupersedeFacts
<1>6. \A j \in 1..Len(approvals) :
         approvals'[j] = IF j = i THEN [approvals[j] EXCEPT !.status = "superseded"]
                         ELSE approvals[j]
  BY <1>1, <1>2
<1>7. \A r \in Rows : [r EXCEPT !.status = "superseded"].status = "superseded"
  BY DEF Rows
<1>8. \A j \in 1..Len(approvals) : approvals[j] \in Rows
  BY <1>2
<1> QED
  BY <1>1, <1>3, <1>4, <1>5, <1>6, <1>7, <1>8 DEF i

LEMMA CutFacts ==
    ASSUME TypeOK, NEW w \in Workers, CutShort(w)
    PROVE  /\ Others(w) /\ op[w] # NoOp /\ op'[w] = NoOp /\ cut'
           /\ UNCHANGED <<evidence, approvals, crossed, said>>
  BY DEF CutShort, TypeOK, Others

(* Evidence is written, or the process restarts: no decision is touched.   *)
EvidenceMoves ==
    \/ \E id \in Ids, body \in Bodies : PutEvidence(id, body)
    \/ \E id \in Ids : DeleteEvidence(id)
    \/ Restart

LEMMA EvidenceFacts ==
    ASSUME TypeOK, EvidenceMoves
    PROVE  /\ op' = op \/ \A w \in Workers : op'[w] = NoOp
           /\ UNCHANGED <<approvals, crossed, said>>
           /\ \/ UNCHANGED <<op, cut>>
              \/ cut' /\ \A w \in Workers : op'[w] = NoOp
  BY DEF EvidenceMoves, PutEvidence, DeleteEvidence, Restart

-----------------------------------------------------------------------------
(* Requests that do not cross *)

Alone == ~crossed => \A u, v \in Workers : op[u] # NoOp /\ op[v] # NoOp => u = v

(* A row that is no approval is never marked, and what a handler is about  *)
(* to mark are approvals; a row on its way has the status it is made with. *)
OnlyApprovalsMarked ==
    /\ \A i \in 1..Len(approvals) :
          approvals[i].made # "approved" => approvals[i].status = approvals[i].made
    /\ \A w \in Workers : At(w, "save") \/ At(w, "supersede") =>
          \A i \in op[w].old : i \in 1..Len(approvals) /\ approvals[i].made = "approved"
    /\ \A w \in Workers : At(w, "supersede") => op[w].old # {}
    /\ \A w \in Workers : At(w, "save") => op[w].row.status = op[w].row.made

(* A handler that has decided did not do so on a revoked content.          *)
RevokedIsFinal ==
    ~crossed => \A w \in Workers :
        At(w, "save") /\ approvals # <<>> /\ approvals[Len(approvals)].made = "revoked" =>
            op[w].row.content # approvals[Len(approvals)].content

(* An approval on its way has loaded every approval in force; an approval  *)
(* in force before a later one is about to be marked.                      *)
OlderAreMarked ==
    ~crossed /\ ~cut =>
        /\ \A w \in Workers : At(w, "save") /\ op[w].row.made = "approved" =>
              \A i \in 1..Len(approvals) : approvals[i].status = "approved" => i \in op[w].old
        /\ \A i \in 1..Len(approvals) : approvals[i].status = "approved" =>
              \/ \A j \in (i + 1)..Len(approvals) : approvals[j].made # "approved"
              \/ \E w \in Workers : At(w, "supersede") /\ i \in op[w].old

HandlerMoves(w) ==
    \/ \E target \in Statuses : Decide(w, target)
    \/ ReadEvidence(w) \/ SaveApproval(w) \/ Supersede(w) \/ CutShort(w)

(* Who is not alone was crossed.                                           *)
LEMMA AloneStep ==
    ASSUME TypeOK, Alone, NEW w \in Workers, HandlerMoves(w)
    PROVE  /\ Alone'
           /\ ~crossed' => ~crossed
           /\ ~crossed' => \A v \in Workers \ {w} : op[v] = NoOp /\ op'[v] = NoOp
<1>1. Others(w)
  BY ReadFacts, DecideFacts, SaveFacts, SupersedeChanges, CutFacts DEF HandlerMoves
<1>2. \/ ~crossed' => ~crossed /\ \A v \in Workers : op[v] = NoOp
      \/ op[w] # NoOp /\ (~crossed' => ~crossed)
  <2>1. CASE ReadEvidence(w)
    BY <2>1, ReadFacts
  <2>2. CASE \E target \in Statuses : Decide(w, target)
    BY <2>2, DecideFacts DEF At
  <2>3. CASE SaveApproval(w)
    BY <2>3, SaveFacts DEF At
  <2>4. CASE Supersede(w)
    BY <2>4, SupersedeChanges DEF At
  <2>5. CASE CutShort(w)
    BY <2>5, CutFacts
  <2> QED
    BY <2>1, <2>2, <2>3, <2>4, <2>5 DEF HandlerMoves
<1>3. ~crossed' => \A v \in Workers \ {w} : op[v] = NoOp /\ op'[v] = NoOp
  BY <1>1, <1>2 DEF Alone, Others
<1> QED
  BY <1>2, <1>3 DEF Alone

LEMMA MarkedStep ==
    ASSUME TypeOK, OnlyApprovalsMarked, NEW w \in Workers, HandlerMoves(w)
    PROVE  OnlyApprovalsMarked'
<1>1. CASE ReadEvidence(w) \/ CutShort(w)
  <2>1. /\ approvals' = approvals /\ Others(w)
        /\ op'[w] = NoOp \/ op'[w].step = "load"
    BY <1>1, ReadFacts, CutFacts
  <2> QED
    BY <2>1 DEF OnlyApprovalsMarked, At, Others
<1>2. ASSUME NEW target \in Statuses, Decide(w, target)
      PROVE  OnlyApprovalsMarked'
  <2>1. /\ approvals' = approvals /\ Others(w)
        /\ \/ op'[w] = NoOp
           \/ /\ op'[w].step = "save" /\ op'[w].row.status = op'[w].row.made
              /\ \A i \in op'[w].old :
                    i \in 1..Len(approvals) /\ approvals[i].status = "approved"
    <3> DEFINE now == Hash(op[w].seen)
    <3>1. \A i \in Replaced(approvals, now) :
             i \in 1..Len(approvals) /\ approvals[i].status = "approved"
      BY DEF Replaced
    <3>2. /\ approvals' = approvals /\ Others(w)
          /\ \/ op'[w] = NoOp
             \/ /\ op'[w].step = "save" /\ op'[w].row.status = op'[w].row.made
                /\ op'[w].old = IF Replaces(target) THEN Replaced(approvals, now) ELSE {}
      BY <1>2, DecideFacts
    <3> HIDE DEF now
    <3> QED
      BY <3>1, <3>2
  <2>2. \A i \in 1..Len(approvals) : approvals[i] \in Rows
    BY DEF TypeOK
  <2>3. \A i \in 1..Len(approvals) :
           approvals[i].status = "approved" => approvals[i].made = "approved"
    BY <2>2 DEF Rows
  <2> QED
    BY <2>1, <2>3 DEF OnlyApprovalsMarked, At, Others
<1>3. CASE SaveApproval(w)
  <2>1. op[w].row \in Rows /\ Len(approvals) \in Nat
    BY <1>3, SaveFacts
  <2>2. op[w].row.status = op[w].row.made
    BY <1>3, SaveFacts DEF OnlyApprovalsMarked
  <2>3. \A i \in 1..Len(approvals') : i \in 1..Len(approvals) \/ i = Len(approvals) + 1
    BY <2>1, <1>3, SaveFacts
  <2>4. \A i \in 1..Len(approvals') :
           approvals'[i].made # "approved" => approvals'[i].status = approvals'[i].made
    BY <1>3, <2>2, <2>3, SaveFacts DEF OnlyApprovalsMarked
  <2>5. \A i \in 1..Len(approvals) :
           /\ i \in 1..Len(approvals')
           /\ approvals[i].made = "approved" => approvals'[i].made = "approved"
    BY <1>3, <2>1, SaveFacts
  <2>6. /\ At(w, "save") /\ Others(w)
        /\ op'[w] = NoOp \/ /\ op'[w].step = "supersede"
                            /\ op[w].old # {} /\ op'[w].old = op[w].old
    BY <1>3, SaveFacts
  <2> QED
    BY <2>4, <2>5, <2>6 DEF OnlyApprovalsMarked, At, Others
<1>4. CASE Supersede(w)
  <2> DEFINE i == Max(op[w].old)
  <2>1. /\ At(w, "supersede") /\ Others(w)
        /\ op'[w] = NoOp \/ /\ op'[w].step = "supersede"
                            /\ op'[w].old # {} /\ op'[w].old \subseteq op[w].old
        /\ Len(approvals') = Len(approvals) /\ Len(approvals) \in Nat
    BY <1>4, SupersedeChanges
  <2>2. /\ op[w].old \subseteq 1..Len(approvals) /\ op[w].old # {}
        /\ \A k \in op[w].old : approvals[k].made = "approved"
    BY <2>1 DEF OnlyApprovalsMarked
  <2>3. i \in 1..Len(approvals) /\ approvals[i].made = "approved"
    BY <2>1, <2>2, MaxIsIn
  <2>4. \A j \in 1..Len(approvals) :
           /\ approvals'[j].made = approvals[j].made
           /\ j # i => approvals'[j].status = approvals[j].status
    BY <1>4, SupersedeChanges
  <2> HIDE DEF i
  <2>5. \A j \in 1..Len(approvals') :
           approvals'[j].made # "approved" => approvals'[j].status = approvals'[j].made
    BY <2>1, <2>3, <2>4 DEF OnlyApprovalsMarked
  <2> QED
    BY <2>1, <2>4, <2>5 DEF OnlyApprovalsMarked, At, Others
<1> QED
  BY <1>1, <1>2, <1>3, <1>4 DEF HandlerMoves

(* A content whose latest decision revoked it has no transition            *)
(* (can_transition, _current_approval_status).                             *)
LEMMA RevokedHasNoWayOut ==
    ASSUME NEW now, NEW target, approvals # <<>>,
           approvals[Len(approvals)].status = "revoked",
           approvals[Len(approvals)].content = now
    PROVE  ~CanTransition(CurrentStatus(approvals, now), target)
<1>1. CurrentStatus(approvals, now) = "revoked"
  BY DEF CurrentStatus
<1> QED
  BY <1>1 DEF CanTransition

LEMMA RevokedStep ==
    ASSUME TypeOK, Alone, OnlyApprovalsMarked, RevokedIsFinal, RevocationHolds,
           NEW w \in Workers, HandlerMoves(w)
    PROVE  RevokedIsFinal' /\ RevocationHolds'
<1> SUFFICES ASSUME ~crossed'
             PROVE  RevokedIsFinal' /\ RevocationHolds'
  BY DEF RevokedIsFinal, RevocationHolds
<1>1. /\ ~crossed
      /\ \A v \in Workers \ {w} : op[v] = NoOp /\ op'[v] = NoOp
  BY AloneStep
<1>2. \A v \in Workers : At(v, "save")' => v = w /\ op'[w] # NoOp /\ op'[w].step = "save"
  BY <1>1 DEF At
<1>3. Len(approvals) \in Nat /\ (approvals # <<>> <=> Len(approvals) # 0)
  BY DEF TypeOK
<1>4. \A i \in 1..(Len(approvals) - 1) :
         approvals[i].made = "revoked" => approvals[i + 1].content # approvals[i].content
  BY <1>1 DEF RevocationHolds
<1>5. CASE ReadEvidence(w) \/ CutShort(w)
  <2>1. approvals' = approvals /\ (op'[w] = NoOp \/ op'[w].step = "load")
    BY <1>5, ReadFacts, CutFacts
  <2> QED
    BY <1>2, <1>4, <2>1 DEF RevokedIsFinal, RevocationHolds
<1>6. ASSUME NEW target \in Statuses, Decide(w, target)
      PROVE  RevokedIsFinal' /\ RevocationHolds'
  <2> DEFINE now == Hash(op[w].seen)
             last == approvals[Len(approvals)]
  <2>1. /\ approvals' = approvals
        /\ \/ op'[w] = NoOp
           \/ /\ CanTransition(CurrentStatus(approvals, now), target)
              /\ op'[w].row.content = now
    BY <1>6, DecideFacts
  <2> HIDE DEF now
  <2>2. approvals # <<>> /\ last.made = "revoked" => last.status = "revoked"
    BY <1>3 DEF OnlyApprovalsMarked
  <2>3. op'[w] # NoOp /\ approvals # <<>> /\ last.made = "revoked" =>
            op'[w].row.content # last.content
    BY <2>1, <2>2, RevokedHasNoWayOut
  <2> QED
    BY <1>2, <1>4, <2>1, <2>3 DEF RevokedIsFinal, RevocationHolds
<1>7. CASE SaveApproval(w)
  <2> DEFINE n == Len(approvals)
  <2>1. /\ At(w, "save")
        /\ op'[w] = NoOp \/ op'[w].step = "supersede"
        /\ Len(approvals') = n + 1 /\ approvals'[n + 1] = op[w].row
        /\ \A j \in 1..n : approvals'[j] = approvals[j]
    BY <1>7, SaveFacts
  <2>2. n # 0 /\ approvals[n].made = "revoked" => op[w].row.content # approvals[n].content
    BY <1>1, <1>3, <2>1 DEF RevokedIsFinal
  <2>3. ASSUME NEW i \in 1..n, approvals'[i].made = "revoked"
        PROVE  approvals'[i + 1].content # approvals'[i].content
    <3>1. CASE i = n
      BY <1>3, <2>1, <2>2, <2>3, <3>1
    <3>2. CASE i # n
      <4>1. i \in 1..(n - 1) /\ i + 1 \in 1..n
        BY <1>3, <3>2
      <4> QED
        BY <1>4, <2>1, <2>3, <4>1
    <3> QED
      BY <3>1, <3>2
  <2>4. Len(approvals') - 1 = n
    BY <1>3, <2>1
  <2> QED
    BY <1>2, <2>1, <2>3, <2>4 DEF RevokedIsFinal, RevocationHolds
<1>8. CASE Supersede(w)
  <2>1. /\ op'[w] = NoOp \/ op'[w].step = "supersede"
        /\ Len(approvals') = Len(approvals)
        /\ \A j \in 1..Len(approvals) : /\ approvals'[j].made = approvals[j].made
                                        /\ approvals'[j].content = approvals[j].content
    BY <1>8, SupersedeChanges
  <2>2. \A i \in 1..(Len(approvals) - 1) : i \in 1..Len(approvals) /\ i + 1 \in 1..Len(approvals)
    BY <1>3
  <2>3. RevocationHolds'
    BY <1>4, <2>1, <2>2 DEF RevocationHolds
  <2> QED
    BY <1>2, <2>1, <2>3 DEF RevokedIsFinal
<1> QED
  BY <1>5, <1>6, <1>7, <1>8 DEF HandlerMoves

LEMMA OlderStep ==
    ASSUME TypeOK, Alone, OlderAreMarked, NEW w \in Workers, HandlerMoves(w)
    PROVE  OlderAreMarked'
<1> SUFFICES ASSUME ~crossed', ~cut'
             PROVE  OlderAreMarked'
  BY DEF OlderAreMarked
<1>1. /\ ~crossed
      /\ \A v \in Workers \ {w} : op[v] = NoOp /\ op'[v] = NoOp
  BY AloneStep
<1>2. /\ \A v \in Workers : At(v, "save")' => v = w /\ op'[w] # NoOp /\ op'[w].step = "save"
      /\ \A v \in Workers : At(v, "supersede") => v = w
  BY <1>1 DEF At
<1>3. Len(approvals) \in Nat
  BY DEF TypeOK
<1>4. ~cut
  BY ReadFacts, DecideFacts, SaveFacts, SupersedeChanges, CutFacts DEF HandlerMoves
<1>5. /\ At(w, "save") /\ op[w].row.made = "approved" =>
             \A i \in 1..Len(approvals) : approvals[i].status = "approved" => i \in op[w].old
      /\ \A i \in 1..Len(approvals) : approvals[i].status = "approved" =>
             \/ \A j \in (i + 1)..Len(approvals) : approvals[j].made # "approved"
             \/ At(w, "supersede") /\ i \in op[w].old
  BY <1>1, <1>2, <1>4 DEF OlderAreMarked
<1>6. CASE ReadEvidence(w)
  <2>1. approvals' = approvals /\ op[w] = NoOp /\ op'[w].step = "load"
    BY <1>6, ReadFacts DEF ReadEvidence
  <2> QED
    BY <1>2, <1>5, <2>1 DEF OlderAreMarked, At
<1>7. CASE CutShort(w)
  BY <1>7, CutFacts
<1>8. ASSUME NEW target \in Statuses, Decide(w, target)
      PROVE  OlderAreMarked'
  <2> DEFINE now == Hash(op[w].seen)
  <2>1. /\ approvals' = approvals /\ At(w, "load")
        /\ \/ op'[w] = NoOp
           \/ /\ op'[w].row.made = target
              /\ op'[w].old = IF Replaces(target) THEN Replaced(approvals, now) ELSE {}
    BY <1>8, DecideFacts
  <2> HIDE DEF now
  <2>2. op'[w] # NoOp /\ op'[w].row.made = "approved" =>
            \A i \in 1..Len(approvals) : approvals[i].status = "approved" => i \in op'[w].old
    BY <2>1 DEF Replaces, Replaced
  <2> QED
    BY <1>2, <1>5, <2>1, <2>2 DEF OlderAreMarked, At
<1>9. CASE SaveApproval(w)
  <2> DEFINE n == Len(approvals)
  <2>1. /\ At(w, "save")
        /\ \/ op[w].old = {} /\ op'[w] = NoOp
           \/ op[w].old # {} /\ op'[w] # NoOp /\ op'[w].step = "supersede" /\ op'[w].old = op[w].old
        /\ Len(approvals') = n + 1 /\ approvals'[n + 1] = op[w].row
        /\ \A j \in 1..n : approvals'[j] = approvals[j]
    BY <1>9, SaveFacts
  <2>2. ASSUME NEW i \in 1..n, approvals'[i].status = "approved"
        PROVE  \/ \A j \in (i + 1)..(n + 1) : approvals'[j].made # "approved"
               \/ i \in op[w].old
    <3>1. \A j \in (i + 1)..n : approvals[j].made # "approved"
      BY <1>5, <2>1, <2>2 DEF At
    <3>2. \A j \in (i + 1)..(n + 1) : j = n + 1 \/ (j \in (i + 1)..n /\ j \in 1..n)
      BY <1>3
    <3>3. op[w].row.made = "approved" => i \in op[w].old
      BY <1>5, <2>1, <2>2
    <3> QED
      BY <2>1, <3>1, <3>2, <3>3
  <2>3. op[w].old # {} => At(w, "supersede")' /\ op'[w].old = op[w].old
    BY <2>1 DEF At
  <2>4. ASSUME NEW i \in 1..(n + 1), approvals'[i].status = "approved"
        PROVE  \/ \A j \in (i + 1)..(n + 1) : approvals'[j].made # "approved"
               \/ At(w, "supersede")' /\ i \in op'[w].old
    <3>1. i \in 1..n \/ (i + 1)..(n + 1) = {}
      BY <1>3
    <3> QED
      BY <2>2, <2>3, <2>4, <3>1
  <2>5. \A v \in Workers : ~At(v, "save")'
    BY <1>2, <2>1
  <2> QED
    BY <2>1, <2>4, <2>5 DEF OlderAreMarked
<1>10. CASE Supersede(w)
  <2> DEFINE i == Max(op[w].old)
  <2>1. /\ At(w, "supersede")
        /\ \/ op[w].old \ {i} = {} /\ op'[w] = NoOp
           \/ /\ op[w].old \ {i} # {}
              /\ op'[w] # NoOp /\ op'[w].step = "supersede" /\ op'[w].old = op[w].old \ {i}
        /\ Len(approvals') = Len(approvals)
        /\ \A j \in 1..Len(approvals) :
              /\ approvals'[j].made = approvals[j].made
              /\ j # i => approvals'[j] = approvals[j]
              /\ j = i => approvals'[j].status = "superseded"
    BY <1>10, SupersedeChanges
  <2> HIDE DEF i
  <2>2. op[w].old \ {i} # {} => At(w, "supersede")' /\ op'[w].old = op[w].old \ {i}
    BY <2>1 DEF At
  <2>3. ASSUME NEW k \in 1..Len(approvals), approvals'[k].status = "approved"
        PROVE  \/ \A j \in (k + 1)..Len(approvals) : approvals'[j].made # "approved"
               \/ At(w, "supersede")' /\ k \in op'[w].old
    <3>1. k # i /\ approvals[k].status = "approved"
      BY <2>1, <2>3
    <3>2. \A j \in (k + 1)..Len(approvals) : j \in 1..Len(approvals)
      BY <1>3
    <3>3. CASE \A j \in (k + 1)..Len(approvals) : approvals[j].made # "approved"
      BY <2>1, <3>2, <3>3
    <3>4. CASE k \in op[w].old
      BY <2>2, <3>1, <3>4
    <3> QED
      BY <1>5, <3>1, <3>3, <3>4
  <2>4. \A v \in Workers : ~At(v, "save")'
    BY <1>2, <2>1
  <2> QED
    BY <2>1, <2>3, <2>4 DEF OlderAreMarked
<1> QED
  BY <1>6, <1>7, <1>8, <1>9, <1>10 DEF HandlerMoves

-----------------------------------------------------------------------------
(* What the hash says of records that all carry a stamp. *)

Stamped(set) == \A r \in set : r.stamped

LEMMA StampedHash ==
    ASSUME NEW S \in SUBSET Records, Stamped(S)
    PROVE  Hash(S) = [x \in {<<"hash", r.body>> : r \in S} |->
                         Cardinality({r \in S : <<"hash", r.body>> = x})]
<1> DEFINE key(r) == IF r.stamped THEN <<"hash", r.body>> ELSE <<"id", r.id>>
<1>1. \A r \in S : key(r) = <<"hash", r.body>>
  BY DEF Stamped
<1>2. Hash(S) = [x \in {key(r) : r \in S} |-> Cardinality({r \in S : key(r) = x})]
  BY DEF Hash, Bag
<1> HIDE DEF key
<1>3. {key(r) : r \in S} = {<<"hash", r.body>> : r \in S}
  BY <1>1
<1>4. \A x : {r \in S : key(r) = x} = {r \in S : <<"hash", r.body>> = x}
  BY <1>1
<1> QED
  BY <1>2, <1>3, <1>4

(* Records of one hash say the same: the hash covers what they say.        *)
LEMMA HashCoversSaid ==
    ASSUME NEW S \in SUBSET Records, Stamped(S),
           NEW T \in SUBSET Records, Stamped(T),
           Hash(S) = Hash(T)
    PROVE  Said(S) = Said(T)
<1> DEFINE bodies(U) == {r.body : r \in U}
           tags(U) == {<<"hash", r.body>> : r \in U}
           count(U, b) == Cardinality({r \in U : r.body = b})
           h(U) == [x \in tags(U) |-> Cardinality({r \in U : <<"hash", r.body>> = x})]
<1>1. h(S) = h(T)
  BY StampedHash
<1>2. tags(S) = tags(T)
  <2>1. DOMAIN h(S) = tags(S) /\ DOMAIN h(T) = tags(T)
    OBVIOUS
  <2> QED
    BY <1>1, <2>1
<1>3. ASSUME NEW U, NEW V, tags(U) = tags(V), NEW b \in bodies(U)
      PROVE  b \in bodies(V)
  <2>1. <<"hash", b>> \in tags(V)
    BY <1>3
  <2> QED
    BY <2>1
<1>4. bodies(S) = bodies(T)
  <2> HIDE DEF bodies, tags
  <2> QED
    BY <1>2, <1>3
<1>5. ASSUME NEW U, NEW b \in bodies(U)
      PROVE  h(U)[<<"hash", b>>] = count(U, b)
  <2>1. <<"hash", b>> \in tags(U)
    BY <1>5
  <2>2. \A r : <<"hash", r.body>> = <<"hash", b>> <=> r.body = b
    OBVIOUS
  <2>3. {r \in U : <<"hash", r.body>> = <<"hash", b>>} = {r \in U : r.body = b}
    BY <2>2
  <2> QED
    BY <2>1, <2>3
<1>6. \A b \in bodies(S) : count(S, b) = count(T, b)
  <2> HIDE DEF bodies, count, h
  <2> QED
    BY <1>1, <1>4, <1>5
<1>7. Said(S) = [b \in bodies(S) |-> count(S, b)] /\ Said(T) = [b \in bodies(T) |-> count(T, b)]
  BY DEF Said, Bag
<1> HIDE DEF bodies, count
<1> QED
  BY <1>4, <1>6, <1>7

(* While no handler is cut short and the process lives: the records carry  *)
(* their stamps, and the latest row was made on records that said what is  *)
(* noted of it.                                                            *)
RowsAreCovered ==
    ~cut =>
        /\ Stamped(evidence)
        /\ \A w \in Workers : At(w, "load") \/ At(w, "save") => Stamped(op[w].seen)
        /\ \A w \in Workers : At(w, "save") => op[w].row.content = Hash(op[w].seen)
        /\ approvals # <<>> =>
              \E set \in SUBSET Records :
                  /\ Stamped(set)
                  /\ approvals[Len(approvals)].content = Hash(set)
                  /\ said = Said(set)

LEMMA CoveredStep ==
    ASSUME TypeOK, RowsAreCovered, NEW w \in Workers, HandlerMoves(w)
    PROVE  RowsAreCovered'
<1> SUFFICES ASSUME ~cut'
             PROVE  RowsAreCovered'
  BY DEF RowsAreCovered
<1> DEFINE FirstPart ==
       /\ Stamped(evidence')
       /\ \A v \in Workers : At(v, "load")' \/ At(v, "save")' => Stamped(op'[v].seen)
       /\ \A v \in Workers : At(v, "save")' => op'[v].row.content = Hash(op'[v].seen)
<1>1. ~cut /\ evidence' = evidence /\ Others(w)
  BY ReadFacts, DecideFacts, SaveFacts, SupersedeChanges, CutFacts DEF HandlerMoves
<1>2. /\ Stamped(evidence)
      /\ \A v \in Workers : At(v, "load") \/ At(v, "save") => Stamped(op[v].seen)
      /\ \A v \in Workers : At(v, "save") => op[v].row.content = Hash(op[v].seen)
      /\ approvals # <<>> =>
            \E set \in SUBSET Records :
                /\ Stamped(set)
                /\ approvals[Len(approvals)].content = Hash(set)
                /\ said = Said(set)
  BY <1>1 DEF RowsAreCovered
<1>3. ASSUME \/ op'[w] = NoOp
             \/ op'[w].step \in {"load", "supersede"}
             \/ op'[w].row.content = Hash(op'[w].seen),
             \/ op'[w] = NoOp
             \/ op'[w].step = "supersede"
             \/ Stamped(op'[w].seen)
      PROVE  FirstPart
  BY <1>1, <1>2, <1>3 DEF At, Others
<1>4. CASE ReadEvidence(w)
  <2>1. /\ op'[w].step = "load" /\ op'[w].seen = evidence
        /\ approvals' = approvals /\ said' = said
    BY <1>4, ReadFacts
  <2> QED
    BY <1>2, <1>3, <2>1 DEF RowsAreCovered
<1>5. CASE CutShort(w)
  BY <1>5, CutFacts
<1>6. ASSUME NEW target \in Statuses, Decide(w, target)
      PROVE  RowsAreCovered'
  <2>1. /\ At(w, "load")
        /\ \/ op'[w] = NoOp
           \/ /\ op'[w].step = "save" /\ op'[w].row.content = Hash(op[w].seen)
              /\ op'[w].seen = op[w].seen
        /\ approvals' = approvals /\ said' = said
    BY <1>6, DecideFacts
  <2>2. Stamped(op[w].seen)
    BY <1>2, <2>1
  <2>3. \/ op'[w] = NoOp
        \/ /\ op'[w].step = "save" /\ Stamped(op'[w].seen)
           /\ op'[w].row.content = Hash(op'[w].seen)
    BY <2>1, <2>2
  <2>4. FirstPart
    BY <1>3, <2>3
  <2> QED
    BY <1>2, <2>1, <2>4 DEF RowsAreCovered
<1>7. CASE SaveApproval(w)
  <2>1. /\ At(w, "save")
        /\ op'[w] = NoOp \/ op'[w].step = "supersede"
        /\ Len(approvals') = Len(approvals) + 1
        /\ approvals'[Len(approvals) + 1] = op[w].row
        /\ said' = Said(op[w].seen)
    BY <1>7, SaveFacts
  <2>2. op[w].seen \in SUBSET Records
    BY <2>1 DEF TypeOK, Handlers, At
  <2>3. Stamped(op[w].seen) /\ op[w].row.content = Hash(op[w].seen)
    BY <1>2, <2>1
  <2>4. \E set \in SUBSET Records :
                /\ Stamped(set)
                /\ approvals'[Len(approvals')].content = Hash(set)
                /\ said' = Said(set)
    BY <2>1, <2>2, <2>3
  <2>5. FirstPart
    BY <1>3, <2>1
  <2> QED
    BY <2>4, <2>5 DEF RowsAreCovered
<1>8. CASE Supersede(w)
  <2>1. /\ op'[w] = NoOp \/ op'[w].step = "supersede"
        /\ Len(approvals') = Len(approvals) /\ Len(approvals) \in Nat
        /\ \A j \in 1..Len(approvals) : approvals'[j].content = approvals[j].content
        /\ said' = said
    BY <1>8, SupersedeChanges
  <2>2. approvals' # <<>> => approvals # <<>> /\ Len(approvals) \in 1..Len(approvals)
    <3>1. /\ approvals \in Seq(Rows) /\ approvals' \in Seq(Rows)
      BY <1>8, SupersedeFacts DEF TypeOK, Supersede
    <3> QED
      BY <2>1, <3>1
  <2>3. approvals' # <<>> => approvals # <<>> /\
            approvals'[Len(approvals')].content = approvals[Len(approvals)].content
    BY <2>1, <2>2
  <2>4. FirstPart
    BY <1>3, <2>1
  <2> QED
    BY <1>2, <2>1, <2>3, <2>4 DEF RowsAreCovered
<1> QED
  BY <1>4, <1>5, <1>6, <1>7, <1>8 DEF HandlerMoves

-----------------------------------------------------------------------------
Orderly ==
    /\ Alone /\ OnlyApprovalsMarked
    /\ RevokedIsFinal /\ RevocationHolds
    /\ OlderAreMarked /\ RowsAreCovered

LEMMA OrderlyInit == Init => Orderly
<1> SUFFICES ASSUME Init PROVE Orderly
  OBVIOUS
<1>1. approvals = <<>> /\ Len(approvals) = 0 /\ evidence = {}
      /\ \A w \in Workers : op[w] = NoOp
  BY DEF Init
<1>2. Alone /\ OnlyApprovalsMarked /\ RevokedIsFinal /\ OlderAreMarked
  BY <1>1 DEF Alone, OnlyApprovalsMarked, RevokedIsFinal, OlderAreMarked, At
<1>3. RevocationHolds
  BY <1>1 DEF RevocationHolds
<1>4. RowsAreCovered
  BY <1>1 DEF RowsAreCovered, Stamped, At
<1> QED
  BY <1>2, <1>3, <1>4 DEF Orderly

(* Steps that touch no decision.                                           *)
LEMMA OrderlyOutside ==
    ASSUME TypeOK, Orderly, EvidenceMoves \/ UNCHANGED vars
    PROVE  Orderly'
<1>1. /\ UNCHANGED <<approvals, crossed, said>>
      /\ UNCHANGED <<op, cut>> \/ (cut' /\ \A w \in Workers : op'[w] = NoOp)
  BY EvidenceFacts DEF vars
<1>2. Alone' /\ OnlyApprovalsMarked' /\ RevokedIsFinal' /\ RevocationHolds' /\ OlderAreMarked'
  <2>1. CASE UNCHANGED <<op, cut>>
    BY <1>1, <2>1 DEF Orderly, Alone, OnlyApprovalsMarked, RevokedIsFinal,
                      RevocationHolds, OlderAreMarked, At
  <2>2. CASE cut' /\ \A w \in Workers : op'[w] = NoOp
    <3>1. \A w \in Workers : ~At(w, "save")' /\ ~At(w, "supersede")'
      BY <2>2 DEF At
    <3>2. Alone' /\ RevokedIsFinal' /\ OlderAreMarked'
      BY <2>2, <3>1 DEF Alone, RevokedIsFinal, OlderAreMarked
    <3>3. OnlyApprovalsMarked' /\ RevocationHolds'
      BY <1>1, <3>1 DEF Orderly, OnlyApprovalsMarked, RevocationHolds
    <3> QED
      BY <3>2, <3>3
  <2> QED
    BY <1>1, <2>1, <2>2
<1>3. ~cut' => Stamped(evidence)'
  <2>1. CASE \E id \in Ids, body \in Bodies : PutEvidence(id, body)
    BY <2>1 DEF PutEvidence, Without, Stamped, Orderly, RowsAreCovered
  <2>2. CASE \E id \in Ids : DeleteEvidence(id)
    BY <2>2 DEF DeleteEvidence, Without, Stamped, Orderly, RowsAreCovered
  <2>3. CASE Restart
    BY <2>3 DEF Restart
  <2>4. CASE UNCHANGED vars
    BY <2>4 DEF vars, Orderly, RowsAreCovered
  <2> QED
    BY <2>1, <2>2, <2>3, <2>4 DEF EvidenceMoves
<1>4. RowsAreCovered'
  <2>1. CASE UNCHANGED <<op, cut>>
    BY <1>1, <1>3, <2>1 DEF Orderly, RowsAreCovered, At
  <2> QED
    BY <1>1, <2>1 DEF RowsAreCovered
<1> QED
  BY <1>2, <1>4 DEF Orderly

LEMMA OrderlyNext == Sound /\ Orderly /\ [Next]_vars => Orderly'
<1> SUFFICES ASSUME Sound, Orderly, [Next]_vars PROVE Orderly'
  OBVIOUS
<1>1. TypeOK
  BY DEF Sound
<1>2. ASSUME NEW w \in Workers, HandlerMoves(w)
      PROVE  Orderly'
  BY <1>1, <1>2, AloneStep, MarkedStep, RevokedStep, OlderStep, CoveredStep DEF Orderly
<1>3. EvidenceMoves \/ UNCHANGED vars \/ \E w \in Workers : HandlerMoves(w)
  BY DEF Next, EvidenceMoves, HandlerMoves
<1> QED
  BY <1>1, <1>2, <1>3, OrderlyOutside

LEMMA AlwaysOrderly == Spec => [](Sound /\ Orderly)
  BY SoundInit, SoundStep, OrderlyInit, OrderlyNext, PTL DEF Spec

(* While requests do not cross, whoever is cut short and whatever          *)
(* restarts, a revoked content gets no new decision before another content *)
(* got one (can_transition, _current_approval_status).                     *)
THEOREM RevokedContentsStay == Spec => []RevocationHolds
<1>1. Orderly => RevocationHolds
  BY DEF Orderly
<1> QED
  BY <1>1, AlwaysOrderly, PTL

(* While requests do not cross and none is cut short, between requests one *)
(* approval is in force, the newest (evidence_transition).                 *)
THEOREM ApprovalsAreReplaced == Spec => []OneInForce
<1>1. Orderly => OneInForce
  BY DEF Orderly, OlderAreMarked, OneInForce, At
<1> QED
  BY <1>1, AlwaysOrderly, PTL

(* What is shown as approved says what it said when it was approved, until *)
(* a restart takes the stamps or a handler is cut short                    *)
(* (_control_evidence_state).                                              *)
THEOREM ShownIsWhatWasApproved == Spec => []ApprovalCoversWritten
<1>1. Sound /\ Orderly => ApprovalCoversWritten
  <2> SUFFICES ASSUME Sound, Orderly, InForce, ~cut
               PROVE  said = Said(evidence)
    BY DEF ApprovalCoversWritten
  <2>1. evidence \in SUBSET Records /\ Stamped(evidence)
    BY DEF Sound, TypeOK, Orderly, RowsAreCovered
  <2>2. approvals # <<>> /\ approvals[Len(approvals)].content = Hash(evidence)
    BY DEF InForce, CurrentStatus
  <2>3. PICK set \in SUBSET Records :
               /\ Stamped(set)
               /\ approvals[Len(approvals)].content = Hash(set)
               /\ said = Said(set)
    BY <2>2 DEF Orderly, RowsAreCovered
  <2> QED
    BY <2>1, <2>2, <2>3, HashCoversSaid
<1> QED
  BY <1>1, AlwaysOrderly, PTL
=============================================================================
