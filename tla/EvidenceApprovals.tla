-------------------------- MODULE EvidenceApprovals -------------------------
(***************************************************************************)
(* The approval life cycle of the evidence of one control:                 *)
(* services/evidence_approval.py and evidence_transition of                *)
(* api/routes/compliance.py.                                               *)
(*                                                                         *)
(* Every decision is a new row that names the content it was made on (the  *)
(* hash over the control's evidence set).  A handler reads the evidence,   *)
(* then the rows, decides, inserts its row and, for an approval, marks the *)
(* approved rows it had loaded as superseded, one transaction each.        *)
(* Evidence changes at any time: scans, imports and uploads write it, and  *)
(* what they write again has the same id.  A record is stamped with its    *)
(* hash when it is written; the table has no column for the stamp, so a    *)
(* restart loads records without one.                                      *)
(* Roles only narrow who may ask for what (ROLE_FOR); every request here   *)
(* is one that an admin may make.                                          *)
(***************************************************************************)
EXTENDS Integers, Sequences, FiniteSets, FiniteSetsExt, SequencesExt

CONSTANTS
    Workers,      \* the threads that run handlers
    Ids, Bodies,  \* the records of evidence and what they may say
    NoOp,         \* a worker that runs no handler
    MaxRows       \* bound on the number of rows

VARIABLES
    evidence,     \* the records of the control in memory: [id, body, stamped]
    approvals,    \* the rows, in the order of created_at
    op,           \* the handler each worker runs and its local variables
    crossed,      \* history: a request has begun while another was served
    cut,          \* history: a handler was cut short or the process restarted
    said          \* history: what the evidence of the latest row said

(* A worker that runs no handler is told from one that is marking rows.    *)
ASSUME NoOpAssumption == NoOp \notin [step : {"supersede"}, old : SUBSET Nat]

vars == <<evidence, approvals, op, crossed, cut, said>>

Statuses == {"draft", "reviewed", "approved", "superseded", "revoked"}

Bag(set, f(_)) == [x \in {f(r) : r \in set} |-> Cardinality({r \in set : f(r) = x})]

(* _control_evidence_state: the hash over the records, each by its stamp   *)
(* or, without one, by its id.                                             *)
Hash(set) == Bag(set, LAMBDA r : IF r.stamped THEN <<"hash", r.body>> ELSE <<"id", r.id>>)

(* History: what the records say.                                          *)
Said(set) == Bag(set, LAMBDA r : r.body)

(* A row: the content it was made on, the status it was inserted with and  *)
(* has now, and the row that was the latest when it was decided (0: none). *)
Row(now, target, latest) ==
    [content |-> now, made |-> target, status |-> target, prev |-> latest]

-----------------------------------------------------------------------------
(* Mutant: a draft may be approved at once.                                *)
CanSkipReview(current, target) ==
    \/ target = "reviewed" /\ current = "draft"
    \/ target = "approved" /\ current \in {"draft", "reviewed"}
    \/ target = "draft" /\ current = "reviewed"
    \/ target = "superseded" /\ current = "approved"
    \/ target = "revoked" /\ current # "revoked"

(* can_transition *)
CanTransition(current, target) ==
    \/ target = "reviewed" /\ current = "draft"
    \/ target = "approved" /\ current = "reviewed"
    \/ target = "draft" /\ current = "reviewed"
    \/ target = "superseded" /\ current = "approved"
    \/ target = "revoked" /\ current # "revoked"

(* Mutant: a revoked row counts for nothing.                               *)
RevokedIsDraft(rows, now) ==
    IF rows = <<>> \/ rows[Len(rows)].content # now
       \/ rows[Len(rows)].status \in {"superseded", "revoked"}
    THEN "draft" ELSE rows[Len(rows)].status

(* _current_approval_status: what the latest row says, unless the content  *)
(* has changed since or the row was superseded.                            *)
CurrentStatus(rows, now) ==
    IF rows = <<>> \/ rows[Len(rows)].content # now
       \/ rows[Len(rows)].status = "superseded"
    THEN "draft" ELSE rows[Len(rows)].status

(* Mutant: only approvals of the same content are replaced.                *)
SameContent(rows, now) ==
    {i \in 1..Len(rows) : rows[i].status = "approved" /\ rows[i].content = now}

(* The rows an approval replaces: the approved ones among those loaded.    *)
Replaced(rows, now) == {i \in 1..Len(rows) : rows[i].status = "approved"}

(* prev_approval_id: the latest row when the decision was made.            *)
Previous(rows) == Len(rows)

Replaces(target) == target = "approved"

(* save_evidence_approval of a new row: its id holds the time, so it is    *)
(* always new.                                                             *)
Inserted(rows, r) == Append(rows, r)

-----------------------------------------------------------------------------
Init ==
    /\ evidence = {}
    /\ approvals = <<>>
    /\ op = [w \in Workers |-> NoOp]
    /\ crossed = FALSE
    /\ cut = FALSE
    /\ said = Said({})

Without(id) == {r \in evidence : r.id # id}

(* Mutant: what is written again keeps the stamp it had.                   *)
StampedOnce(id, body) ==
    /\ evidence' = Without(id) \cup {[id |-> id, body |-> body, stamped |-> Without(id) = evidence]}
    /\ UNCHANGED <<approvals, op, crossed, cut, said>>

(* _persist_evidence: a scan, an import or an upload writes a record.      *)
PutEvidence(id, body) ==
    /\ evidence' = Without(id) \cup {[id |-> id, body |-> body, stamped |-> TRUE]}
    /\ UNCHANGED <<approvals, op, crossed, cut, said>>

(* A record is deleted.                                                    *)
DeleteEvidence(id) ==
    /\ evidence' = Without(id)
    /\ UNCHANGED <<approvals, op, crossed, cut, said>>

(* The process ends, and a new one loads the records.                      *)
Restart ==
    /\ evidence' = {[r EXCEPT !.stamped = FALSE] : r \in evidence}
    /\ op' = [w \in Workers |-> NoOp]
    /\ cut' = TRUE
    /\ UNCHANGED <<approvals, crossed, said>>

At(w, s) == op[w] # NoOp /\ op[w].step = s

(* POST controls/evidence/{id}/transition: read the evidence set ...       *)
ReadEvidence(w) ==
    /\ op[w] = NoOp
    /\ evidence # {}
    /\ op' = [op EXCEPT ![w] = [step |-> "load", seen |-> evidence]]
    /\ crossed' = (crossed \/ \E v \in Workers : op[v] # NoOp)
    /\ UNCHANGED <<evidence, approvals, cut, said>>

(* ... load the rows, and refuse what the status does not allow ...        *)
Decide(w, target) ==
    /\ At(w, "load")
    /\ LET now == Hash(op[w].seen)
       IN  op' = [op EXCEPT ![w] =
             IF CanTransition(CurrentStatus(approvals, now), target)
             THEN [step |-> "save", row |-> Row(now, target, Previous(approvals)),
                   seen |-> @.seen,
                   old |-> IF Replaces(target) THEN Replaced(approvals, now) ELSE {}]
             ELSE NoOp]
    /\ UNCHANGED <<evidence, approvals, crossed, cut, said>>

(* ... insert the row ...                                                  *)
SaveApproval(w) ==
    /\ At(w, "save")
    /\ Len(approvals) < MaxRows
    /\ approvals' = Inserted(approvals, op[w].row)
    /\ said' = Said(op[w].seen)
    /\ op' = [op EXCEPT ![w] = IF @.old = {} THEN NoOp
                               ELSE [step |-> "supersede", old |-> @.old]]
    /\ UNCHANGED <<evidence, crossed, cut>>

(* ... and mark the rows it replaces, the latest first.                    *)
Supersede(w) ==
    /\ At(w, "supersede")
    /\ LET i == Max(op[w].old)
           left == op[w].old \ {i}
       IN  /\ approvals' = [approvals EXCEPT ![i].status = "superseded"]
           /\ op' = [op EXCEPT ![w] = IF left = {} THEN NoOp
                                      ELSE [step |-> "supersede", old |-> left]]
    /\ UNCHANGED <<evidence, crossed, cut, said>>

(* A load or a save raises.                                                *)
CutShort(w) ==
    /\ op[w] # NoOp
    /\ op' = [op EXCEPT ![w] = NoOp]
    /\ cut' = TRUE
    /\ UNCHANGED <<evidence, approvals, crossed, said>>

Next ==
    \/ \E id \in Ids : DeleteEvidence(id) \/ \E body \in Bodies : PutEvidence(id, body)
    \/ Restart
    \/ \E w \in Workers :
          \/ \E target \in Statuses : Decide(w, target)
          \/ ReadEvidence(w) \/ SaveApproval(w) \/ Supersede(w) \/ CutShort(w)

Spec == Init /\ [][Next]_vars

-----------------------------------------------------------------------------
(* Properties *)

(* Whatever interleaves, and whenever the evidence changes under a request,*)
(* a content that was approved had been reviewed: that same content.       *)
ApprovedWasReviewed ==
    \A i \in 1..Len(approvals) : approvals[i].made = "approved" =>
        \E j \in 1..(i - 1) :
            /\ approvals[j].made = "reviewed"
            /\ approvals[j].content = approvals[i].content

InForce ==
    approvals # <<>> /\ CurrentStatus(approvals, Hash(evidence)) = "approved"

(* What is shown as approved says what it said when it was approved, as    *)
(* long as the process has not restarted and no handler was cut short; the *)
(* next definition, which the docs promise, says so without a condition.   *)
ApprovalCoversWritten ==
    InForce /\ ~cut => said = Said(evidence)

(* evidence_transition fixes the content that was approved and the docs    *)
(* say that other content starts a new review: what is shown as approved   *)
(* says what it said when it was approved.                                 *)
ApprovalCoversEvidence == InForce => said = Said(evidence)

(* While requests do not cross and none is cut short, at most one approval *)
(* is in force between requests, and it is the newest one.                 *)
OneInForce ==
    ~crossed /\ ~cut /\ (\A w \in Workers : op[w] = NoOp) =>
        \A i \in 1..Len(approvals) : approvals[i].status = "approved" =>
            \A j \in (i + 1)..Len(approvals) : approvals[j].made # "approved"

(* While requests do not cross, a revoked content gets no new decision     *)
(* before another content got one.                                         *)
RevocationHolds ==
    ~crossed => \A i \in 1..(Len(approvals) - 1) :
        approvals[i].made = "revoked" =>
            approvals[i + 1].content # approvals[i].content
=============================================================================
