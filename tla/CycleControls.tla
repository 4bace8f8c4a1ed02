---------------------------- MODULE CycleControls ---------------------------
(***************************************************************************)
(* The controls of assurance cycles: created by hand, updated by their     *)
(* assignees, and carried from the previous cycle to the next one across a *)
(* change of framework version (api/routes/control_governance.py and       *)
(* services/control_governance.py).                                        *)
(*                                                                         *)
(* A _save is one step here, the upsert of the row: what follows it, the   *)
(* event for the ledger, touches no cycle control and is GovernanceLedger's*)
(* subject.  There are two cycles; the definitions of the two framework    *)
(* versions do not change meanwhile.  Time is the number of saves (clock). *)
(* The assignee is carried and updated as the applicability is, and left   *)
(* out.                                                                    *)
(***************************************************************************)
EXTENDS Integers, SequencesExt, FiniteSets

CONSTANTS
    Workers,       \* the threads that run handlers
    NoRecord,      \* no row
    NoOp,          \* a worker that runs no handler
    MaxSaves,      \* bound on the number of saves
    OldDefs,       \* control definitions of the previous cycle's version
    NewDefs,       \* control definitions of the next cycle's version
    Internal,      \* organization controls: not tied to a version
    Uid, DisplayCode, Body,  \* what a definition says
    Asks,          \* the updates in play: fields to set, and a note or not
    Bases,         \* evidence_set_hash values
    ByHand,        \* bound: the cycle controls that are created by hand
    Given          \* bound: the applicabilities each of them may be given

Defs == OldDefs \cup NewDefs

ASSUME DefsAssumption ==
    /\ OldDefs \cap NewDefs = {} /\ Internal \cap Defs = {}
    /\ \A D \in {OldDefs, NewDefs} : \A c, d \in D : Uid[c] = Uid[d] => c = d

VARIABLES
    projection,    \* the latest record of each cycle control
    op,            \* the handler each worker runs and its local variables
    clock,         \* number of saves
    crossed        \* history: a request has begun while another was served

vars == <<projection, op, clock, crossed>>

Judgements == {"effective", "ineffective"}

Values(f) ==
    CASE f = "evidence"      -> {"missing", "approved"}
      [] f = "assessment"    -> {"not_assessed"} \cup Judgements
      [] f = "applicability" -> {"pending_assessment", "applicable"}
      [] f = "pending"       -> {"review", "settled"}

(* "pending" is applicability_pending_review: true is "review".            *)
Fields == {"evidence", "assessment", "applicability", "pending"}

Entities == [cycle : {"previous", "next"}, ref : Defs \cup Internal]

ASSUME ByHandAssumption ==
    /\ ByHand \subseteq Entities
    /\ \A e \in ByHand : Given[e] \subseteq Values("applicability")

ASSUME AsksAssumption ==
    \A ask \in Asks :
        /\ DOMAIN ask.set \subseteq Fields \ {"pending"}
        /\ \A f \in DOMAIN ask.set : ask.set[f] \in Values(f)

(* The part of the fields that an entry of the history notes.              *)
Notes == UNION {[D -> UNION {Values(f) : f \in Fields}] : D \in SUBSET Fields}

(* A row: reason is migration_reason, review requires_design_review, from  *)
(* inherited_from.                                                         *)
Controls ==
    [state : [Fields -> UNION {Values(f) : f \in Fields}],
     reason : {"", "new", "carried", "renumbered", "text_changed"},
     review : BOOLEAN,
     from : Defs \cup Internal,
     history : Seq([ts : Nat, changed : Notes]),
     assessments : Seq([version : Nat, status : Judgements, basis : Bases])]

(* No row is told from every row.                                          *)
ASSUME NoRecordAssumption == NoRecord \notin Controls

-----------------------------------------------------------------------------
(* Records *)

Exists(e) == projection[e] # NoRecord

(* build_cycle_control *)
NewControl(ref, applicability, now) ==
    LET initial == [evidence |-> "missing", assessment |-> "not_assessed",
                    applicability |-> applicability]
    IN  [state |-> [f \in Fields |-> IF f = "pending" THEN "settled" ELSE initial[f]],
         reason |-> "", review |-> FALSE, from |-> ref,
         history |-> <<[ts |-> now, changed |-> initial]>>,
         assessments |-> <<>>]

(* The fields an update sets: naming the applicability confirms it.        *)
Wanted(ask) ==
    [f \in DOMAIN ask.set \cup
            (IF "applicability" \in DOMAIN ask.set THEN {"pending"} ELSE {}) |->
        IF f = "pending" THEN "settled" ELSE ask.set[f]]

Changed(cc, ask) == {f \in DOMAIN Wanted(ask) : cc.state[f] # Wanted(ask)[f]}

NoChange(cc, ask) == Changed(cc, ask) = {} /\ ~ask.note

(* Mutant: the evidence status is left out of the history.                 *)
NotedButEvidence(cc, ask) ==
    [f \in Changed(cc, ask) \ {"evidence"} |-> Wanted(ask)[f]]

(* What the history notes of an update: the fields that changed.           *)
Noted(cc, ask) == [f \in Changed(cc, ask) |-> Wanted(ask)[f]]

NextVersion(cc) == Len(cc.assessments) + 1

Judged(cc, ask) ==
    "assessment" \in Changed(cc, ask) /\ Wanted(ask).assessment \in Judgements

(* Mutant: a judgement takes the place of the earlier ones.                *)
OnlyTheLast(cc, ask, basis) ==
    IF Judged(cc, ask)
    THEN <<[version |-> 1, status |-> Wanted(ask).assessment, basis |-> basis]>>
    ELSE cc.assessments

(* A judgement is frozen with the evidence set it stands on.               *)
Frozen(cc, ask, basis) ==
    IF Judged(cc, ask)
    THEN Append(cc.assessments, [version |-> NextVersion(cc),
                                 status |-> Wanted(ask).assessment, basis |-> basis])
    ELSE cc.assessments

(* apply_cycle_control_update *)
Updated(cc, ask, basis, now) ==
    [cc EXCEPT
       !.state = [f \in Fields |->
                    IF f \in DOMAIN Wanted(ask) THEN Wanted(ask)[f] ELSE @[f]],
       !.history = Append(@, [ts |-> now, changed |-> Noted(cc, ask)]),
       !.assessments = Frozen(cc, ask, basis)]

(* cycle_control_as_of: replay the history up to the first later entry     *)
AsOf(cc, t) ==
    LET h == cc.history
        played == {i \in 1..Len(h) : \A j \in 1..i : h[j].ts <= t}
        before == NewControl(cc.from, "pending_assessment", t).state
    IN  [f \in Fields |->
            LET setters == {i \in played : f \in DOMAIN h[i].changed}
            IN  IF setters = {} THEN before[f] ELSE h[Max(setters)].changed[f]]

-----------------------------------------------------------------------------
(* Migration of a cycle to another framework version *)

(* Mutant: a control whose number changed is not compared further.         *)
CodeFirst(old, new) ==
    IF DisplayCode[old] # DisplayCode[new] THEN "renumbered"
    ELSE IF Body[old] # Body[new] THEN "text_changed" ELSE "carried"

(* _migration_reason *)
MigrationReason(old, new) ==
    IF Body[old] # Body[new] THEN "text_changed"
    ELSE IF DisplayCode[old] # DisplayCode[new] THEN "renumbered" ELSE "carried"

(* The applicability is carried, to be reviewed; evidence and assessment   *)
(* start over.                                                             *)
CarriedState(prev) ==
    [evidence |-> "missing", assessment |-> "not_assessed",
     applicability |-> prev.state.applicability, pending |-> "review"]

(* _carry_cycle_control *)
Carried(prev, ref, from, reason, now) ==
    [NewControl(ref, prev.state.applicability, now) EXCEPT
       !.state = CarriedState(prev),
       !.reason = reason, !.review = reason = "text_changed", !.from = from,
       !.history = Append(@, [ts |-> now, changed |-> <<>>])]

(* Mutant: a definition that is not new in the version is not laid down.   *)
OnlyAdded(seen) == {n \in NewDefs : \A o \in OldDefs : Uid[o] # Uid[n]}

(* The definitions no control of the previous cycle leads to.              *)
Unseen(seen) == {n \in NewDefs : \A o \in seen \cap OldDefs : Uid[o] # Uid[n]}

(* plan_cycle_migration: seen is the set of controls the previous cycle    *)
(* has; a control whose definition is gone from the new version is only    *)
(* reported.                                                               *)
Plan(seen, now) ==
    LET prev(r) == projection[[cycle |-> "previous", ref |-> r]]
    IN  {[ref |-> r, rec |-> Carried(prev(r), r, r, "carried", now)]
            : r \in seen \ OldDefs}
        \cup
        {[ref |-> p[2], rec |-> Carried(prev(p[1]), p[2], p[1],
                                        MigrationReason(p[1], p[2]), now)]
            : p \in {q \in (seen \cap OldDefs) \X NewDefs : Uid[q[1]] = Uid[q[2]]}}
        \cup
        {[ref |-> n, rec |-> [NewControl(n, "pending_assessment", now) EXCEPT
                                !.reason = "new", !.review = TRUE,
                                !.history = Append(@, [ts |-> now, changed |-> <<>>])]]
            : n \in Unseen(seen)}

-----------------------------------------------------------------------------
Init ==
    /\ projection = [e \in Entities |-> NoRecord]
    /\ op = [w \in Workers |-> NoOp]
    /\ clock = 0
    /\ crossed = FALSE

At(w, s) == op[w] # NoOp /\ op[w].step = s

Begin(w, r) ==
    /\ op[w] = NoOp
    /\ op' = [op EXCEPT ![w] = r]
    /\ crossed' = (crossed \/ \E v \in Workers : op[v] # NoOp)
    /\ UNCHANGED <<projection, clock>>

Finish(w) ==
    /\ op' = [op EXCEPT ![w] = NoOp]
    /\ UNCHANGED <<projection, clock, crossed>>

(* save_governance: INSERT ... ON CONFLICT DO UPDATE, whatever was there   *)
Upserted(e, p) == [projection EXCEPT ![e] = p]

Save(e, p) ==
    /\ clock < MaxSaves
    /\ clock' = clock + 1
    /\ projection' = Upserted(e, p)
    /\ UNCHANGED crossed

(* POST cycle-controls, with any applicability: the row does not exist yet *)
CreateControl(w, e, applicability) ==
    /\ ~Exists(e)
    /\ Begin(w, [step |-> "save", of |-> e,
                 rec |-> NewControl(e.ref, applicability, clock)])

(* POST cycle-controls/{id}/update: load, change the copy ...              *)
UpdateControl(w, e, ask, basis) ==
    /\ Exists(e)
    /\ ~NoChange(projection[e], ask)
    /\ Begin(w, [step |-> "save", of |-> e,
                 rec |-> Updated(projection[e], ask, basis, clock)])

(* ... and save it, as a creation does.                                    *)
SaveControl(w) ==
    /\ At(w, "save")
    /\ Save(op[w].of, op[w].rec)
    /\ op' = [op EXCEPT ![w] = NoOp]

(* POST assurance-cycles/next/initialize-from/previous: load the controls  *)
(* of the previous cycle and plan ...                                      *)
InitializeCycle(w) ==
    LET seen == {r \in Defs \cup Internal : Exists([cycle |-> "previous", ref |-> r])}
    IN  /\ seen # {}
        /\ Begin(w, [step |-> "find", seen |-> seen, plan |-> Plan(seen, clock)])

(* ... look up each planned control, in whatever order the rows came, and  *)
(* go on if it is there ...                                                *)
FindPlanned(w, p) ==
    /\ At(w, "find")
    /\ p \in op[w].plan
    /\ op' = IF Exists([cycle |-> "next", ref |-> p.ref])
             THEN [op EXCEPT ![w].plan = @ \ {p}]
             ELSE [op EXCEPT ![w] = [step |-> "lay", seen |-> @.seen,
                                     plan |-> @.plan, next |-> p]]
    /\ UNCHANGED <<projection, clock, crossed>>

(* ... save it otherwise ...                                               *)
SavePlanned(w) ==
    /\ At(w, "lay")
    /\ Save([cycle |-> "next", ref |-> op[w].next.ref], op[w].next.rec)
    /\ op' = [op EXCEPT ![w] = [step |-> "find", seen |-> @.seen,
                                plan |-> @.plan \ {@.next}]]

(* ... and answer when the plan is done.                                   *)
EndMigration(w) == At(w, "find") /\ op[w].plan = {} /\ Finish(w)

(* A load or a save raises, or the process dies: the rest of the plan is   *)
(* dropped.  (A creation or an update that fails has changed nothing.)     *)
Abort(w) == (At(w, "find") \/ At(w, "lay")) /\ Finish(w)

Next ==
    \E w \in Workers :
        \/ \E e \in ByHand : \E applicability \in Given[e] :
              CreateControl(w, e, applicability)
        \/ \E e \in Entities, ask \in Asks, basis \in Bases :
              UpdateControl(w, e, ask, basis)
        \/ SaveControl(w)
        \/ InitializeCycle(w)
        \/ \E p \in IF At(w, "find") THEN op[w].plan ELSE {} : FindPlanned(w, p)
        \/ SavePlanned(w) \/ EndMigration(w) \/ Abort(w)

Spec == Init /\ [][Next]_vars

-----------------------------------------------------------------------------
(* Properties *)

Rows == {e \in Entities : Exists(e)}

(* The present state of a control is what its history replays to, so an    *)
(* audit as of now shows what the screens show, whichever copies were      *)
(* saved over each other.                                                  *)
HistoryReplays ==
    \A e \in Rows : \A f \in Fields \ {"pending"} :
        AsOf(projection[e], clock)[f] = projection[e].state[f]

(* diff_control_definitions: the controls of both versions, by uid *)
InBoth == {p \in OldDefs \X NewDefs : Uid[p[1]] = Uid[p[2]]}
TextChanged == {p[2] : p \in {q \in InBoth : Body[q[1]] # Body[q[2]]}}
Renumbered ==
    {p[2] : p \in {q \in InBoth : DisplayCode[q[1]] # DisplayCode[q[2]]}} \ TextChanged
Unchanged == {p[2] : p \in InBoth} \ (TextChanged \cup Renumbered)

(* What a migration says of a carried control is what the comparison of    *)
(* the two versions says of its definition, and it is put to review        *)
(* exactly when its text changed.                                          *)
MigrationAgreesWithDiff ==
    \A e \in Rows :
        LET cc == projection[e]
        IN  e.ref \in NewDefs /\ cc.reason \notin {"", "new"} =>
                /\ cc.reason = "text_changed" <=> e.ref \in TextChanged
                /\ cc.reason = "renumbered" <=> e.ref \in Renumbered
                /\ cc.reason = "carried" <=> e.ref \in Unchanged
                /\ cc.review <=> e.ref \in TextChanged
                /\ Uid[cc.from] = Uid[e.ref]

(* A migration that answers has laid down every definition of the new      *)
(* version and a successor of every control it saw but the removed ones,   *)
(* even if an earlier attempt was cut short.                               *)
MigrationComplete ==
    [][\A w \in Workers : EndMigration(w) =>
          \A r \in NewDefs \cup (op[w].seen \ OldDefs) :
              Exists([cycle |-> "next", ref |-> r])]_op

SamePast(e) ==
    /\ \A t \in 0..(clock - 1) :
          projection'[e] = projection[e] \/ AsOf(projection'[e], t) = AsOf(projection[e], t)
    /\ IsPrefix(projection[e].assessments, projection'[e].assessments)

(* While requests do not cross, the past of a control stays as it was      *)
(* reported: no later update, migration or retry changes what an audit as  *)
(* of an earlier moment replays, nor a frozen judgement.                   *)
PastIsKept ==
    [][~crossed' => \A e \in Rows : SamePast(e)]_projection

-----------------------------------------------------------------------------
(* What the code says of itself, checked against what it does.             *)

(* build_cycle_audit_snapshot: the state as of an audit can be reproduced  *)
(* whatever happens to the present values.                                 *)
PastReproducible == [][\A e \in Rows : SamePast(e)]_projection
=============================================================================
