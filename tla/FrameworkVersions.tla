------------------------- MODULE FrameworkVersions --------------------------
(***************************************************************************)
(* The framework-version handlers of api/routes/control_governance.py over *)
(* the save path of GovernanceLedger.  A handler loads the records it      *)
(* needs, checks them, and saves the record it has built from its own      *)
(* copy; each load and the save is a transaction of its own, so what was   *)
(* checked may be stale by the time it is saved.                           *)
(*                                                                         *)
(* A request that is refused changes nothing: its refusal is the absence   *)
(* of a step, or the step that drops it (Refuse).                          *)
(***************************************************************************)
EXTENDS Integers, SequencesExt, FiniteSets

CONSTANTS
    Workers, LoadLimit, MayFail, MaxSaves, NoRecord, NoCore,
    Versions,      \* framework versions
    Controls,      \* control definitions
    FrameworkOf,   \* the framework of each version
    VersionOf,     \* the version each control belongs to
    Actors,        \* users with the admin or security role
    Nobody,        \* no one yet
    NoOp,          \* a worker that runs no handler
    Requests,      \* the handlers in play
    SoD,           \* governance_sod: author and approver must differ
    UniqueIndex    \* ux_gov_fv_one_active of schema/019: PostgreSQL only

ASSUME RequestsAssumption ==
    Requests \subseteq {"create", "activate", "retire", "control", "import"}
ASSUME VersionOfAssumption == VersionOf \in [Controls -> Versions]
ASSUME KindsAssumption == Versions \cap Controls = {}

VARIABLES
    projection, ledger, pc, core, head, clock, lost, overlapped,
                   \* see GovernanceLedger
    op,            \* the handler each worker runs and its local variables
    crossed        \* history: a request has begun while another was served

ledgerVars == <<projection, ledger, pc, core, head, clock, lost, overlapped>>
vars == <<projection, ledger, pc, core, head, clock, lost, overlapped, op, crossed>>

Statuses == {"draft", "active", "retired"}

(* A framework_version row: what build_framework_version fills in and      *)
(* apply_version_lifecycle updates; lifecycle keeps the "to" of its        *)
(* entries.                                                                *)
VersionRecord ==
    [status : Statuses, created_by : Actors,
     activated_by : Actors \cup {Nobody},
     lifecycle : UNION {[1..n -> Statuses] : n \in 1..3}]

(* A control_definition row: only its author matters here.                 *)
ControlRecord == [created_by : Actors]

Entities == Versions \cup Controls
Payloads == VersionRecord \cup ControlRecord

(* No row is told from every row.                                          *)
ASSUME NoRecordAssumption == NoRecord \notin Payloads

L == INSTANCE GovernanceLedger

-----------------------------------------------------------------------------
Exists(e) == projection[e] # NoRecord

Status(v) == IF Exists(v) THEN projection[v].status ELSE "none"

(* Mutant: an active version is still mutable.                             *)
IsNotRetired(v) == Status(v) \in {"draft", "active"}

(* is_mutable_version *)
IsMutable(v) == Status(v) = "draft"

(* build_framework_version *)
NewVersion(a) == [status |-> "draft", created_by |-> a,
                  activated_by |-> Nobody, lifecycle |-> <<"draft">>]

(* Mutant: VERSION_TRANSITIONS lets a retired version be activated again.  *)
CanReactivate(current, target) ==
    \/ target = "active" /\ current \in {"draft", "retired"}
    \/ target = "retired" /\ current = "active"

(* can_version_transition *)
CanTransition(current, target) ==
    \/ target = "active" /\ current = "draft"
    \/ target = "retired" /\ current = "active"

(* apply_version_lifecycle *)
Applied(rec, target, a) ==
    [rec EXCEPT !.status = target,
                !.activated_by = IF target = "active" THEN a ELSE @,
                !.lifecycle = Append(@, target)]

(* Mutant: the gate compares the activator with nobody.                    *)
NoGate(author, a) == TRUE

(* _require_not_self_approval *)
MayApprove(author, a) == SoD => author # a

(* Mutant: the index is not unique.                                        *)
AnyRow(e, p) == TRUE

(* The partial unique index: one row with status active per framework.     *)
IndexAllows(e, p) ==
    \/ ~UniqueIndex
    \/ p.status # "active"
    \/ \A u \in Versions \ {e} :
          FrameworkOf[u] = FrameworkOf[e] => Status(u) # "active"

-----------------------------------------------------------------------------
Init ==
    /\ L!Init
    /\ op = [w \in Workers |-> NoOp]
    /\ crossed = FALSE

Idle(w) == op[w] = NoOp /\ pc[w] = "idle"

Begin(w, r) ==
    /\ op' = [op EXCEPT ![w] = r]
    /\ crossed' = (crossed \/ \E v \in Workers : ~Idle(v))
    /\ UNCHANGED ledgerVars

(* The worker is at step s of its handler, with no _save under way.        *)
At(w, s) == pc[w] = "idle" /\ op[w] # NoOp /\ op[w].step = s

Goto(w, s) ==
    op' = [op EXCEPT ![w].step = s] /\ UNCHANGED <<ledgerVars, crossed>>

Refuse(w) == op' = [op EXCEPT ![w] = NoOp] /\ UNCHANGED <<ledgerVars, crossed>>

Save(w, e, p) ==
    /\ L!SaveProjection(w, e, p)
    /\ op' = [op EXCEPT ![w] = NoOp]
    /\ UNCHANGED crossed

(* POST framework-versions: the row does not exist yet (the framework is   *)
(* taken to exist).                                                        *)
CreateVersion(w, v, a) ==
    /\ Idle(w)
    /\ "create" \in Requests
    /\ ~Exists(v)
    /\ Begin(w, [step |-> "create_save", of |-> v, rec |-> NewVersion(a)])

SaveCreated(w) ==
    /\ At(w, "create_save")
    /\ Save(w, op[w].of, op[w].rec)

(* POST framework-versions/{id}/activate: load the version, check its      *)
(* status and the separation of duties ...                                 *)
ActivateVersion(w, v, a) ==
    /\ Idle(w)
    /\ "activate" \in Requests
    /\ CanTransition(Status(v), "active")
    /\ MayApprove(projection[v].created_by, a)
    /\ Begin(w, [step |-> "activate_check", of |-> v,
                 rec |-> Applied(projection[v], "active", a)])

(* ... load the versions again and refuse if another one of the framework  *)
(* is active ...                                                           *)
CheckOthers(w) ==
    /\ At(w, "activate_check")
    /\ LET v == op[w].of
           others == {u \in Versions \ {v} : FrameworkOf[u] = FrameworkOf[v]}
       IN  IF \E u \in others : Status(u) = "active"
           THEN Refuse(w)
           ELSE Goto(w, "activate_save")

(* ... and save the copy; the database may refuse the row (a 500).         *)
SaveActivated(w) ==
    /\ At(w, "activate_save")
    /\ IF IndexAllows(op[w].of, op[w].rec)
       THEN Save(w, op[w].of, op[w].rec)
       ELSE Refuse(w)

(* POST framework-versions/{id}/retire *)
RetireVersion(w, v, a) ==
    /\ Idle(w)
    /\ "retire" \in Requests
    /\ CanTransition(Status(v), "retired")
    /\ Begin(w, [step |-> "retire_save", of |-> v,
                 rec |-> Applied(projection[v], "retired", a)])

SaveRetired(w) ==
    /\ At(w, "retire_save")
    /\ Save(w, op[w].of, op[w].rec)

(* POST control-definitions: the version is a draft (is_mutable_version);  *)
(* a definition of the same id is overwritten.                             *)
CreateControl(w, c, a) ==
    /\ Idle(w)
    /\ "control" \in Requests
    /\ IsMutable(VersionOf[c])
    /\ Begin(w, [step |-> "control_save", of |-> c, rec |-> [created_by |-> a]])

SaveControl(w) ==
    /\ At(w, "control_save")
    /\ Save(w, op[w].of, op[w].rec)

-----------------------------------------------------------------------------
(* POST import-catalog, for a catalogue of one control: the version, then  *)
(* the control, each looked up and saved when missing.                     *)
ImportCatalog(w, c, a) ==
    /\ Idle(w)
    /\ "import" \in Requests
    /\ Begin(w, [step |-> IF Exists(VersionOf[c]) THEN "import_find"
                                                  ELSE "import_version",
                 of |-> c, rec |-> [created_by |-> a]])

ImportVersion(w) ==
    /\ At(w, "import_version")
    /\ L!SaveProjection(w, VersionOf[op[w].of], NewVersion(op[w].rec.created_by))
    /\ op' = [op EXCEPT ![w].step = "import_find"]
    /\ UNCHANGED crossed

ImportFindControl(w) ==
    /\ At(w, "import_find")
    /\ IF Exists(op[w].of) THEN Refuse(w) ELSE Goto(w, "import_control")

ImportControl(w) ==
    /\ At(w, "import_control")
    /\ Save(w, op[w].of, op[w].rec)

(* The rest of a _save whose projection is written.                        *)
RecordEvent(w) == L!Record(w) /\ UNCHANGED <<op, crossed>>

Handle(w) ==
    \/ \E v \in Versions, a \in Actors :
          CreateVersion(w, v, a) \/ ActivateVersion(w, v, a) \/ RetireVersion(w, v, a)
    \/ \E c \in Controls, a \in Actors :
          CreateControl(w, c, a) \/ ImportCatalog(w, c, a)
    \/ SaveCreated(w) \/ CheckOthers(w) \/ SaveActivated(w) \/ SaveRetired(w)
    \/ SaveControl(w)
    \/ ImportVersion(w) \/ ImportFindControl(w) \/ ImportControl(w)

Next == \E w \in Workers : Handle(w) \/ RecordEvent(w)

Spec == Init /\ [][Next]_vars

-----------------------------------------------------------------------------
(* Properties *)

(* At most one active version per framework, whatever checks were stale:   *)
(* what the handler sets out to enforce, and what needs the database's     *)
(* index.                                                                  *)
OneActive ==
    \A u, v \in Versions :
        /\ FrameworkOf[u] = FrameworkOf[v]
        /\ Status(u) = "active"
        /\ Status(v) = "active"
        => u = v

(* With separation of duties on, nobody's own version is ever published by *)
(* themselves, whichever copy of the record was saved last.                *)
NoSelfApproval ==
    SoD => \A v \in Versions :
              Status(v) \in {"active", "retired"} =>
                  projection[v].activated_by # projection[v].created_by

Paths == {<<"draft">>, <<"draft", "active">>, <<"draft", "active", "retired">>}

(* The lifecycle kept in a version is the way to its status, however the   *)
(* copies that were saved interleaved.                                     *)
LifecycleIsPath ==
    \A v \in Versions :
        Exists(v) =>
            /\ projection[v].lifecycle \in Paths
            /\ projection[v].lifecycle[Len(projection[v].lifecycle)] = Status(v)

DefinedControls == {c \in Controls : Exists(c)}

Promise == INSTANCE VersionLifecycle WITH
    status <- [v \in Versions |-> Status(v)],
    defined <- DefinedControls

(* While requests do not cross, they move versions and controls the way    *)
(* the documentation says, with one exception: the catalogue import lays   *)
(* down controls of versions that are no longer drafts.                    *)
ImplementsLifecycle ==
    /\ Promise!Init
    /\ [][\/ crossed'
          \/ Promise!Next
          \/ UNCHANGED projection
          \/ \E w \in Workers : ImportControl(w)]_vars

-----------------------------------------------------------------------------
(* What the documentation says, checked against the code.                  *)

(* create_control and docs/CONTROL_GOVERNANCE.md: no control is added to   *)
(* an active or retired version.                                           *)
PublishedIsFrozen ==
    [][\A c \in Controls :
          projection'[c] # projection[c] => Status(VersionOf[c]) = "draft"]_vars
=============================================================================
