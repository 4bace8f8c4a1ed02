-------------------------- MODULE VersionLifecycle --------------------------
(***************************************************************************)
(* What docs/CONTROL_GOVERNANCE.md promises of framework versions: a       *)
(* version is drafted once, may be activated while no other version of its *)
(* framework is active, may be retired once active, and is then over; its  *)
(* controls are laid down while it is a draft.                             *)
(***************************************************************************)
CONSTANTS Versions, Controls, FrameworkOf, VersionOf

VARIABLES status,   \* the status of each version, "none" before it exists
          defined   \* the controls that exist

Init ==
    /\ status = [v \in Versions |-> "none"]
    /\ defined = {}

Move(v, from, to) ==
    /\ status[v] = from
    /\ status' = [status EXCEPT ![v] = to]
    /\ UNCHANGED defined

Draft(v) == Move(v, "none", "draft")

Activate(v) ==
    /\ \A u \in Versions :
          FrameworkOf[u] = FrameworkOf[v] => status[u] # "active"
    /\ Move(v, "draft", "active")

Retire(v) == Move(v, "active", "retired")

Define(c) ==
    /\ status[VersionOf[c]] = "draft"
    /\ defined' = defined \cup {c}
    /\ UNCHANGED status

Next ==
    \/ \E v \in Versions : Draft(v) \/ Activate(v) \/ Retire(v)
    \/ \E c \in Controls : Define(c)

Spec == Init /\ [][Next]_<<status, defined>>
=============================================================================
