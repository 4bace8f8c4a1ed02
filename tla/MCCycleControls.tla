-------------------------- MODULE MCCycleControls --------------------------
(* TLC instances of CycleControls: o1 lives on as n1 with another text and *)
(* another number, o2 is removed; k1 is an organization control.           *)
EXTENDS CycleControls, TLC

CONSTANTS o1, o2, n1, k1

UidOf == o1 :> "u1" @@ o2 :> "u2" @@ n1 :> "u1"
CodeOf == o1 :> "1.1" @@ o2 :> "1.2" @@ n1 :> "2.1"
BodyOf == o1 :> "old" @@ o2 :> "same" @@ n1 :> "new"

(* Evidence approved and the control judged effective; the judgement       *)
(* withdrawn with the applicability settled.                               *)
SomeAsks ==
    {[set |-> [evidence |-> "approved", assessment |-> "effective"], note |-> FALSE],
     [set |-> [applicability |-> "applicable", assessment |-> "ineffective"],
      note |-> FALSE]}

PreviousCycle == {[cycle |-> "previous", ref |-> r] : r \in {o1, o2, k1}}

(* o1 may be in scope from the start; the others are to be assessed.       *)
MCGiven ==
    [e \in PreviousCycle |->
        IF e.ref = o1 THEN {"pending_assessment", "applicable"} ELSE {"pending_assessment"}]

Symmetry == Permutations(Workers)
=============================================================================
