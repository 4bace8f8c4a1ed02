----------------------- MODULE MCFrameworkVersions ------------------------
(* TLC instances of FrameworkVersions: two versions v1, v2 of one          *)
(* framework, one control c1 of v1.                                        *)
EXTENDS FrameworkVersions, TLC

CONSTANTS v1, c1

OneFramework == [v \in Versions |-> "isms-p"]
ControlOfV1 == [c \in Controls |-> v1]

Symmetry == Permutations(Workers) \cup Permutations(Actors)
=============================================================================
