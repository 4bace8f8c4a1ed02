----------------------------- MODULE ChainedLog -----------------------------
(***************************************************************************)
(* What a hash-chained event log promises its readers                      *)
(* (docs/CONTROL_GOVERNANCE.md, schema/018): events are only ever added,   *)
(* one at a time, each linked to the event just before it.                 *)
(***************************************************************************)
EXTENDS Sequences, Integers

CONSTANTS Entry,          \* what may be logged
          Root,           \* the link of the first event
          Link(_, _)      \* the link an event leaves to its successor

VARIABLE log              \* a sequence of [entry, prev]

LastLink(s) == IF s = <<>> THEN Root ELSE Link(s[Len(s)].prev, s[Len(s)].entry)

Init == log = <<>>

Add(x) == log' = Append(log, [entry |-> x, prev |-> LastLink(log)])

Next == \E x \in Entry : Add(x)

Spec == Init /\ [][Next]_log
=============================================================================
