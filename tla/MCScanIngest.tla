---------------------------- MODULE MCScanIngest ----------------------------
(* Two scans, one of them run twice with other findings, a report, a       *)
(* privacy flow and an evidence push.                                      *)
EXTENDS ScanIngest, TLC

CONSTANTS r1, r2, r1again, flow, report, envelope, one, item, host, env

MCPushes == {r1, r2, r1again, flow, report, envelope}
MCKindOf == r1 :> "review" @@ r2 :> "review" @@ r1again :> "review"
            @@ flow :> "flow" @@ report :> "report" @@ envelope :> "envelope"
MCRunOf == [p \in MCPushes |-> IF p = r1again THEN r1 ELSE p]
MCSourceOf == [p \in MCPushes |-> IF p = report THEN "trivy" ELSE "code_review"]
MCFound == r1 :> {one} @@ r2 :> {one} @@ r1again :> {}
           @@ flow :> {item} @@ report :> {host} @@ envelope :> {env}
MCSigned == {r1}

Symmetry == Permutations(Workers)
=============================================================================
