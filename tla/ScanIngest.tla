----------------------------- MODULE ScanIngest -----------------------------
(***************************************************************************)
(* What scanners push and what is made of it: api/routes/sources.py        *)
(* (reports, code reviews, privacy flows, evidence envelopes) and the      *)
(* privacy flow rows of api/routes/privacy.py that officers work on.       *)
(*                                                                         *)
(* A handler is a list of writes, each a transaction of its own, in the    *)
(* order of the code; a write that the code guards with try only loses     *)
(* itself when it fails, any other ends the handler.  Flow rows and        *)
(* control evidence are written to a dictionary first and then to their    *)
(* table: the dictionary is what is shown, the table what a restart loads. *)
(* Handlers run in threads and interleave between writes.                  *)
(*                                                                         *)
(* All pushes are of one repository, and a run stands for its commit and   *)
(* run id.  A finding stands for its place in the code (rule, file, line): *)
(* the key of its alert and, hashed, of its flow row.                      *)
(***************************************************************************)
EXTENDS Integers, Sequences, FiniteSets, SequencesExt

CONSTANTS
    Workers,      \* the threads that run handlers
    Pushes,       \* the payloads that clients send, each with its token
    KindOf,       \* "review", "report", "flow" or "envelope", for each push
    RunOf,        \* the scan run a push reports
    SourceOf,     \* the source whose row of source_syncs a push renews
    Found,        \* what a push lists: findings, flow items or envelopes
    Signed,       \* the pushes whose token has a jti
    ManualRows,   \* ids of rows an officer adds
    Controls,     \* CODE_REVIEW_CONTROL_IDS
    None,         \* no row, no handler
    MaxOps        \* bound on the number of handlers started

ASSUME PushAssumption ==
    /\ Signed \subseteq Pushes
    /\ None \notin Pushes
    /\ \A p \in Pushes : KindOf[p] \in {"review", "report", "flow", "envelope"}

ASSUME FiniteAssumption ==
    /\ IsFiniteSet(Pushes) /\ IsFiniteSet(ManualRows) /\ IsFiniteSet(Controls)
    /\ \A p \in Pushes : IsFiniteSet(Found[p])

Scans == {p \in Pushes : KindOf[p] \in {"review", "report"}}
Runs == {RunOf[p] : p \in {q \in Pushes : KindOf[q] = "review"}}
Items(kind) == UNION {Found[p] : p \in {q \in Pushes : KindOf[q] = kind}}
FlowKeys == Items("review") \cup Items("flow") \cup ManualRows

(* The ids of rows added by hand are random, those of scanned rows hashes; *)
(* clients give envelopes no id of a scan event ("cr-scan-...").           *)
ASSUME IdAssumption ==
    /\ ManualRows \cap (Items("review") \cup Items("flow")) = {}
    /\ Runs \cap Items("envelope") = {}

(* A cell is a row of a table, named by the table and its key.             *)
Cached == {<<"flow", k>> : k \in FlowKeys}
          \cup {<<"evidence", rc>> : rc \in Runs \X Controls}
          \cup {<<"setting", "privacy_flow_meta">>}
Cells == Cached \cup {<<"alert", f>> : f \in Items("review") \cup Items("report")}
         \cup {<<"event", e>> : e \in Runs \cup Items("envelope")}
         \cup {<<"sync", SourceOf[p]>> : p \in Scans}

VARIABLES
    tab,          \* the tables, a value for each cell
    mem,          \* the dictionaries of the API process
    seen,         \* _INGEST_REPLAY_SEEN: the tokens taken so far
    op,           \* the handler each worker runs
    ops,          \* the number of handlers started
    kept,         \* history: scans and reports answered with every step counted
    torn,         \* history: runs whose last push was not stored whole
    gone          \* history: runs whose event an administrator deleted

scanVars == <<tab, mem, seen, op, ops, kept, torn, gone>>

-----------------------------------------------------------------------------
(* Rows and the lists of writes *)

(* A flow row: by names who wrote its content, seenBy the content that an  *)
(* officer confirmed.                                                      *)
Officer == "officer"
Row(source, by) == [source |-> source, by |-> by, status |-> "pending", seenBy |-> None]

(* Mutant: the review of the row it replaces is kept.                      *)
SeedKeepsReview(old, p) ==
    IF old = None THEN Row("pii_scan", p)
    ELSE [old EXCEPT !.source = "pii_scan", !.by = p]

(* seed_rows_from_findings: a row without review, whatever it replaces.    *)
SeedRow(old, p) == Row("pii_scan", p)

Write(table, key, val, guarded) ==
    [cell |-> <<table, key>>, val |-> val, guarded |-> guarded]

(* The writes of a function of keys, one by one in some fixed order.       *)
Writes(table, vals, guarded) ==
    LET list == SetToSeq(DOMAIN vals)
    IN  [i \in 1..Len(list) |-> Write(table, list[i], vals[list[i]], guarded)]

(* Mutant: the evidence is filed under the control alone.                  *)
EvidenceByControl(scans) ==
    LET AnyRun == CHOOSE r \in Runs : TRUE
    IN  Writes("evidence", [rc \in {AnyRun : r \in DOMAIN scans} \X Controls |->
                   scans[CHOOSE r \in DOMAIN scans : TRUE]], TRUE)

(* _promote_scan_to_controls, of each run that has a scan: one record per  *)
(* control, its id made of the scan event and the control.                 *)
PromoteScans(scans) ==
    Writes("evidence", [rc \in (DOMAIN scans) \X Controls |-> scans[rc[1]]], TRUE)

(* CollectorIngestionService: entity by entity, the first failure ends it. *)
SaveFindings(p) == Writes("alert", [f \in Found[p] |-> p], FALSE)

(* The one row of the push's source, whatever an earlier push left there.  *)
SaveSync(p) == <<Write("sync", SourceOf[p], p, TRUE)>>

(* ingest_trivy and ingest_wazuh *)
TakeReport(p) == SaveFindings(p) \o SaveSync(p)

(* The rows that ingest_code_review makes of the findings.                 *)
SeedFlow(p) ==
    Writes("flow", [f \in Found[p] |-> SeedRow(mem[<<"flow", f>>], p)], TRUE)

RecordScan(p) == <<Write("event", RunOf[p], p, TRUE)>>

(* ingest_code_review *)
TakeReview(p) ==
    SaveFindings(p) \o SeedFlow(p) \o RecordScan(p)
    \o PromoteScans([r \in {RunOf[p]} |-> p]) \o SaveSync(p)

(* Mutant: every row of the repository is replaced.                        *)
AnyRow(k) == mem[<<"flow", k>>] # None

(* What a privacy flow replaces: never a row added by hand.                *)
Automatic(k) ==
    /\ mem[<<"flow", k>>] # None
    /\ mem[<<"flow", k>>].source \in {"pii_scan", "ai_flow"}

(* ingest_privacy_flow: the automatic rows go one by one, then the items   *)
(* come one by one, and the gaps and summary are kept as a setting.        *)
TakeFlow(p) ==
    Writes("flow", [k \in {j \in FlowKeys : Automatic(j)} |-> None], FALSE)
    \o Writes("flow", [k \in Found[p] |-> Row("ai_flow", p)], FALSE)
    \o <<Write("setting", "privacy_flow_meta", p, TRUE)>>

(* ingest_evidence: the envelopes of one push, by their deterministic ids. *)
TakeEnvelopes(p) == Writes("event", [e \in Found[p] |-> p], FALSE)

Plan(p) ==
    CASE KindOf[p] = "review" -> TakeReview(p)
      [] KindOf[p] = "report" -> TakeReport(p)
      [] KindOf[p] = "flow" -> TakeFlow(p)
      [] KindOf[p] = "envelope" -> TakeEnvelopes(p)

-----------------------------------------------------------------------------
(* Handlers *)

ScanInit ==
    /\ tab = [c \in Cells |-> None]
    /\ mem = [c \in Cached |-> None]
    /\ seen = {}
    /\ op = [w \in Workers |-> None]
    /\ ops = 0
    /\ kept = {}
    /\ torn = {}
    /\ gone = {}

Busy(w) == op[w] # None

Due(w) == Head(op[w].todo)

(* The runs that a list of writes makes evidence or an event of.           *)
RunsOf(writes) ==
    {r \in Runs : \E i \in 1..Len(writes) :
        \/ writes[i].cell = <<"event", r>>
        \/ \E c \in Controls : writes[i].cell = <<"evidence", <<r, c>>>>}

(* The handler in hand; alone: no other has run beside it.                 *)
Handler(p, writes, automatic) ==
    [push |-> p, todo |-> writes, put |-> FALSE, lost |-> FALSE,
     automatic |-> automatic, runs |-> RunsOf(writes),
     alone |-> \A v \in Workers : ~Busy(v)]

Begin(w, h) ==
    /\ ~Busy(w)
    /\ ops < MaxOps
    /\ ops' = ops + 1
    /\ op' = [v \in Workers |-> IF v = w THEN h
                               ELSE IF Busy(v) THEN [op[v] EXCEPT !.alone = FALSE]
                               ELSE None]
    /\ torn' = torn \cup h.runs

StartHandler(w, p, writes, automatic) ==
    /\ Begin(w, Handler(p, writes, automatic))
    /\ UNCHANGED <<tab, mem, kept, gone>>

(* _is_replayed: only a code review is looked up, and its token is marked  *)
(* before anything is stored.                                              *)
Replayed(p) == KindOf[p] = "review" /\ p \in seen

(* POST /ingest/...: a replayed token is answered and nothing more.        *)
Ingest(w, p) ==
    /\ ~Replayed(p)
    /\ StartHandler(w, p, Plan(p), TRUE)
    /\ seen' = IF KindOf[p] = "review" THEN seen \cup ({p} \cap Signed) ELSE seen

(* POST backfill-evidence: the stored scans are promoted again.            *)
Backfill(w) ==
    LET runs == {r \in Runs : tab[<<"event", r>>] # None}
    IN  /\ StartHandler(w, None, PromoteScans([r \in runs |-> tab[<<"event", r>>]]), TRUE)
        /\ UNCHANGED seen

(* DELETE code-review/scan/{id}, of a scan in the list: the event only.    *)
DeleteScan(w, r) ==
    /\ tab[<<"event", r>>] # None
    /\ StartHandler(w, None, <<Write("event", r, None, FALSE)>>, FALSE)
    /\ UNCHANGED seen

(* POST /privacy/data-flow *)
AddRow(w, k) ==
    /\ tab[<<"flow", k>>] = None /\ mem[<<"flow", k>>] = None
    /\ StartHandler(w, None, <<Write("flow", k, Row("manual", Officer), FALSE)>>, FALSE)
    /\ UNCHANGED seen

(* What an officer may make of a row: new fields (the review stays), a     *)
(* confirmation, or the review opened again.                               *)
Edited(row) == [row EXCEPT !.by = Officer]
Confirmed(row) == [row EXCEPT !.status = "confirmed", !.seenBy = row.by]
Reopened(row) == [row EXCEPT !.status = "pending", !.seenBy = None]

(* PUT /privacy/data-flow/{id} and POST .../review, on a row in memory     *)
ChangeRow(w, k) ==
    LET row == mem[<<"flow", k>>]
        cell == <<"flow", k>>
    IN  /\ row # None
        /\ \E new \in {Edited(row), Confirmed(row), Reopened(row)} :
              /\ Begin(w, [Handler(None, <<Write("flow", k, new, FALSE)>>, FALSE)
                             EXCEPT !.put = TRUE])
              /\ mem' = [mem EXCEPT ![cell] = new]
        /\ UNCHANGED <<tab, seen, kept, gone>>

(* DELETE /privacy/data-flow/{id}, or of every row: POST .../reset         *)
DeleteRows(w, keys) ==
    LET shown == {k \in keys : mem[<<"flow", k>>] # None}
    IN  /\ shown # {}
        /\ StartHandler(w, None, Writes("flow", [k \in shown |-> None], FALSE), FALSE)
        /\ UNCHANGED seen

(* POST .../seed-from-scan: rows for the stored code review findings.      *)
SeedFromScan(w) ==
    LET stored == {f \in Items("review") : tab[<<"alert", f>>] # None}
        rows == [f \in stored |-> SeedRow(mem[<<"flow", f>>], tab[<<"alert", f>>])]
    IN  /\ StartHandler(w, None, Writes("flow", rows, FALSE), TRUE)
        /\ UNCHANGED seen

-----------------------------------------------------------------------------
(* The writes of a handler, and what happens to the process *)

(* The dictionary entry; persist then works on what it holds now.          *)
PutInMemory(w) ==
    /\ Busy(w) /\ op[w].todo # <<>> /\ ~op[w].put
    /\ Due(w).cell \in Cached
    /\ mem' = [mem EXCEPT ![Due(w).cell] = Due(w).val]
    /\ op' = [op EXCEPT ![w].put = TRUE]
    /\ UNCHANGED <<tab, seen, ops, kept, torn, gone>>

(* An upsert of the whole record, or its DELETE.                           *)
Stored(c, val) == val

Ready(w) == Busy(w) /\ op[w].todo # <<>> /\ (Due(w).cell \in Cached => op[w].put)

Save(w) ==
    /\ Ready(w)
    /\ LET c == Due(w).cell
       IN  /\ tab' = [tab EXCEPT ![c] = Stored(c, Due(w).val)]
           /\ gone' = IF c[1] = "event" /\ Due(w).val = None THEN gone \cup {c[2]} ELSE gone
    /\ op' = [op EXCEPT ![w].todo = Tail(@), ![w].put = FALSE]
    /\ UNCHANGED <<mem, seen, ops, kept, torn>>

(* Mutant: a failed write is counted with the others.                      *)
CountedAnyway(h) == [h EXCEPT !.todo = Tail(@), !.put = FALSE]

(* A guarded write that fails is logged and not counted; that of the sync  *)
(* row, which no answer counts, is logged only.                            *)
Skipped(h) ==
    [h EXCEPT !.todo = Tail(@), !.put = FALSE,
              !.lost = @ \/ Head(h.todo).cell[1] # "sync"]

SaveFails(w) ==
    /\ Ready(w)
    /\ op' = [op EXCEPT ![w] = IF Due(w).guarded THEN Skipped(@) ELSE None]
    /\ UNCHANGED <<tab, mem, seen, ops, kept, torn, gone>>

(* The answer: scan_recorded, the number promoted and the number seeded.   *)
Answer(w) ==
    /\ Busy(w) /\ op[w].todo = <<>>
    /\ kept' = IF ~op[w].lost
               THEN kept \cup ({op[w].push} \cap Scans)
               ELSE kept
    /\ torn' = IF ~op[w].lost /\ op[w].alone THEN torn \ op[w].runs ELSE torn
    /\ op' = [op EXCEPT ![w] = None]
    /\ UNCHANGED <<tab, mem, seen, ops, gone>>

(* A token older than the replay window is forgotten.                      *)
Forget(p) ==
    /\ p \in seen
    /\ seen' = seen \ {p}
    /\ UNCHANGED <<tab, mem, op, ops, kept, torn, gone>>

(* The process dies with its handlers; a new one loads the tables and has  *)
(* seen no token.                                                          *)
Restart ==
    /\ mem' = [c \in Cached |-> tab[c]]
    /\ seen' = {}
    /\ op' = [w \in Workers |-> None]
    /\ UNCHANGED <<tab, ops, kept, torn, gone>>

ScanNext ==
    \/ \E w \in Workers :
          \/ \E p \in Pushes : Ingest(w, p)
          \/ \E r \in Runs : DeleteScan(w, r)
          \/ \E k \in ManualRows : AddRow(w, k)
          \/ \E k \in FlowKeys : ChangeRow(w, k) \/ DeleteRows(w, {k})
          \/ DeleteRows(w, FlowKeys)
          \/ Backfill(w) \/ SeedFromScan(w)
          \/ PutInMemory(w) \/ Save(w) \/ SaveFails(w) \/ Answer(w)
    \/ \E p \in Pushes : Forget(p)
    \/ Restart

ScanSpec == ScanInit /\ [][ScanNext]_scanVars

-----------------------------------------------------------------------------
(* Properties *)

(* "담당자가 수기 입력한 행은 절대 삭제하지 않는다" (sources.py:801): no    *)
(* scan, push or seeding touches a stored row that an officer added,       *)
(* wherever it is cut short.                                               *)
ManualKept ==
    [][\A k \in ManualRows :
          LET c == <<"flow", k>>
          IN  tab[c] # None /\ tab'[c] # tab[c] =>
                \E w \in Workers : Ready(w) /\ ~op[w].automatic /\ Due(w).cell = c]_scanVars

(* A push that was answered with every step counted is whole: its findings,*)
(* the scan event and the evidence of every control are in the tables,     *)
(* whatever failed or was retried before, unless an administrator deleted  *)
(* the event.  A duplicate answer promises nothing of the kind, and no     *)
(* answer says anything of the sync row: SyncIsTold.                       *)
AnswerIsTrue ==
    \A p \in kept :
        /\ \A f \in Found[p] : tab[<<"alert", f>>] # None
        /\ KindOf[p] = "review" =>
              /\ tab[<<"event", RunOf[p]>>] # None \/ RunOf[p] \in gone
              /\ \A c \in Controls : tab[<<"evidence", <<RunOf[p], c>>>>] # None

(* "부분 성공을 정직하게 보고" (CODE_REVIEW_EVIDENCE.md:188): the answer of a *)
(* scan or report that counts every step leaves a sync row of its source.  *)
(* The code fails this: a sync row that cannot be saved is only logged, and*)
(* the answer is that of a push stored whole.                              *)
SyncIsTold == \A p \in kept : tab[<<"sync", SourceOf[p]>>] # None

(* The control evidence of a recorded scan is the evidence of what the     *)
(* event records, by whichever path it was promoted: at the push, again at *)
(* a repeated run, or by the backfill, unless the last handler of the run  *)
(* was cut short, lost a write or ran beside another.                      *)
EvidenceMatchesScan ==
    \A r \in Runs \ torn : tab[<<"event", r>>] # None =>
        \A c \in Controls : tab[<<"evidence", <<r, c>>>>] = tab[<<"event", r>>]

(* A row shown as confirmed is one an officer confirmed with this content, *)
(* or whose content an officer has typed since: no scan slips new content  *)
(* under an old confirmation.  (A scan withdraws the confirmation.)        *)
ConfirmedWasSeen ==
    \A k \in FlowKeys : \A row \in {mem[<<"flow", k>>], tab[<<"flow", k>>]} :
        row # None /\ row.status = "confirmed" =>
            row.seenBy = row.by \/ row.by = Officer

(* What scan-diff calls new in the later of two runs: the findings whose   *)
(* alert names that run and not the other.                                 *)
FindingsFor(r) == {f \in Items("review") :
    tab[<<"alert", f>>] # None /\ RunOf[tab[<<"alert", f>>]] = r}
DiffNew(base, head) == FindingsFor(head) \ FindingsFor(base)

(* "신규/제거 findings" (CODE_REVIEW_EVIDENCE.md:96): between two recorded  *)
(* scans that were stored whole, new is what the later one found and the   *)
(* earlier one did not.  The code fails this: an alert names only the last *)
(* scan that found it, so a finding that is still there is called new.     *)
DiffIsWhatChanged ==
    \A base, head \in Runs \ torn :
        base # head /\ tab[<<"event", base>>] # None /\ tab[<<"event", head>>] # None
        /\ (\A w \in Workers : ~Busy(w)) =>
            DiffNew(base, head) \subseteq
                Found[tab[<<"event", head>>]] \ Found[tab[<<"event", base>>]]
=============================================================================
