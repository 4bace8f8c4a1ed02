---------------------------- MODULE GapWorkflow -----------------------------
(***************************************************************************)
(* Technical gaps: found by a scan or a person, judged, remediated, closed *)
(* (services/gap_workflow.py, gap_create, gap_transition and               *)
(* gaps_deadlines of api/routes/compliance.py, save_gap and load_gaps of   *)
(* repositories/state_postgres.py).                                        *)
(*                                                                         *)
(* A transition loads the latest gaps, changes its own copy and saves the  *)
(* whole row.  A creation saves the row without looking: the id is derived *)
(* from what was found, so finding it again starts the gap over.           *)
(* Time runs in half days; a due date is a day.                            *)
(***************************************************************************)
EXTENDS Integers, SequencesExt, FiniteSets

CONSTANTS
    Workers,     \* the threads that run handlers
    Gaps,        \* gap ids
    NoGap,       \* no row
    NoOp,        \* a worker that runs no handler
    NoDate,      \* no due date
    DueDays,     \* due dates in play
    Window,      \* the limit of load_gaps: 1000 in the code
    SoonDays,    \* 14 in the code
    MaxMoves,    \* bound on the length of a history
    MaxTime      \* bound on the clock

ASSUME DatesAssumption ==
    DueDays \subseteq Nat /\ NoDate \notin DueDays /\ SoonDays \in Nat

VARIABLES
    gaps,        \* the row of each gap
    recent,      \* the gaps in the order of updated_at, the latest last
    op,          \* the handler each worker runs: its copy of the row
    time,        \* the present, in half days
    crossed      \* history: a request has begun while another was served

vars == <<gaps, recent, op, time, crossed>>

Statuses == {"candidate", "confirmed", "policy_review", "false_positive",
             "remediation", "accepted_exception", "resolved"}
Open == {"candidate", "confirmed", "policy_review", "remediation"}

-----------------------------------------------------------------------------
(* can_transition *)
CanTransition(current, target) ==
    \/ target = "confirmed" /\ current \in {"candidate", "policy_review", "remediation",
                                            "accepted_exception"}
    \/ target = "false_positive" /\ current \in {"candidate", "policy_review"}
    \/ target = "policy_review" /\ current = "candidate"
    \/ target \in {"remediation", "accepted_exception"} /\ current = "confirmed"
    \/ target = "resolved" /\ current = "remediation"

(* build_gap *)
NewGap == [status |-> "candidate", due |-> NoDate, basis |-> "",
           history |-> <<"candidate">>]

(* The ground of a resolution: manual unless something else is said.       *)
Basis(type) == IF type = "" THEN "manually_verified" ELSE type

(* Mutant: confirming a gap again starts its history over.                 *)
Reconfirmed(gap, target, due, type) ==
    [gap EXCEPT !.status = target,
                !.due = IF due = NoDate THEN @ ELSE due,
                !.basis = IF target = "resolved" THEN Basis(type) ELSE @,
                !.history = IF target = "confirmed" THEN <<"candidate", target>>
                            ELSE Append(@, target)]

(* apply_transition *)
Applied(gap, target, due, type) ==
    [gap EXCEPT !.status = target,
                !.due = IF due = NoDate THEN @ ELSE due,
                !.basis = IF target = "resolved" THEN Basis(type) ELSE @,
                !.history = Append(@, target)]

(* Mutant of the upsert: the history column is not updated.                *)
StatusOnly(g, row) ==
    [gaps EXCEPT ![g] = IF @ = NoGap THEN row ELSE [row EXCEPT !.history = gaps[g].history]]

(* save_gap: INSERT ... ON CONFLICT DO UPDATE *)
Saved(g, row) == [gaps EXCEPT ![g] = row]

Touched(g) == Append(SelectSeq(recent, LAMBDA h : h # g), g)

Rows == {g \in Gaps : gaps[g] # NoGap}

(* load_gaps(): the Window gaps updated last *)
Loaded ==
    {g \in Rows : \E i \in 1..Len(recent) : i > Len(recent) - Window /\ recent[i] = g}

-----------------------------------------------------------------------------
Init ==
    /\ gaps = [g \in Gaps |-> NoGap]
    /\ recent = <<>>
    /\ op = [w \in Workers |-> NoOp]
    /\ time = 0
    /\ crossed = FALSE

Busy == \E v \in Workers : op[v] # NoOp

(* POST gaps *)
CreateGap(g) ==
    /\ gaps' = Saved(g, NewGap)
    /\ recent' = Touched(g)
    /\ crossed' = (crossed \/ Busy)
    /\ UNCHANGED <<op, time>>

(* POST gaps/{id}/transition: load, check, change the copy ...             *)
BeginTransition(w, g, target, due, type) ==
    /\ op[w] = NoOp
    /\ g \in Loaded
    /\ CanTransition(gaps[g].status, target)
    /\ Len(gaps[g].history) < MaxMoves
    /\ op' = [op EXCEPT ![w] = [of |-> g, row |-> Applied(gaps[g], target, due, type)]]
    /\ crossed' = (crossed \/ Busy)
    /\ UNCHANGED <<gaps, recent, time>>

(* ... and save it.                                                        *)
SaveTransition(w) ==
    /\ op[w] # NoOp
    /\ gaps' = Saved(op[w].of, op[w].row)
    /\ recent' = Touched(op[w].of)
    /\ op' = [op EXCEPT ![w] = NoOp]
    /\ UNCHANGED <<time, crossed>>

Tick ==
    /\ time < MaxTime
    /\ time' = time + 1
    /\ UNCHANGED <<gaps, recent, op, crossed>>

Next ==
    \/ \E g \in Gaps : CreateGap(g)
    \/ \E w \in Workers :
          \/ \E g \in Gaps, target \in Statuses, due \in DueDays \cup {NoDate},
                type \in {"", "policy_confirmed"} :
                BeginTransition(w, g, target, due, type)
          \/ SaveTransition(w)
    \/ Tick

Spec == Init /\ [][Next]_vars

-----------------------------------------------------------------------------
(* evaluate_gap_deadlines *)

(* timedelta.days: whole days, rounded down.                               *)
DaysLeft(due) == (2 * due - time) \div 2

(* Mutant: what is due soon is told by the days left, the present not seen.*)
SoonFirst(gap) ==
    IF gap.due = NoDate THEN "none"
    ELSE IF gap.status = "accepted_exception"
         THEN IF DaysLeft(gap.due) \in 0..SoonDays THEN "expiring_soon"
              ELSE IF DaysLeft(gap.due) < -1 THEN "expired_exception" ELSE "none"
         ELSE IF gap.status \in Open /\ 2 * gap.due < time THEN "overdue" ELSE "none"

(* The list of the report a gap is on.                                     *)
Listed(gap) ==
    IF gap.due = NoDate THEN "none"
    ELSE IF gap.status = "accepted_exception"
         THEN IF 2 * gap.due < time THEN "expired_exception"
              ELSE IF DaysLeft(gap.due) <= SoonDays THEN "expiring_soon" ELSE "none"
         ELSE IF gap.status \in Open /\ 2 * gap.due < time THEN "overdue" ELSE "none"

-----------------------------------------------------------------------------
(* Properties *)

(* The history of a gap is a way through the workflow that ends in its     *)
(* status, whichever copies were saved over each other: no gap is an       *)
(* exception or in remediation that nobody had confirmed.                  *)
HistoryIsPath ==
    \A g \in Rows :
        LET h == gaps[g].history
        IN  /\ h[1] = "candidate"
            /\ h[Len(h)] = gaps[g].status
            /\ \A i \in 2..Len(h) : CanTransition(h[i - 1], h[i])

(* While requests do not cross, nothing that was decided on a gap is lost, *)
(* except when it is found again and starts over.                          *)
DecisionsKept ==
    [][\A g \in Rows :
          \/ IsPrefix(gaps[g].history, gaps'[g].history)
          \/ crossed'
          \/ CreateGap(g)]_gaps

Urgency(list) ==
    CASE list = "none" -> 0 [] list = "expiring_soon" -> 1 [] OTHER -> 2

(* A dated gap nobody touches moves towards its deadline in the report and *)
(* never off it: no hour between soon and expired at which it is on no     *)
(* list, and an exception past its date stays reported.                    *)
DeadlinesAdvance ==
    [][\A g \in Rows : gaps'[g] = gaps[g] =>
          Urgency(Listed(gaps[g])') >= Urgency(Listed(gaps[g]))]_vars
=============================================================================
