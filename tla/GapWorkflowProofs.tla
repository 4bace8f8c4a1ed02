------------------------ MODULE GapWorkflowProofs -------------------------
(***************************************************************************)
(* Proofs about GapWorkflow, for any handlers, gaps, dates, window and     *)
(* bounds.                                                                 *)
(***************************************************************************)
EXTENDS GapWorkflow, SequenceTheorems, TLAPS

-----------------------------------------------------------------------------
(* A history that begins as a candidate, goes the ways of the workflow and *)
(* ends in a status.                                                       *)
IsPath(h, status) ==
    /\ h \in Seq(Statuses)
    /\ Len(h) >= 1
    /\ h[1] = "candidate"
    /\ h[Len(h)] = status
    /\ \A i \in 2..Len(h) : CanTransition(h[i - 1], h[i])

RowType ==
    [status : Statuses, due : DueDays \cup {NoDate},
     basis : {"", "manually_verified", "policy_confirmed"}, history : Seq(Statuses)]

(* A row that went its way, in the table or in the hands of a handler.     *)
PathRows == {r \in RowType : IsPath(r.history, r.status)}

Sound ==
    /\ gaps \in [Gaps -> PathRows \cup {NoGap}]
    /\ op \in [Workers -> {NoOp} \cup [of : Gaps, row : PathRows]]

-----------------------------------------------------------------------------
(* build_gap starts a path.                                                *)
LEMMA NewGapIsPath == NewGap \in PathRows
<1>1. NewGap \in RowType
  BY DEF NewGap, RowType, Statuses
<1>2. IsPath(<<"candidate">>, "candidate")
  BY DEF IsPath, Statuses
<1> QED
  BY <1>1, <1>2 DEF NewGap, PathRows

(* One more step keeps a path a path.                                      *)
LEMMA PathGrows ==
    ASSUME NEW h, NEW status, NEW target \in Statuses,
           IsPath(h, status), CanTransition(status, target)
    PROVE  IsPath(Append(h, target), target)
<1> DEFINE new == Append(h, target)
<1>1. /\ h \in Seq(Statuses)
      /\ Len(h) \in Nat \ {0}
      /\ h[1] = "candidate"
      /\ h[Len(h)] = status
      /\ \A i \in 2..Len(h) : CanTransition(h[i - 1], h[i])
  BY LenProperties DEF IsPath
<1>2. /\ new \in Seq(Statuses)
      /\ Len(new) = Len(h) + 1
      /\ new[Len(h) + 1] = target
      /\ \A i \in 1..Len(h) : new[i] = h[i]
  BY <1>1, AppendProperties
<1> HIDE DEF new
<1>3. \A n \in Nat \ {0} : \A i \in 2..n : i \in 1..n /\ i - 1 \in 1..n
  OBVIOUS
<1>4. \A i \in 2..Len(h) : CanTransition(new[i - 1], new[i])
  BY <1>1, <1>2, <1>3
<1>5. new[1] = "candidate" /\ new[Len(h)] = status
  BY <1>1, <1>2
<1>6. CanTransition(new[Len(new) - 1], new[Len(new)])
  <2>1. Len(new) - 1 = Len(h)
    BY <1>1, <1>2
  <2> QED
    BY <2>1, <1>2, <1>5
<1>7. \A i \in 2..Len(new) : i \in 2..Len(h) \/ i = Len(new)
  BY <1>1, <1>2
<1>8. \A i \in 2..Len(new) : CanTransition(new[i - 1], new[i])
  BY <1>4, <1>6, <1>7
<1> QED
  BY <1>1, <1>2, <1>5, <1>8 DEF IsPath, new

(* apply_transition goes on with it, when can_transition allows.           *)
LEMMA AppliedIsPath ==
    ASSUME NEW row \in PathRows, NEW target \in Statuses,
           NEW due \in DueDays \cup {NoDate}, NEW type \in {"", "policy_confirmed"},
           CanTransition(row.status, target)
    PROVE  Applied(row, target, due, type) \in PathRows
<1>1. row \in RowType /\ IsPath(row.history, row.status)
  BY DEF PathRows
<1>2. IsPath(Append(row.history, target), target)
  BY <1>1, PathGrows
<1>3. Append(row.history, target) \in Seq(Statuses)
  BY <1>2 DEF IsPath
<1>4. /\ Applied(row, target, due, type) \in RowType
      /\ Applied(row, target, due, type).status = target
      /\ Applied(row, target, due, type).history = Append(row.history, target)
  BY <1>1, <1>3 DEF Applied, RowType, Basis
<1> QED
  BY <1>2, <1>4 DEF PathRows

-----------------------------------------------------------------------------
THEOREM SoundInit == Init => Sound
BY DEF Init, Sound

THEOREM SoundStep == Sound /\ [Next]_vars => Sound'
<1> SUFFICES ASSUME Sound, [Next]_vars PROVE Sound'
  OBVIOUS
<1> USE DEF Sound
<1>1. ASSUME NEW g \in Gaps, CreateGap(g)
      PROVE  Sound'
  <2>1. gaps' = [gaps EXCEPT ![g] = NewGap] /\ op' = op
    BY <1>1 DEF CreateGap, Saved
  <2> QED
    BY <2>1, NewGapIsPath
<1>2. ASSUME NEW w \in Workers, NEW g \in Gaps, NEW target \in Statuses,
             NEW due \in DueDays \cup {NoDate}, NEW type \in {"", "policy_confirmed"},
             BeginTransition(w, g, target, due, type)
      PROVE  Sound'
  <2>1. gaps[g] \in PathRows
    BY <1>2 DEF BeginTransition, Loaded, Rows
  <2>2. Applied(gaps[g], target, due, type) \in PathRows
    BY <1>2, <2>1, AppliedIsPath DEF BeginTransition
  <2>3. /\ gaps' = gaps
        /\ op' = [op EXCEPT ![w] = [of |-> g, row |-> Applied(gaps[g], target, due, type)]]
    BY <1>2 DEF BeginTransition
  <2> QED
    BY <2>2, <2>3
<1>3. ASSUME NEW w \in Workers, SaveTransition(w)
      PROVE  Sound'
  <2>1. op[w] \in [of : Gaps, row : PathRows]
    BY <1>3 DEF SaveTransition
  <2>2. /\ gaps' = [gaps EXCEPT ![op[w].of] = op[w].row]
        /\ op' = [op EXCEPT ![w] = NoOp]
    BY <1>3 DEF SaveTransition, Saved
  <2> QED
    BY <2>1, <2>2
<1>4. CASE Tick
  BY <1>4 DEF Tick
<1>5. CASE UNCHANGED vars
  BY <1>5 DEF vars
<1> HIDE DEF Sound
<1> QED
  BY <1>1, <1>2, <1>3, <1>4, <1>5 DEF Next

(* Whichever copies are saved over each other, and however often a gap is  *)
(* found again, its history is a way through the workflow to its status    *)
(* (gap_transition, apply_transition).                                     *)
THEOREM HistoriesArePaths == Spec => []HistoryIsPath
<1>1. Sound => HistoryIsPath
  <2> SUFFICES ASSUME Sound, NEW g \in Rows
               PROVE  IsPath(gaps[g].history, gaps[g].status)
    BY DEF HistoryIsPath, IsPath
  <2> QED
    BY DEF Sound, Rows, PathRows
<1> QED
  BY SoundInit, SoundStep, <1>1, PTL DEF Spec

-----------------------------------------------------------------------------
(* While requests do not cross, one handler runs at a time, and the copy   *)
(* it is to save goes on with the history that is in the table.            *)
Orderly ==
    ~crossed =>
        /\ \A u, v \in Workers : op[u] # NoOp /\ op[v] # NoOp => u = v
        /\ \A w \in Workers :
              op[w] # NoOp => IsPrefix(gaps[op[w].of].history, op[w].row.history)

LEMMA AppendExtends ==
    ASSUME NEW S, NEW s \in Seq(S), NEW y \in S
    PROVE  IsPrefix(s, Append(s, y)) /\ IsPrefix(s, s)
<1>1. /\ Append(s, y) \in Seq(S) /\ Len(Append(s, y)) = Len(s) + 1 /\ Len(s) \in Nat
      /\ \A i \in 1..Len(s) : Append(s, y)[i] = s[i]
  OBVIOUS
<1>2. SubSeq(Append(s, y), 1, Len(s)) = [i \in 1..Len(s) |-> Append(s, y)[i]]
  BY <1>1
<1>3. SubSeq(s, 1, Len(s)) = [i \in 1..Len(s) |-> s[i]]
  BY <1>1
<1>4. SubSeq(s, 1, Len(s)) = SubSeq(Append(s, y), 1, Len(s))
  BY <1>1, <1>2, <1>3
<1> QED
  BY <1>1, <1>4 DEF IsPrefix

LEMMA RowsHaveHistories ==
    ASSUME Sound, NEW g \in Rows
    PROVE  gaps[g].history \in Seq(Statuses) /\ gaps[g].due \in DueDays \cup {NoDate}
<1>1. gaps[g] \in PathRows
  BY DEF Sound, Rows
<1> QED
  BY <1>1 DEF PathRows, RowType

LEMMA OrderlyInit == Init => Orderly
BY DEF Init, Orderly

LEMMA OrderlyStep == Sound /\ Orderly /\ [Next]_vars => Orderly'
<1> SUFFICES ASSUME Sound, Orderly, [Next]_vars PROVE Orderly'
  OBVIOUS
<1>1. ASSUME NEW g \in Gaps, CreateGap(g)
      PROVE  Orderly'
  <2>1. ~crossed' => \A v \in Workers : op[v] = NoOp
    BY <1>1, Zenon DEF CreateGap, Busy
  <2>2. op' = op
    BY <1>1 DEF CreateGap
  <2> QED
    BY <2>1, <2>2 DEF Orderly
<1>2. ASSUME NEW w \in Workers, NEW g \in Gaps, NEW target \in Statuses,
             NEW due \in DueDays \cup {NoDate}, NEW type \in {"", "policy_confirmed"},
             BeginTransition(w, g, target, due, type)
      PROVE  Orderly'
  <2> DEFINE h == gaps[g].history
             row == Applied(gaps[g], target, due, type)
  <2>1. ~crossed' => \A v \in Workers : op[v] = NoOp
    BY <1>2, Zenon DEF BeginTransition, Busy
  <2>2. gaps' = gaps /\ op' = [op EXCEPT ![w] = [of |-> g, row |-> row]]
    BY <1>2 DEF BeginTransition
  <2>3. g \in Rows
    BY <1>2 DEF BeginTransition, Loaded
  <2>4. IsPrefix(h, Append(h, target))
    BY <2>3, RowsHaveHistories, AppendExtends
  <2>5. row.history = Append(h, target)
    <3>1. gaps[g] \in RowType
      BY <2>3 DEF Sound, Rows, PathRows
    <3> QED
      BY <3>1 DEF Applied, RowType
  <2> HIDE DEF row
  <2>6. /\ op'[w] = [of |-> g, row |-> row]
        /\ \A v \in Workers : v # w => op'[v] = op[v]
    BY <2>2 DEF Sound
  <2>7. op'[w].of = g /\ op'[w].row = row
    <3> DEFINE r == [of |-> g, row |-> row]
    <3>1. r.of = g /\ r.row = row
      OBVIOUS
    <3>2. op'[w] = r
      BY <2>6
    <3> HIDE DEF r
    <3> QED
      BY <3>1, <3>2
  <2>8. IsPrefix(gaps'[op'[w].of].history, op'[w].row.history)
    BY <2>2, <2>4, <2>5, <2>7
  <2> HIDE DEF h
  <2> QED
    BY <2>1, <2>6, <2>8 DEF Orderly
<1>3. ASSUME NEW w \in Workers, SaveTransition(w)
      PROVE  Orderly'
  <2>1. (crossed' <=> crossed) /\ op[w] # NoOp /\ op' = [op EXCEPT ![w] = NoOp]
    BY <1>3 DEF SaveTransition
  <2>2. op'[w] = NoOp /\ \A v \in Workers : v # w => op'[v] = op[v]
    BY <2>1 DEF Sound
  <2>3. ~crossed => \A v \in Workers : op'[v] = NoOp
    BY <2>1, <2>2 DEF Orderly
  <2> QED
    BY <2>1, <2>3 DEF Orderly
<1>4. CASE Tick
  <2>1. op' = op /\ gaps' = gaps /\ (crossed' <=> crossed)
    BY <1>4 DEF Tick
  <2> QED
    BY <2>1 DEF Orderly
<1>5. CASE UNCHANGED vars
  <2>1. op' = op /\ gaps' = gaps /\ (crossed' <=> crossed)
    BY <1>5 DEF vars
  <2> QED
    BY <2>1 DEF Orderly
<1> QED
  BY <1>1, <1>2, <1>3, <1>4, <1>5 DEF Next

(* While requests do not cross, nothing that was decided on a gap is lost, *)
(* except when it is found again and starts over (gap_create,              *)
(* gap_transition).                                                        *)
THEOREM DecisionsAreKept == Spec => DecisionsKept
<1>1. Init => Sound /\ Orderly
  BY SoundInit, OrderlyInit
<1>2. Sound /\ Orderly /\ [Next]_vars => (Sound /\ Orderly)'
  BY SoundStep, OrderlyStep
<1>3. Sound /\ Orderly /\ [Next]_vars =>
         [\A g \in Rows : \/ IsPrefix(gaps[g].history, gaps'[g].history)
                          \/ crossed'
                          \/ CreateGap(g)]_gaps
  <2> SUFFICES ASSUME Sound, Orderly, Next, NEW g \in Rows, ~crossed', ~CreateGap(g)
               PROVE  IsPrefix(gaps[g].history, gaps'[g].history)
    BY Zenon DEF vars
  <2>1. CASE gaps'[g] = gaps[g]
    BY <2>1, RowsHaveHistories, AppendExtends DEF Statuses
  <2>2. ASSUME NEW d \in Gaps, CreateGap(d)
        PROVE  gaps'[g] = gaps[g]
    BY <2>2 DEF CreateGap, Saved, Sound, Rows
  <2>3. ASSUME NEW w \in Workers, SaveTransition(w)
        PROVE  IsPrefix(gaps[g].history, gaps'[g].history)
    <3>1. /\ op[w] # NoOp /\ (crossed' <=> crossed)
          /\ gaps' = [gaps EXCEPT ![op[w].of] = op[w].row]
      BY <2>3 DEF SaveTransition, Saved
    <3>2. CASE op[w].of = g
      <4>1. gaps'[g] = op[w].row
        BY <3>1, <3>2 DEF Sound, Rows
      <4>2. IsPrefix(gaps[op[w].of].history, op[w].row.history)
        BY <3>1 DEF Orderly
      <4> QED
        BY <3>2, <4>1, <4>2
    <3>3. CASE op[w].of # g
      <4>1. gaps'[g] = gaps[g]
        BY <3>1, <3>3 DEF Sound, Rows
      <4> QED
        BY <4>1, <2>1
    <3> QED
      BY <3>2, <3>3
  <2>4. ASSUME NEW w \in Workers, NEW d \in Gaps, NEW target \in Statuses,
               NEW due \in DueDays \cup {NoDate}, NEW type \in {"", "policy_confirmed"},
               BeginTransition(w, d, target, due, type)
        PROVE  gaps'[g] = gaps[g]
    BY <2>4 DEF BeginTransition
  <2>5. Tick => gaps'[g] = gaps[g]
    BY DEF Tick
  <2> QED
    BY <2>1, <2>2, <2>3, <2>4, <2>5 DEF Next
<1> QED
  BY <1>1, <1>2, <1>3, PTL DEF Spec, DecisionsKept

-----------------------------------------------------------------------------
(* The deadline report *)

LEMMA UrgencyIs ==
    /\ Urgency("none") = 0 /\ Urgency("expiring_soon") = 1
    /\ Urgency("expired_exception") = 2 /\ Urgency("overdue") = 2
<1>1. "none" # "expiring_soon" /\ "none" # "expired_exception" /\ "none" # "overdue"
      /\ "expiring_soon" # "expired_exception" /\ "expiring_soon" # "overdue"
  OBVIOUS
<1> QED
  BY <1>1, Zenon DEF Urgency

(* The whole days left do not grow while time passes.                      *)
LEMMA DaysLeftFall ==
    ASSUME NEW due \in Nat, NEW t \in Nat, NEW u \in Nat, t <= u, u <= 2 * due
    PROVE  (2 * due - u) \div 2 <= (2 * due - t) \div 2
OBVIOUS

(* A dated gap nobody touches moves towards its deadline in the report and *)
(* never off it (evaluate_gap_deadlines).                                  *)
THEOREM ReportAdvances == Spec => DeadlinesAdvance
<1> DEFINE Timed == Sound /\ time \in Nat
<1>1. Init => Timed
  BY SoundInit DEF Init
<1>2. Timed /\ [Next]_vars => Timed' /\ time <= time'
  <2> SUFFICES ASSUME Timed, [Next]_vars PROVE Timed' /\ time <= time'
    OBVIOUS
  <2>1. time' = time \/ time' = time + 1
    BY Zenon DEF Next, CreateGap, BeginTransition, SaveTransition, Tick, vars
  <2> QED
    BY <2>1, SoundStep
<1>3. Timed /\ [Next]_vars =>
         [\A g \in Rows : gaps'[g] = gaps[g] =>
             Urgency(Listed(gaps[g])') >= Urgency(Listed(gaps[g]))]_vars
  <2> SUFFICES ASSUME Timed, [Next]_vars, NEW g \in Rows, gaps'[g] = gaps[g]
               PROVE  Urgency(Listed(gaps[g])') >= Urgency(Listed(gaps[g]))
    BY Zenon
  <2>1. PICK gap : gap = gaps[g]
    OBVIOUS
  <2>2. gap.due \in DueDays \cup {NoDate} /\ time \in Nat /\ time' \in Nat
        /\ time <= time' /\ SoonDays \in Nat /\ DueDays \subseteq Nat
    BY <1>2, <2>1, RowsHaveHistories, DatesAssumption
  <2>3. Listed(gaps[g])' = Listed(gap)' /\ Listed(gaps[g]) = Listed(gap)
    BY <2>1 DEF Listed, DaysLeft
  <2>4. CASE gap.due = NoDate
    BY <2>3, <2>4, UrgencyIs DEF Listed
  <2>5. CASE gap.due # NoDate /\ 2 * gap.due < time'
    <3>1. CASE gap.status = "accepted_exception"
      <4>1. Listed(gap)' = "expired_exception"
        BY <2>5, <3>1 DEF Listed
      <4>2. Listed(gap) \in {"none", "expiring_soon", "expired_exception"}
        BY <2>5, <3>1 DEF Listed
      <4> QED
        BY <2>3, <4>1, <4>2, UrgencyIs
    <3>2. CASE gap.status # "accepted_exception" /\ gap.status \in Open
      <4>1. Listed(gap)' = "overdue"
        BY <2>5, <3>2 DEF Listed
      <4>2. Listed(gap) \in {"none", "overdue"}
        BY <2>5, <3>2 DEF Listed
      <4> QED
        BY <2>3, <4>1, <4>2, UrgencyIs
    <3>3. CASE gap.status # "accepted_exception" /\ gap.status \notin Open
      <4>1. Listed(gap)' = "none" /\ Listed(gap) = "none"
        BY <2>5, <3>3 DEF Listed
      <4> QED
        BY <2>3, <4>1, UrgencyIs
    <3> QED
      BY <3>1, <3>2, <3>3
  <2>6. CASE gap.due # NoDate /\ ~(2 * gap.due < time')
    <3>1. gap.due \in Nat /\ time' <= 2 * gap.due /\ ~(2 * gap.due < time)
      <4>1. gap.due \in Nat
        BY <2>2, <2>6
      <4>2. \A d, t, u \in Nat : t <= u /\ ~(2 * d < u) => u <= 2 * d /\ ~(2 * d < t)
        OBVIOUS
      <4> QED
        BY <4>1, <4>2, <2>2, <2>6
    <3>2. (2 * gap.due - time') \div 2 <= (2 * gap.due - time) \div 2
      BY <2>2, <3>1, DaysLeftFall
    <3>3. CASE gap.status = "accepted_exception"
      <4> DEFINE now == (2 * gap.due - time) \div 2
                 then == (2 * gap.due - time') \div 2
      <4>1. Listed(gap)' = IF then <= SoonDays THEN "expiring_soon" ELSE "none"
        BY <2>6, <3>1, <3>3 DEF Listed, DaysLeft
      <4>2. Listed(gap) = IF now <= SoonDays THEN "expiring_soon" ELSE "none"
        BY <2>6, <3>1, <3>3 DEF Listed, DaysLeft
      <4>3. now \in Int /\ then \in Int /\ then <= now
        BY <2>2, <3>1, <3>2
      <4> HIDE DEF now, then
      <4>4. now <= SoonDays => then <= SoonDays
        BY <4>3, <2>2
      <4> QED
        BY <2>3, <4>1, <4>2, <4>4, UrgencyIs
    <3>4. CASE gap.status # "accepted_exception"
      <4>1. Listed(gap)' = "none" /\ Listed(gap) = "none"
        BY <2>6, <3>1, <3>4 DEF Listed
      <4> QED
        BY <2>3, <4>1, UrgencyIs
    <3> QED
      BY <3>3, <3>4
  <2> QED
    BY <2>4, <2>5, <2>6
<1>4. Timed /\ [Next]_vars => Timed'
  BY <1>2
<1> HIDE DEF Timed
<1> QED
  BY <1>1, <1>3, <1>4, PTL DEF Spec, DeadlinesAdvance
=============================================================================
