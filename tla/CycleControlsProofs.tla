------------------------- MODULE CycleControlsProofs -------------------------
(***************************************************************************)
(* Theorems about CycleControls: an audit as of now shows the present      *)
(* values; a migration says of a control what the comparison of the two    *)
(* versions says; a migration that answers is complete; and the past of a  *)
(* control stays as it was reported while requests do not cross.           *)
(***************************************************************************)
EXTENDS CycleControls, WellFoundedInduction, TLAPS

AllValues == UNION {Values(f) : f \in Fields}

Refs == Defs \cup Internal

Entries == [ts : Nat, changed : Notes]

Frozens == [version : Nat, status : Judgements, basis : Bases]

Planned == [ref : Refs, rec : Controls]

SaveTasks == [step : {"save"}, of : Entities, rec : Controls]

FindTasks == [step : {"find"}, seen : SUBSET Refs, plan : SUBSET Planned]

LayTasks ==
    [step : {"lay"}, seen : SUBSET Refs, plan : SUBSET Planned, next : Planned]

Tasks == {NoOp} \cup SaveTasks \cup FindTasks \cup LayTasks

NextIsPlanned(o) == o # NoOp /\ o.step = "lay" => o.next \in o.plan

(* Every variable has its type, every row its shape, and what a migration  *)
(* is about to save is in its plan.                                        *)
TypeOK ==
    /\ projection \in [Entities -> Controls \cup {NoRecord}]
    /\ op \in [Workers -> Tasks]
    /\ clock \in Nat
    /\ \A w \in Workers : NextIsPlanned(op[w])

(* The last entry of h that notes a field of s notes the value s has, and  *)
(* no entry is later than t.                                               *)
LastNoted(h, s, f) ==
    \E i \in 1..Len(h) :
        /\ f \in DOMAIN h[i].changed
        /\ h[i].changed[f] = s[f]
        /\ \A j \in 1..Len(h) : j > i => f \notin DOMAIN h[j].changed

Replays(cc, t) ==
    /\ \A i \in 1..Len(cc.history) : cc.history[i].ts <= t
    /\ \A f \in Fields \ {"pending"} : LastNoted(cc.history, cc.state, f)

-----------------------------------------------------------------------------
(* The largest of some numbers up to n is one of them: the row that a      *)
(* supersession marks first is a row it loaded.                            *)
LEMMA MaxIsIn ==
    ASSUME NEW n \in Nat, NEW S \in SUBSET (1..n), S # {}
    PROVE  Max(S) \in S /\ \A x \in S : Max(S) >= x
<1> DEFINE T == {n - x : x \in S}
           Less == {ss \in Nat \X Nat : ss[1] < ss[2]}
<1>1. T \subseteq Nat /\ T # {}
  <2>1. \A x \in S : n - x \in Nat
    OBVIOUS
  <2> QED
    BY <2>1
<1>2. IsWellFoundedOn(Less, Nat)
  <2>1. Less = OpToRel(<, Nat)
    BY DEF OpToRel
  <2> QED
    BY <2>1, NatLessThanWellFounded
<1>3. PICK m \in T : \A y \in T : <<y, m>> \notin Less
  <2> HIDE DEF T, Less
  <2> QED
    BY <1>1, <1>2, WFMin
<1>4. \A y \in T : y >= m
  <2>1. \A y, z \in Nat : y < z => <<y, z>> \in Less
    OBVIOUS
  <2> HIDE DEF T, Less
  <2>2. \A y \in T : y \in Nat /\ m \in Nat /\ ~(y < m)
    BY <1>1, <1>3, <2>1
  <2> QED
    BY <2>2
<1>5. \E x \in S : \A y \in S : x >= y
  <2>1. PICK x \in S : m = n - x
    OBVIOUS
  <2>2. \A y \in S : n - y \in T
    OBVIOUS
  <2>3. \A y \in S : n - y >= n - x
    BY <1>4, <2>1, <2>2
  <2> QED
    BY <2>3
<1> QED
  BY <1>5 DEF Max

-----------------------------------------------------------------------------
(* A note of an entry is a partial state.                                  *)
LEMMA NoteIsPartial ==
    ASSUME NEW D \in SUBSET Fields, NEW n \in [D -> AllValues]
    PROVE  n \in Notes
BY DEF Notes, AllValues

(* The entry a migration appends notes nothing.                            *)
LEMMA EmptyNote == <<>> \in Notes /\ DOMAIN <<>> = {}
<1>1. <<>> \in [{} -> AllValues]
  OBVIOUS
<1>2. {} \in SUBSET Fields
  OBVIOUS
<1> QED
  BY <1>1, <1>2, NoteIsPartial

LEMMA FieldsHaveValues ==
    /\ \A f \in Fields : Values(f) \subseteq AllValues
    /\ "missing" \in Values("evidence")
    /\ "not_assessed" \in Values("assessment")
    /\ "pending_assessment" \in Values("applicability")
    /\ "settled" \in Values("pending") /\ "review" \in Values("pending")
BY DEF AllValues, Fields, Values

Reasons == {"", "new", "carried", "renumbered", "text_changed"}

LEMMA ControlsAreRows ==
    /\ Controls = [state : [Fields -> AllValues], reason : Reasons, review : BOOLEAN,
                   from : Refs, history : Seq(Entries), assessments : Seq(Frozens)]
    /\ Entries = [ts : Nat, changed : Notes]
BY DEF Controls, AllValues, Reasons, Refs, Entries, Frozens

(* A control made by hand or by a migration has the shape of a row, and    *)
(* its first entry notes its initial values.                               *)
LEMMA NewControlFits ==
    ASSUME NEW ref \in Refs, NEW a \in AllValues, NEW now \in Nat
    PROVE  /\ NewControl(ref, a, now) \in Controls
           /\ Replays(NewControl(ref, a, now), now)
<1> DEFINE init == [evidence |-> "missing", assessment |-> "not_assessed",
                    applicability |-> a]
           st == [f \in Fields |-> IF f = "pending" THEN "settled" ELSE init[f]]
           first == [ts |-> now, changed |-> init]
           c == NewControl(ref, a, now)
<1>1. init \in [Fields \ {"pending"} -> AllValues]
  BY FieldsHaveValues DEF Fields
<1>2. init \in Notes
  BY <1>1, NoteIsPartial
<1>3. st \in [Fields -> AllValues]
  BY <1>1, FieldsHaveValues DEF Fields
<1>4. first \in Entries /\ <<first>> \in Seq(Entries) /\ Len(<<first>>) = 1
      /\ <<first>>[1] = first
  BY <1>2 DEF Entries
<1>5. c \in Controls /\ c.history = <<first>> /\ c.state = st
  <2>1. c = [state |-> st, reason |-> "", review |-> FALSE, from |-> ref,
             history |-> <<first>>, assessments |-> <<>>]
    BY DEF NewControl
  <2> HIDE DEF init, st, first, c
  <2>2. "" \in Reasons /\ <<>> \in Seq(Frozens)
    BY DEF Reasons
  <2>3. c \in [state : [Fields -> AllValues], reason : Reasons, review : BOOLEAN,
               from : Refs, history : Seq(Entries), assessments : Seq(Frozens)]
    BY <2>1, <2>2, <1>3, <1>4
  <2>4. c.history = <<first>> /\ c.state = st
    BY <2>1
  <2> QED
    BY <2>3, <2>4, ControlsAreRows
<1>7. \A f \in Fields \ {"pending"} : f \in DOMAIN init /\ init[f] = st[f]
  BY DEF Fields
<1>8. first.ts = now /\ first.changed = init
  OBVIOUS
<1> HIDE DEF init, st, first, c
<1>10. \A f \in Fields \ {"pending"} : LastNoted(<<first>>, st, f)
  BY <1>8, <1>4, <1>7 DEF LastNoted
<1>11. Replays(c, now)
  BY <1>8, <1>4, <1>5, <1>10 DEF Replays
<1> QED
  BY <1>5, <1>11 DEF c

(* An entry appended to the history keeps it replaying to the state, if it *)
(* notes the fields whose value is another and notes them as they are.     *)
LEMMA AppendReplays ==
    ASSUME NEW cc \in Controls, NEW d \in Controls, NEW x \in Entries,
           NEW t \in Nat, NEW now \in Nat, t <= now, Replays(cc, t), x.ts <= now,
           d.history = Append(cc.history, x),
           \A f \in Fields \ {"pending"} :
               IF f \in DOMAIN x.changed THEN x.changed[f] = d.state[f]
               ELSE d.state[f] = cc.state[f]
    PROVE  Replays(d, now)
<1> DEFINE h == cc.history
           g == d.history
<1>1. h \in Seq(Entries) /\ Len(h) \in Nat
  BY ControlsAreRows
<1>2. /\ Len(g) = Len(h) + 1
      /\ \A i \in 1..Len(h) : g[i] = h[i]
      /\ g[Len(h) + 1] = x
  BY <1>1
<1>3. \A i \in 1..Len(g) : i \in 1..Len(h) \/ i = Len(h) + 1
  BY <1>1, <1>2
<1>4. \A i \in 1..Len(h) : h[i].ts \in Nat /\ h[i].ts <= t
  <2>1. \A i \in 1..Len(h) : h[i] \in Entries
    BY <1>1
  <2>2. \A i \in 1..Len(h) : h[i].ts \in Nat
    BY <2>1 DEF Entries
  <2> QED
    BY <2>2 DEF Replays
<1>5. \A i \in 1..Len(g) : g[i].ts <= now
  <2> SUFFICES ASSUME NEW i \in 1..Len(g) PROVE g[i].ts <= now
    OBVIOUS
  <2>1. CASE i \in 1..Len(h)
    <3>1. g[i].ts \in Nat /\ g[i].ts <= t
      BY <2>1, <1>2, <1>4
    <3> QED
      BY <3>1
  <2>2. CASE i = Len(h) + 1
    BY <2>2, <1>2
  <2> QED
    BY <2>1, <2>2, <1>3
<1>6. ASSUME NEW f \in Fields \ {"pending"} PROVE LastNoted(g, d.state, f)
  <2>1. CASE f \in DOMAIN x.changed
    <3>1. Len(h) + 1 \in 1..Len(g)
      BY <1>1, <1>2
    <3>2. \A j \in 1..Len(g) : ~(j > Len(h) + 1)
      BY <1>1, <1>2
    <3>3. x.changed[f] = d.state[f]
      BY <2>1
    <3> QED
      BY <2>1, <3>1, <3>2, <3>3, <1>2 DEF LastNoted
  <2>2. CASE f \notin DOMAIN x.changed
    <3>1. LastNoted(h, cc.state, f) /\ d.state[f] = cc.state[f]
      BY <2>2 DEF Replays
    <3>2. PICK i \in 1..Len(h) :
             /\ f \in DOMAIN h[i].changed
             /\ h[i].changed[f] = cc.state[f]
             /\ \A j \in 1..Len(h) : j > i => f \notin DOMAIN h[j].changed
      BY <3>1 DEF LastNoted
    <3>3. i \in 1..Len(g) /\ g[i] = h[i]
      BY <1>1, <1>2
    <3>4. \A j \in 1..Len(g) : j > i => f \notin DOMAIN g[j].changed
      BY <1>2, <1>3, <2>2, <3>2
    <3> QED
      BY <3>1, <3>2, <3>3, <3>4 DEF LastNoted
  <2> QED
    BY <2>1, <2>2
<1> QED
  BY <1>5, <1>6 DEF Replays

(* The row a migration lays down, of a carried control or of a new one:    *)
(* its second entry notes nothing.                                         *)
LEMMA LaidDownReplays ==
    ASSUME NEW ref \in Refs, NEW a \in AllValues, NEW now \in Nat, NEW d \in Controls,
           \A f \in Fields \ {"pending"} : d.state[f] = NewControl(ref, a, now).state[f],
           d.history = Append(NewControl(ref, a, now).history,
                              [ts |-> now, changed |-> <<>>])
    PROVE  Replays(d, now)
<1> DEFINE c == NewControl(ref, a, now)
           x == [ts |-> now, changed |-> <<>>]
<1>1. c \in Controls /\ Replays(c, now)
  BY NewControlFits
<1>2. x \in Entries /\ x.ts = now /\ DOMAIN x.changed = {}
  BY EmptyNote DEF Entries
<1>3. d.history = Append(c.history, x)
  OBVIOUS
<1>4. \A f \in Fields \ {"pending"} : d.state[f] = c.state[f]
  OBVIOUS
<1> HIDE DEF c, x
<1>5. \A f \in Fields \ {"pending"} :
         IF f \in DOMAIN x.changed THEN x.changed[f] = d.state[f]
         ELSE d.state[f] = c.state[f]
  BY <1>2, <1>4
<1>6. now <= now /\ x.ts <= now
  BY <1>2
<1> QED
  BY <1>1, <1>2, <1>3, <1>5, <1>6, AppendReplays

LEMMA CarriedFits ==
    ASSUME NEW prev \in Controls, NEW ref \in Refs, NEW from \in Refs,
           NEW reason \in Reasons, NEW now \in Nat
    PROVE  /\ Carried(prev, ref, from, reason, now) \in Controls
           /\ Replays(Carried(prev, ref, from, reason, now), now)
<1> DEFINE a == prev.state.applicability
           st == CarriedState(prev)
           c == NewControl(ref, a, now)
           x == [ts |-> now, changed |-> <<>>]
           d == Carried(prev, ref, from, reason, now)
<1>1. a \in AllValues
  BY ControlsAreRows DEF Fields
<1>2. st \in [Fields -> AllValues]
  BY <1>1, FieldsHaveValues DEF CarriedState, Fields
<1>3. \A f \in Fields \ {"pending"} : st[f] = c.state[f]
  BY DEF CarriedState, NewControl, Fields
<1>4. c \in Controls
  BY <1>1, NewControlFits
<1>5. x \in Entries
  BY EmptyNote DEF Entries
<1>6. d = [c EXCEPT
             !.state = st, !.reason = reason, !.review = reason = "text_changed",
             !.from = from, !.history = Append(@, x)]
  BY DEF Carried
<1> HIDE DEF st, c, x, d
<1>7. c \in [state : [Fields -> AllValues], reason : Reasons, review : BOOLEAN,
             from : Refs, history : Seq(Entries), assessments : Seq(Frozens)]
  BY <1>4, ControlsAreRows
<1>8. Append(c.history, x) \in Seq(Entries)
  BY <1>5, <1>7
<1>9. d \in [state : [Fields -> AllValues], reason : Reasons, review : BOOLEAN,
             from : Refs, history : Seq(Entries), assessments : Seq(Frozens)]
  BY <1>2, <1>6, <1>7, <1>8
<1>10. d \in Controls /\ d.history = Append(c.history, x) /\ d.state = st
  <2>1. d \in Controls
    BY <1>9, ControlsAreRows
  <2>2. d.history = Append(c.history, x)
    BY <1>6, <1>7
  <2>3. d.state = st
    BY <1>6, <1>7
  <2> QED
    BY <2>1, <2>2, <2>3
<1>11. Replays(d, now)
  BY <1>1, <1>3, <1>10, LaidDownReplays DEF c, x
<1> QED
  BY <1>10, <1>11 DEF d

(* The row laid down for a definition that no control leads to.            *)
Added(n, now) ==
    [NewControl(n, "pending_assessment", now) EXCEPT
       !.reason = "new", !.review = TRUE,
       !.history = Append(@, [ts |-> now, changed |-> <<>>])]

LEMMA AddedFits ==
    ASSUME NEW n \in Refs, NEW now \in Nat
    PROVE  Added(n, now) \in Controls /\ Replays(Added(n, now), now)
<1> DEFINE c == NewControl(n, "pending_assessment", now)
           x == [ts |-> now, changed |-> <<>>]
           d == Added(n, now)
<1>1. c \in Controls /\ "pending_assessment" \in AllValues
  BY NewControlFits, FieldsHaveValues DEF Fields
<1>2. x \in Entries
  BY EmptyNote DEF Entries
<1>3. d = [c EXCEPT !.reason = "new", !.review = TRUE, !.history = Append(@, x)]
  BY DEF Added
<1> HIDE DEF c, x, d
<1>4. c \in [state : [Fields -> AllValues], reason : Reasons, review : BOOLEAN,
             from : Refs, history : Seq(Entries), assessments : Seq(Frozens)]
  BY <1>1, ControlsAreRows
<1>5. Append(c.history, x) \in Seq(Entries) /\ "new" \in Reasons
  <2>1. "new" \in Reasons
    BY DEF Reasons
  <2>2. Append(c.history, x) \in Seq(Entries)
    BY <1>2, <1>4
  <2> QED
    BY <2>1, <2>2
<1>6. d \in [state : [Fields -> AllValues], reason : Reasons, review : BOOLEAN,
             from : Refs, history : Seq(Entries), assessments : Seq(Frozens)]
  <2>1. d = [state |-> c.state, reason |-> "new", review |-> TRUE, from |-> c.from,
             history |-> Append(c.history, x), assessments |-> c.assessments]
    BY <1>3, <1>4
  <2> QED
    BY <2>1, <1>4, <1>5
<1>7. d \in Controls /\ d.history = Append(c.history, x) /\ d.state = c.state
  <2>1. d \in Controls
    BY <1>6, ControlsAreRows
  <2>2. d.history = Append(c.history, x)
    BY <1>3, <1>4
  <2>3. d.state = c.state
    BY <1>3, <1>4
  <2> QED
    BY <2>1, <2>2, <2>3
<1>8. Replays(d, now)
  BY <1>1, <1>7, LaidDownReplays DEF c, x
<1> QED
  BY <1>7, <1>8 DEF d

LEMMA AppendExtends ==
    ASSUME NEW S, NEW s \in Seq(S), NEW y \in S
    PROVE  Append(s, y) \in Seq(S) /\ IsPrefix(s, Append(s, y)) /\ IsPrefix(s, s)
<1>1. /\ Append(s, y) \in Seq(S) /\ Len(Append(s, y)) = Len(s) + 1 /\ Len(s) \in Nat
      /\ \A i \in 1..Len(s) : Append(s, y)[i] = s[i]
  OBVIOUS
<1>2. SubSeq(Append(s, y), 1, Len(s)) = [i \in 1..Len(s) |-> Append(s, y)[i]]
  BY <1>1
<1>3. SubSeq(s, 1, Len(s)) = [i \in 1..Len(s) |-> s[i]]
  BY <1>1
<1>4. SubSeq(s, 1, Len(s)) = SubSeq(Append(s, y), 1, Len(s))
  BY <1>1, <1>2, <1>3
<1> QED
  BY <1>1, <1>4 DEF IsPrefix

(* What an update wants is a partial state, of values of the fields.       *)
LEMMA WantedFits ==
    ASSUME NEW ask \in Asks
    PROVE  /\ DOMAIN Wanted(ask) \subseteq Fields
           /\ \A f \in DOMAIN Wanted(ask) : Wanted(ask)[f] \in AllValues
<1>1. /\ DOMAIN ask.set \subseteq Fields \ {"pending"}
      /\ \A f \in DOMAIN ask.set : ask.set[f] \in Values(f)
  BY AsksAssumption
<1>2. "pending" \in Fields
  BY DEF Fields
<1>3. \A f \in DOMAIN ask.set : ask.set[f] \in AllValues
  BY <1>1, FieldsHaveValues
<1>4. "settled" \in AllValues
  BY <1>2, FieldsHaveValues
<1>5. DOMAIN Wanted(ask) \subseteq DOMAIN ask.set \cup {"pending"}
  BY DEF Wanted
<1>6. \A f \in DOMAIN Wanted(ask) :
         Wanted(ask)[f] = IF f = "pending" THEN "settled" ELSE ask.set[f]
  BY DEF Wanted
<1>7. DOMAIN Wanted(ask) \subseteq Fields
  BY <1>1, <1>2, <1>5
<1>8. ASSUME NEW f \in DOMAIN Wanted(ask) PROVE Wanted(ask)[f] \in AllValues
  <2>1. CASE f = "pending"
    BY <2>1, <1>4, <1>6
  <2>2. CASE f # "pending"
    BY <2>2, <1>3, <1>5, <1>6
  <2> QED
    BY <2>1, <2>2
<1> QED
  BY <1>7, <1>8

(* An updated row keeps its history and its frozen judgements, and adds to *)
(* each; its new entry notes the fields that changed.                      *)
LEMMA UpdatedFits ==
    ASSUME NEW cc \in Controls, NEW ask \in Asks, NEW basis \in Bases,
           NEW t \in Nat, NEW now \in Nat, t <= now, Replays(cc, t)
    PROVE  /\ Updated(cc, ask, basis, now) \in Controls
           /\ Replays(Updated(cc, ask, basis, now), now)
           /\ \E x \in Entries :
                 /\ x.ts = now
                 /\ Updated(cc, ask, basis, now).history = Append(cc.history, x)
           /\ IsPrefix(cc.assessments, Updated(cc, ask, basis, now).assessments)
           /\ Updated(cc, ask, basis, now).reason = cc.reason
           /\ Updated(cc, ask, basis, now).review = cc.review
           /\ Updated(cc, ask, basis, now).from = cc.from
<1> DEFINE W == Wanted(ask)
           x == [ts |-> now, changed |-> Noted(cc, ask)]
           st == [f \in Fields |-> IF f \in DOMAIN W THEN W[f] ELSE cc.state[f]]
           fr == Frozen(cc, ask, basis)
           d == Updated(cc, ask, basis, now)
<1>1. cc \in [state : [Fields -> AllValues], reason : Reasons, review : BOOLEAN,
              from : Refs, history : Seq(Entries), assessments : Seq(Frozens)]
  BY ControlsAreRows
<1>2. Changed(cc, ask) \subseteq DOMAIN W /\ Changed(cc, ask) \subseteq Fields
  BY WantedFits DEF Changed
<1>3. DOMAIN Noted(cc, ask) = Changed(cc, ask)
      /\ \A f \in Changed(cc, ask) : Noted(cc, ask)[f] = W[f]
  BY DEF Noted
<1>4. x \in Entries
  <2>1. Noted(cc, ask) \in [Changed(cc, ask) -> AllValues]
    BY <1>2, WantedFits DEF Noted
  <2>2. Noted(cc, ask) \in Notes
    BY <2>1, <1>2, NoteIsPartial
  <2> QED
    BY <2>2 DEF Entries
<1>5. st \in [Fields -> AllValues]
  BY <1>1, WantedFits
<1>6. fr \in Seq(Frozens) /\ IsPrefix(cc.assessments, fr)
  <2> DEFINE as == cc.assessments
             y == [version |-> NextVersion(cc), status |-> W.assessment,
                   basis |-> basis]
  <2>1. as \in Seq(Frozens) /\ Len(as) \in Nat
    BY <1>1
  <2>2. CASE Judged(cc, ask)
    <3>1. y \in Frozens
      BY <2>1, <2>2 DEF Judged, NextVersion, Frozens
    <3>2. fr = Append(as, y)
      BY <2>2 DEF Frozen
    <3> HIDE DEF y, as, fr
    <3>3. Append(as, y) \in Seq(Frozens) /\ IsPrefix(as, Append(as, y))
      BY <2>1, <3>1, AppendExtends
    <3> QED
      BY <3>2, <3>3 DEF as
  <2>3. CASE ~Judged(cc, ask)
    <3>1. fr = as
      BY <2>3 DEF Frozen
    <3>2. IsPrefix(as, as)
      BY <2>1 DEF IsPrefix
    <3> QED
      BY <3>1, <3>2, <2>1
  <2> QED
    BY <2>2, <2>3
<1>7. d = [cc EXCEPT !.state = st, !.history = Append(@, x), !.assessments = fr]
  BY DEF Updated
<1>8. \A f \in Fields \ {"pending"} :
         IF f \in DOMAIN x.changed THEN x.changed[f] = st[f] ELSE st[f] = cc.state[f]
  <2> TAKE f \in Fields \ {"pending"}
  <2>1. CASE f \in Changed(cc, ask)
    BY <2>1, <1>2, <1>3
  <2>2. CASE f \notin Changed(cc, ask)
    BY <2>2, <1>3 DEF Changed
  <2> QED
    BY <2>1, <2>2
<1>9. x.ts = now /\ x.ts <= now
  OBVIOUS
<1> HIDE DEF W, x, st, fr, d
<1>10. /\ d.state = st /\ d.history = Append(cc.history, x) /\ d.assessments = fr
       /\ d.reason = cc.reason /\ d.review = cc.review /\ d.from = cc.from
  BY <1>1, <1>7
<1>11. d \in Controls
  <2>1. Append(cc.history, x) \in Seq(Entries)
    BY <1>1, <1>4
  <2>2. d \in [state : [Fields -> AllValues], reason : Reasons, review : BOOLEAN,
               from : Refs, history : Seq(Entries), assessments : Seq(Frozens)]
    BY <2>1, <1>1, <1>5, <1>6, <1>7
  <2> QED
    BY <2>2, ControlsAreRows
<1>12. Replays(d, now)
  <2>1. \A f \in Fields \ {"pending"} :
           IF f \in DOMAIN x.changed THEN x.changed[f] = d.state[f]
           ELSE d.state[f] = cc.state[f]
    BY <1>8, <1>10
  <2> QED
    BY <2>1, <1>4, <1>9, <1>10, <1>11, AppendReplays
<1> QED
  BY <1>4, <1>6, <1>9, <1>10, <1>11, <1>12 DEF d

-----------------------------------------------------------------------------
(* Replaying the history up to now gives the present values.               *)
LEMMA ShowsNow ==
    ASSUME NEW cc \in Controls, NEW t \in Nat, Replays(cc, t),
           NEW f \in Fields \ {"pending"}
    PROVE  AsOf(cc, t)[f] = cc.state[f]
<1> DEFINE h == cc.history
           played == {i \in 1..Len(h) : \A j \in 1..i : h[j].ts <= t}
           setters == {i \in played : f \in DOMAIN h[i].changed}
           before == NewControl(cc.from, "pending_assessment", t).state
<1>1. h \in Seq(Entries) /\ Len(h) \in Nat
  BY ControlsAreRows
<1>2. played = 1..Len(h)
  BY <1>1 DEF Replays
<1>3. AsOf(cc, t)[f] = IF setters = {} THEN before[f] ELSE h[Max(setters)].changed[f]
  BY DEF AsOf
<1> HIDE DEF played
<1>4. PICK i \in 1..Len(h) :
         /\ f \in DOMAIN h[i].changed
         /\ h[i].changed[f] = cc.state[f]
         /\ \A j \in 1..Len(h) : j > i => f \notin DOMAIN h[j].changed
  BY DEF Replays, LastNoted
<1>5. setters \in SUBSET (1..Len(h)) /\ i \in setters
  BY <1>2, <1>4
<1>6. \A j \in setters : j <= i
  BY <1>2, <1>4
<1> HIDE DEF setters
<1>7. Max(setters) \in setters /\ Max(setters) >= i
  BY <1>1, <1>5, MaxIsIn
<1>8. Max(setters) = i
  <2>1. \A j, k \in 1..Len(h) : j >= k /\ j <= k => j = k
    BY <1>1
  <2>2. Max(setters) \in 1..Len(h) /\ Max(setters) <= i
    BY <1>5, <1>6, <1>7
  <2> HIDE DEF h
  <2> QED
    BY <2>1, <2>2, <1>7
<1> QED
  BY <1>3, <1>4, <1>5, <1>8

(* An entry appended to the history changes no replay up to a moment       *)
(* before it.                                                              *)
LEMMA PastReplaysTheSame ==
    ASSUME NEW cc \in Controls, NEW d \in Controls, NEW x \in Entries,
           d.history = Append(cc.history, x), NEW t \in Nat, x.ts > t
    PROVE  AsOf(d, t) = AsOf(cc, t)
<1> DEFINE h == cc.history
           g == d.history
           Played(s) == {i \in 1..Len(s) : \A j \in 1..i : s[j].ts <= t}
           Setters(s, f) == {i \in Played(s) : f \in DOMAIN s[i].changed}
           init == NewControl(cc.from, "pending_assessment", t).state
<1>1. h \in Seq(Entries) /\ Len(h) \in Nat /\ x.ts \in Nat
  BY ControlsAreRows
<1>2. /\ Len(g) = Len(h) + 1
      /\ \A i \in 1..Len(h) : g[i] = h[i]
      /\ g[Len(h) + 1] = x
  BY <1>1
<1>3. \A i \in 1..Len(g) : i \in 1..Len(h) \/ i = Len(h) + 1
  BY <1>1, <1>2
<1>4. \A i \in 1..Len(h) : i \in 1..Len(g) /\ \A j \in 1..i : j \in 1..Len(h)
  BY <1>1, <1>2
<1>5. Played(g) = Played(h)
  <2>1. Len(h) + 1 \notin Played(g)
    <3>1. Len(h) + 1 \in 1..(Len(h) + 1) /\ ~(g[Len(h) + 1].ts <= t)
      BY <1>1, <1>2
    <3> QED
      BY <3>1
  <2>2. \A i \in 1..Len(h) :
           (\A j \in 1..i : g[j].ts <= t) <=> (\A j \in 1..i : h[j].ts <= t)
    BY <1>2, <1>4
  <2> QED
    BY <2>1, <2>2, <1>3, <1>4
<1>6. \A f \in Fields : Setters(g, f) = Setters(h, f)
  <2>1. \A i \in Played(h) : g[i] = h[i]
    BY <1>2
  <2> HIDE DEF Played
  <2> QED
    BY <2>1, <1>5
<1>7. NewControl(d.from, "pending_assessment", t).state = init
  BY DEF NewControl
<1>8. AsOf(cc, t) = [f \in Fields |-> IF Setters(h, f) = {} THEN init[f]
                                     ELSE h[Max(Setters(h, f))].changed[f]]
  BY DEF AsOf
<1>9. AsOf(d, t) = [f \in Fields |-> IF Setters(g, f) = {} THEN init[f]
                                    ELSE g[Max(Setters(g, f))].changed[f]]
  BY <1>7 DEF AsOf
<1>10. ASSUME NEW f \in Fields, Setters(h, f) # {}
       PROVE  g[Max(Setters(h, f))] = h[Max(Setters(h, f))]
  <2>1. Setters(h, f) \in SUBSET (1..Len(h))
    OBVIOUS
  <2> HIDE DEF Setters
  <2>2. Max(Setters(h, f)) \in 1..Len(h)
    BY <2>1, <1>1, <1>10, MaxIsIn
  <2> QED
    BY <2>2, <1>2
<1> HIDE DEF Setters, init
<1> QED
  BY <1>6, <1>8, <1>9, <1>10

-----------------------------------------------------------------------------
(* Types *)

LEMMA TaskAt ==
    ASSUME TypeOK, NEW w \in Workers
    PROVE  /\ At(w, "save") => op[w] \in SaveTasks
           /\ At(w, "find") => op[w] \in FindTasks
           /\ At(w, "lay") => op[w] \in LayTasks /\ op[w].next \in op[w].plan
<1>1. op[w] \in Tasks
  BY DEF TypeOK
<1>2. /\ \A o \in SaveTasks : o.step = "save"
      /\ \A o \in FindTasks : o.step = "find"
      /\ \A o \in LayTasks : o.step = "lay"
  BY DEF SaveTasks, FindTasks, LayTasks
<1> QED
  BY <1>1, <1>2 DEF At, Tasks, TypeOK, NextIsPlanned

(* A definition or an organization control that the previous cycle has.    *)
Seen == {r \in Defs \cup Internal : Exists([cycle |-> "previous", ref |-> r])}

LEMMA EntitiesAre ==
    /\ \A c \in {"previous", "next"}, r \in Refs :
          /\ [cycle |-> c, ref |-> r] \in Entities
          /\ [cycle |-> c, ref |-> r].ref = r
          /\ [cycle |-> c, ref |-> r].cycle = c
    /\ \A e \in Entities : e.ref \in Refs
    /\ OldDefs \subseteq Refs /\ NewDefs \subseteq Refs
BY DEF Entities, Refs, Defs

LEMMA RowsAreControls ==
    ASSUME TypeOK, NEW e \in Entities, Exists(e)
    PROVE  projection[e] \in Controls
BY DEF TypeOK, Exists

Prev(r) == projection[[cycle |-> "previous", ref |-> r]]

(* The planned rows: of a control that is in no version, of one that both  *)
(* versions have, and of a definition that no control leads to.            *)
LEMMA PlanIs ==
    ASSUME NEW seen, NEW now
    PROVE  /\ \A p \in Plan(seen, now) :
                \/ \E r \in seen \ OldDefs :
                      p = [ref |-> r, rec |-> Carried(Prev(r), r, r, "carried", now)]
                \/ \E o \in seen \cap OldDefs, n \in NewDefs :
                      /\ Uid[o] = Uid[n]
                      /\ p = [ref |-> n, rec |-> Carried(Prev(o), n, o,
                                                        MigrationReason(o, n), now)]
                \/ \E n \in Unseen(seen) : p = [ref |-> n, rec |-> Added(n, now)]
           /\ \A r \in seen \ OldDefs : \E p \in Plan(seen, now) : p.ref = r
           /\ \A n \in NewDefs : \E p \in Plan(seen, now) : p.ref = n
<1> DEFINE A == {[ref |-> r, rec |-> Carried(Prev(r), r, r, "carried", now)]
                   : r \in seen \ OldDefs}
           Pairs == {q \in (seen \cap OldDefs) \X NewDefs : Uid[q[1]] = Uid[q[2]]}
           B == {[ref |-> p[2], rec |-> Carried(Prev(p[1]), p[2], p[1],
                                                MigrationReason(p[1], p[2]), now)]
                   : p \in Pairs}
           C == {[ref |-> n, rec |-> Added(n, now)] : n \in Unseen(seen)}
<1>1. Plan(seen, now) = A \cup B \cup C
  BY Zenon DEF Plan, Prev, Added
<1>2. \A p \in A : \E r \in seen \ OldDefs :
         p = [ref |-> r, rec |-> Carried(Prev(r), r, r, "carried", now)]
  OBVIOUS
<1>3. \A p \in B : \E o \in seen \cap OldDefs, n \in NewDefs :
         /\ Uid[o] = Uid[n]
         /\ p = [ref |-> n, rec |-> Carried(Prev(o), n, o, MigrationReason(o, n), now)]
  <2> TAKE p \in B
  <2>1. PICK q \in Pairs :
           p = [ref |-> q[2], rec |-> Carried(Prev(q[1]), q[2], q[1],
                                              MigrationReason(q[1], q[2]), now)]
    OBVIOUS
  <2>2. q[1] \in seen \cap OldDefs /\ q[2] \in NewDefs /\ Uid[q[1]] = Uid[q[2]]
    OBVIOUS
  <2> QED
    BY <2>1, <2>2
<1>4. \A p \in C : \E n \in Unseen(seen) : p = [ref |-> n, rec |-> Added(n, now)]
  OBVIOUS
<1>5. \A r \in seen \ OldDefs : \E p \in A : p.ref = r
  <2> TAKE r \in seen \ OldDefs
  <2> DEFINE b == [ref |-> r, rec |-> Carried(Prev(r), r, r, "carried", now)]
  <2>1. b \in A /\ b.ref = r
    OBVIOUS
  <2> HIDE DEF A, b
  <2> QED
    BY <2>1
<1>6. \A n \in NewDefs : \E p \in B \cup C : p.ref = n
  <2> TAKE n \in NewDefs
  <2>1. CASE n \in Unseen(seen)
    <3> DEFINE b == [ref |-> n, rec |-> Added(n, now)]
    <3>1. b \in C /\ b.ref = n
      BY <2>1
    <3> HIDE DEF B, C, b
    <3> QED
      BY <3>1
  <2>2. CASE n \notin Unseen(seen)
    <3>1. PICK o \in seen \cap OldDefs : Uid[o] = Uid[n]
      BY <2>2 DEF Unseen
    <3>2. <<o, n>> \in Pairs
      BY <3>1
    <3> DEFINE b == [ref |-> n, rec |-> Carried(Prev(o), n, o,
                                                MigrationReason(o, n), now)]
    <3>3. b \in B
      BY <3>2
    <3>4. b.ref = n
      OBVIOUS
    <3> HIDE DEF B, C, b
    <3> QED
      BY <3>3, <3>4
  <2> QED
    BY <2>1, <2>2
<1> HIDE DEF A, B, C
<1> QED
  BY <1>1, <1>2, <1>3, <1>4, <1>5, <1>6

LEMMA ReasonsAre ==
    /\ \A o, n : MigrationReason(o, n) \in Reasons /\ MigrationReason(o, n) # "new"
    /\ "carried" \in Reasons
BY DEF MigrationReason, Reasons

LEMMA PlanFits ==
    ASSUME TypeOK
    PROVE  /\ Seen \in SUBSET Refs
           /\ Plan(Seen, clock) \in SUBSET Planned
           /\ \A p \in Plan(Seen, clock) : Replays(p.rec, clock)
<1>1. \A r \in Seen : r \in Refs /\ Prev(r) \in Controls
  BY RowsAreControls, EntitiesAre DEF Seen, Prev, Refs
<1>2. clock \in Nat
  BY DEF TypeOK
<1>3. ASSUME NEW p \in Plan(Seen, clock)
      PROVE  p \in Planned /\ Replays(p.rec, clock)
  <2>1. CASE \E r \in Seen \ OldDefs :
               p = [ref |-> r, rec |-> Carried(Prev(r), r, r, "carried", clock)]
    <3>1. PICK r \in Seen : 
             p = [ref |-> r, rec |-> Carried(Prev(r), r, r, "carried", clock)]
      BY <2>1
    <3>2. /\ Carried(Prev(r), r, r, "carried", clock) \in Controls
          /\ Replays(Carried(Prev(r), r, r, "carried", clock), clock)
      BY <1>1, <1>2, CarriedFits, ReasonsAre
    <3> QED
      BY <1>1, <3>1, <3>2 DEF Planned
  <2>2. CASE \E o \in Seen \cap OldDefs, n \in NewDefs :
               /\ Uid[o] = Uid[n]
               /\ p = [ref |-> n, rec |-> Carried(Prev(o), n, o,
                                                 MigrationReason(o, n), clock)]
    <3>1. PICK o \in Seen, n \in NewDefs :
             p = [ref |-> n, rec |-> Carried(Prev(o), n, o,
                                             MigrationReason(o, n), clock)]
      BY <2>2
    <3>2. o \in Refs /\ n \in Refs /\ Prev(o) \in Controls
      BY <1>1, EntitiesAre
    <3>3. /\ Carried(Prev(o), n, o, MigrationReason(o, n), clock) \in Controls
          /\ Replays(Carried(Prev(o), n, o, MigrationReason(o, n), clock), clock)
      BY <1>2, <3>2, CarriedFits, ReasonsAre
    <3> QED
      BY <3>1, <3>2, <3>3 DEF Planned
  <2>3. CASE \E n \in Unseen(Seen) : p = [ref |-> n, rec |-> Added(n, clock)]
    <3>1. PICK n \in NewDefs : p = [ref |-> n, rec |-> Added(n, clock)]
      BY <2>3 DEF Unseen
    <3>2. n \in Refs /\ Added(n, clock) \in Controls /\ Replays(Added(n, clock), clock)
      BY <1>2, AddedFits, EntitiesAre
    <3> QED
      BY <3>1, <3>2 DEF Planned
  <2> QED
    BY <2>1, <2>2, <2>3, PlanIs
<1> QED
  BY <1>1, <1>3

-----------------------------------------------------------------------------
(* Every copy in hand and every planned record replays to its state, as    *)
(* the rows do: a save puts nothing else in their place.                   *)
TaskReplays(o, t) ==
    o # NoOp =>
        /\ o.step = "save" => Replays(o.rec, t)
        /\ o.step \in {"find", "lay"} => \A p \in o.plan : Replays(p.rec, t)

Replaying ==
    /\ \A e \in Rows : Replays(projection[e], clock)
    /\ \A w \in Workers : TaskReplays(op[w], clock)

Sound == TypeOK /\ Replaying

LEMMA ReplaysLater ==
    ASSUME NEW cc \in Controls, NEW t \in Nat, NEW u \in Nat, t <= u, Replays(cc, t)
    PROVE  Replays(cc, u)
<1>1. \A i \in 1..Len(cc.history) : cc.history[i].ts \in Nat
  <2>1. cc.history \in Seq(Entries)
    BY ControlsAreRows
  <2>2. \A i \in 1..Len(cc.history) : cc.history[i] \in Entries
    BY <2>1
  <2> QED
    BY <2>2 DEF Entries
<1> QED
  BY <1>1 DEF Replays

LEMMA TaskReplaysLater ==
    ASSUME NEW o \in Tasks, NextIsPlanned(o), NEW t \in Nat, NEW u \in Nat, t <= u,
           TaskReplays(o, t)
    PROVE  TaskReplays(o, u)
<1>1. CASE o = NoOp
  BY <1>1 DEF TaskReplays
<1>2. CASE o # NoOp /\ o \in SaveTasks
  <2>1. o.step = "save" /\ o.rec \in Controls
    BY <1>2 DEF SaveTasks
  <2> QED
    BY <1>2, <2>1, ReplaysLater DEF TaskReplays
<1>3. CASE o # NoOp /\ o \in FindTasks \cup LayTasks
  <2>1. o.step \in {"find", "lay"} /\ o.plan \subseteq Planned
    BY <1>3 DEF FindTasks, LayTasks
  <2>2. \A p \in o.plan : p.rec \in Controls
    BY <2>1 DEF Planned
  <2> QED
    BY <1>3, <2>1, <2>2, ReplaysLater DEF TaskReplays
<1> QED
  BY <1>1, <1>2, <1>3 DEF Tasks

(* A step gives one worker another task, and may save rows.                *)
LEMMA StepIsSound ==
    ASSUME Sound, NEW w \in Workers, NEW r \in Tasks, NextIsPlanned(r),
           TaskReplays(r, clock'), op' = [op EXCEPT ![w] = r],
           clock' \in Nat, clock <= clock',
           projection' \in [Entities -> Controls \cup {NoRecord}],
           \A e \in Entities : projection'[e] # NoRecord => Replays(projection'[e], clock')
    PROVE  Sound'
<1>1. /\ op' \in [Workers -> Tasks] /\ op'[w] = r
      /\ \A v \in Workers : v # w => op'[v] = op[v]
  BY DEF Sound, TypeOK
<1>2. \A v \in Workers : op[v] \in Tasks /\ NextIsPlanned(op[v])
  BY DEF Sound, TypeOK
<1>3. TypeOK'
  BY <1>1, <1>2 DEF TypeOK, NextIsPlanned
<1>4. \A v \in Workers : TaskReplays(op[v], clock)
  BY DEF Sound, Replaying
<1>5. clock \in Nat
  BY DEF Sound, TypeOK
<1>6. \A v \in Workers : TaskReplays(op'[v], clock')
  BY <1>1, <1>2, <1>4, <1>5, TaskReplaysLater
<1>7. Replaying'
  BY <1>6 DEF Replaying, Rows, Exists
<1> QED
  BY <1>3, <1>7 DEF Sound

(* The rows stay as they are while time stands still.                      *)
LEMMA RowsAreSound ==
    ASSUME Sound, UNCHANGED <<projection, clock>>
    PROVE  /\ clock \in Nat /\ clock' = clock /\ clock <= clock' /\ clock' \in Nat
           /\ projection' \in [Entities -> Controls \cup {NoRecord}]
           /\ \A e \in Entities :
                 projection'[e] # NoRecord => Replays(projection'[e], clock')
BY DEF Sound, TypeOK, Replaying, Rows, Exists

(* A save puts a record that replays to its state into one row.            *)
LEMMA SaveIsSound ==
    ASSUME Sound, NEW e \in Entities, NEW cc \in Controls, Replays(cc, clock),
           Save(e, cc)
    PROVE  /\ clock \in Nat /\ clock' = clock + 1 /\ clock' \in Nat /\ clock <= clock'
           /\ projection' \in [Entities -> Controls \cup {NoRecord}]
           /\ projection'[e] = cc
           /\ \A d \in Entities : d # e => projection'[d] = projection[d]
           /\ \A d \in Entities :
                 projection'[d] # NoRecord => Replays(projection'[d], clock')
<1>1. clock \in Nat /\ clock' = clock + 1
  BY DEF Sound, TypeOK, Save
<1>2. /\ projection' \in [Entities -> Controls \cup {NoRecord}]
      /\ projection'[e] = cc
      /\ \A d \in Entities : d # e => projection'[d] = projection[d]
  BY DEF Sound, TypeOK, Save, Upserted
<1>3. ASSUME NEW d \in Entities, projection'[d] # NoRecord
      PROVE  Replays(projection'[d], clock')
  <2>1. CASE d = e
    BY <2>1, <1>1, <1>2, ReplaysLater
  <2>2. CASE d # e
    <3>1. projection[d] \in Controls /\ Replays(projection[d], clock)
      BY <2>2, <1>2, <1>3 DEF Sound, TypeOK, Replaying, Rows, Exists
    <3> QED
      BY <2>2, <3>1, <1>1, <1>2, ReplaysLater
  <2> QED
    BY <2>1, <2>2
<1> QED
  BY <1>1, <1>2, <1>3

LEMMA CreateIsSound ==
    ASSUME Sound, NEW w \in Workers, NEW e \in ByHand, NEW a \in Given[e],
           CreateControl(w, e, a)
    PROVE  Sound'
<1> DEFINE cc == NewControl(e.ref, a, clock)
           r == [step |-> "save", of |-> e, rec |-> cc]
<1>1. e \in Entities /\ e.ref \in Refs /\ a \in AllValues
      /\ clock \in Nat
  BY ByHandAssumption, EntitiesAre, FieldsHaveValues DEF Fields, Sound, TypeOK
<1>2. cc \in Controls /\ Replays(cc, clock)
  BY <1>1, NewControlFits
<1>3. UNCHANGED <<projection, clock>> /\ op' = [op EXCEPT ![w] = r]
  BY DEF CreateControl, Begin
<1> HIDE DEF cc
<1>4. r \in Tasks /\ NextIsPlanned(r) /\ TaskReplays(r, clock')
  BY <1>1, <1>2, <1>3 DEF Tasks, SaveTasks, NextIsPlanned, TaskReplays
<1> HIDE DEF r
<1> QED
  BY <1>3, <1>4, RowsAreSound, StepIsSound

LEMMA UpdateIsSound ==
    ASSUME Sound, NEW w \in Workers, NEW e \in Entities, NEW ask \in Asks,
           NEW basis \in Bases, UpdateControl(w, e, ask, basis)
    PROVE  Sound'
<1> DEFINE cc == Updated(projection[e], ask, basis, clock)
           r == [step |-> "save", of |-> e, rec |-> cc]
<1>1. /\ projection[e] \in Controls /\ Replays(projection[e], clock)
      /\ clock \in Nat /\ clock <= clock
  BY DEF UpdateControl, Sound, TypeOK, Replaying, Rows, Exists
<1>2. cc \in Controls /\ Replays(cc, clock)
  BY <1>1, UpdatedFits
<1>3. UNCHANGED <<projection, clock>> /\ op' = [op EXCEPT ![w] = r]
  BY DEF UpdateControl, Begin
<1> HIDE DEF cc
<1>4. r \in Tasks /\ NextIsPlanned(r) /\ TaskReplays(r, clock')
  BY <1>2, <1>3 DEF Tasks, SaveTasks, NextIsPlanned, TaskReplays
<1> HIDE DEF r
<1> QED
  BY <1>3, <1>4, RowsAreSound, StepIsSound

LEMMA SaveControlIsSound ==
    ASSUME Sound, NEW w \in Workers, SaveControl(w)
    PROVE  Sound'
<1>1. op[w].of \in Entities /\ op[w].rec \in Controls
  BY TaskAt DEF SaveControl, SaveTasks, Sound
<1>2. Replays(op[w].rec, clock)
  BY DEF SaveControl, At, Sound, Replaying, TaskReplays
<1>3. Save(op[w].of, op[w].rec) /\ op' = [op EXCEPT ![w] = NoOp]
  BY DEF SaveControl
<1>4. NoOp \in Tasks /\ NextIsPlanned(NoOp) /\ TaskReplays(NoOp, clock')
  BY DEF Tasks, NextIsPlanned, TaskReplays
<1> QED
  BY <1>1, <1>2, <1>3, <1>4, SaveIsSound, StepIsSound

LEMMA InitializeIsSound ==
    ASSUME Sound, NEW w \in Workers, InitializeCycle(w)
    PROVE  Sound'
<1> DEFINE r == [step |-> "find", seen |-> Seen, plan |-> Plan(Seen, clock)]
<1>1. UNCHANGED <<projection, clock>> /\ op' = [op EXCEPT ![w] = r]
  BY DEF InitializeCycle, Begin, Seen
<1>2. /\ Seen \in SUBSET Refs
      /\ Plan(Seen, clock) \in SUBSET Planned
      /\ \A p \in Plan(Seen, clock) : Replays(p.rec, clock)
  BY PlanFits DEF Sound
<1>3. r \in Tasks /\ NextIsPlanned(r) /\ TaskReplays(r, clock')
  BY <1>1, <1>2 DEF Tasks, FindTasks, NextIsPlanned, TaskReplays
<1> HIDE DEF r
<1> QED
  BY <1>1, <1>3, RowsAreSound, StepIsSound

(* Looking up a planned control: it is there and leaves the plan, or it is *)
(* the next one to save.                                                   *)
LEMMA FindFacts ==
    ASSUME Sound, NEW w \in Workers, NEW p \in op[w].plan, FindPlanned(w, p)
    PROVE  /\ op[w] \in FindTasks /\ At(w, "find")
           /\ UNCHANGED <<projection, clock, crossed>>
           /\ \/ /\ Exists([cycle |-> "next", ref |-> p.ref])
                 /\ op' = [op EXCEPT ![w] = [step |-> "find", seen |-> op[w].seen,
                                             plan |-> op[w].plan \ {p}]]
              \/ /\ ~Exists([cycle |-> "next", ref |-> p.ref])
                 /\ op' = [op EXCEPT ![w] = [step |-> "lay", seen |-> op[w].seen,
                                             plan |-> op[w].plan, next |-> p]]
<1>1. op[w] \in FindTasks /\ At(w, "find") /\ UNCHANGED <<projection, clock, crossed>>
  BY TaskAt DEF FindPlanned, Sound
<1>2. op' = IF Exists([cycle |-> "next", ref |-> p.ref])
            THEN [op EXCEPT ![w].plan = @ \ {p}]
            ELSE [op EXCEPT ![w] = [step |-> "lay", seen |-> op[w].seen,
                                    plan |-> op[w].plan, next |-> p]]
  BY DEF FindPlanned
<1>3. [op EXCEPT ![w].plan = @ \ {p}]
        = [op EXCEPT ![w] = [step |-> "find", seen |-> op[w].seen,
                             plan |-> op[w].plan \ {p}]]
  <2>1. [op[w] EXCEPT !.plan = op[w].plan \ {p}]
          = [step |-> "find", seen |-> op[w].seen, plan |-> op[w].plan \ {p}]
    BY <1>1 DEF FindTasks
  <2>2. [op EXCEPT ![w].plan = @ \ {p}]
          = [op EXCEPT ![w] = [op[w] EXCEPT !.plan = op[w].plan \ {p}]]
    OBVIOUS
  <2> QED
    BY <2>1, <2>2
<1>4. CASE Exists([cycle |-> "next", ref |-> p.ref])
  BY <1>1, <1>2, <1>3, <1>4
<1>5. CASE ~Exists([cycle |-> "next", ref |-> p.ref])
  BY <1>1, <1>2, <1>5
<1> QED
  BY <1>4, <1>5

LEMMA FindIsSound ==
    ASSUME Sound, NEW w \in Workers, NEW p \in op[w].plan, FindPlanned(w, p)
    PROVE  Sound'
<1> DEFINE q == [step |-> "find", seen |-> op[w].seen, plan |-> op[w].plan \ {p}]
           r == [step |-> "lay", seen |-> op[w].seen, plan |-> op[w].plan, next |-> p]
<1>1. op[w] \in FindTasks /\ At(w, "find") /\ UNCHANGED <<projection, clock>>
      /\ (op' = [op EXCEPT ![w] = q] \/ op' = [op EXCEPT ![w] = r])
  BY FindFacts
<1>2. op[w].seen \in SUBSET Refs /\ op[w].plan \in SUBSET Planned /\ p \in Planned
  BY <1>1 DEF FindTasks
<1>3. \A x \in op[w].plan : Replays(x.rec, clock)
  BY <1>1 DEF At, Sound, Replaying, TaskReplays
<1>4. q \in Tasks /\ NextIsPlanned(q) /\ TaskReplays(q, clock')
  BY <1>1, <1>2, <1>3 DEF Tasks, FindTasks, NextIsPlanned, TaskReplays
<1>5. r \in Tasks /\ NextIsPlanned(r) /\ TaskReplays(r, clock')
  BY <1>1, <1>2, <1>3 DEF Tasks, LayTasks, NextIsPlanned, TaskReplays
<1> HIDE DEF q, r
<1> QED
  BY <1>1, <1>4, <1>5, RowsAreSound, StepIsSound

LEMMA SavePlannedFacts ==
    ASSUME Sound, NEW w \in Workers, SavePlanned(w)
    PROVE  /\ op[w] \in LayTasks /\ At(w, "lay") /\ op[w].next \in op[w].plan
           /\ op[w].next.ref \in Refs /\ op[w].next.rec \in Controls
           /\ [cycle |-> "next", ref |-> op[w].next.ref] \in Entities
           /\ Save([cycle |-> "next", ref |-> op[w].next.ref], op[w].next.rec)
           /\ op' = [op EXCEPT ![w] = [step |-> "find", seen |-> op[w].seen,
                                       plan |-> op[w].plan \ {op[w].next}]]
<1>1. op[w] \in LayTasks /\ At(w, "lay") /\ op[w].next \in op[w].plan
  BY TaskAt DEF SavePlanned, Sound
<1>2. op[w].next.ref \in Refs /\ op[w].next.rec \in Controls
  BY <1>1 DEF LayTasks, Planned
<1> QED
  BY <1>1, <1>2, EntitiesAre DEF SavePlanned

LEMMA SavePlannedIsSound ==
    ASSUME Sound, NEW w \in Workers, SavePlanned(w)
    PROVE  Sound'
<1> DEFINE r == [step |-> "find", seen |-> op[w].seen,
                 plan |-> op[w].plan \ {op[w].next}]
           e == [cycle |-> "next", ref |-> op[w].next.ref]
<1>1. /\ op[w] \in LayTasks /\ At(w, "lay") /\ op[w].next \in op[w].plan
      /\ e \in Entities /\ op[w].next.rec \in Controls
      /\ Save(e, op[w].next.rec) /\ op' = [op EXCEPT ![w] = r]
  BY SavePlannedFacts
<1>2. \A p \in op[w].plan : Replays(p.rec, clock)
  BY <1>1 DEF At, Sound, Replaying, TaskReplays
<1>3. op[w].seen \in SUBSET Refs /\ op[w].plan \in SUBSET Planned
  BY <1>1 DEF LayTasks
<1> HIDE DEF e
<1>4. /\ clock \in Nat /\ clock' \in Nat /\ clock <= clock'
      /\ projection' \in [Entities -> Controls \cup {NoRecord}]
      /\ \A d \in Entities :
            projection'[d] # NoRecord => Replays(projection'[d], clock')
  BY <1>1, <1>2, SaveIsSound
<1>5. \A p \in op[w].plan : Replays(p.rec, clock')
  <2>1. \A p \in op[w].plan : p.rec \in Controls
    BY <1>3 DEF Planned
  <2> QED
    BY <2>1, <1>2, <1>4, ReplaysLater
<1>6. r \in Tasks /\ NextIsPlanned(r) /\ TaskReplays(r, clock')
  BY <1>3, <1>5 DEF Tasks, FindTasks, NextIsPlanned, TaskReplays
<1> HIDE DEF r
<1> QED
  BY <1>1, <1>4, <1>6, StepIsSound

LEMMA FinishIsSound ==
    ASSUME Sound, NEW w \in Workers, Finish(w)
    PROVE  Sound'
<1>1. UNCHANGED <<projection, clock>> /\ op' = [op EXCEPT ![w] = NoOp]
  BY DEF Finish
<1>2. NoOp \in Tasks /\ NextIsPlanned(NoOp) /\ TaskReplays(NoOp, clock')
  BY DEF Tasks, NextIsPlanned, TaskReplays
<1> QED
  BY <1>1, <1>2, RowsAreSound, StepIsSound

(* One worker's step.                                                      *)
WorkerStep(w) ==
    \/ \E e \in ByHand : \E a \in Given[e] : CreateControl(w, e, a)
    \/ \E e \in Entities, ask \in Asks, basis \in Bases :
          UpdateControl(w, e, ask, basis)
    \/ SaveControl(w)
    \/ InitializeCycle(w)
    \/ \E p \in op[w].plan : FindPlanned(w, p)
    \/ SavePlanned(w)
    \/ EndMigration(w)
    \/ Abort(w)

LEMMA NextIsAStep ==
    ASSUME Next
    PROVE  \E w \in Workers : WorkerStep(w)
<1>1. PICK w \in Workers :
         \/ \E e \in ByHand : \E a \in Given[e] : CreateControl(w, e, a)
         \/ \E e \in Entities, ask \in Asks, basis \in Bases :
               UpdateControl(w, e, ask, basis)
         \/ SaveControl(w)
         \/ InitializeCycle(w)
         \/ \E p \in IF At(w, "find") THEN op[w].plan ELSE {} : FindPlanned(w, p)
         \/ SavePlanned(w) \/ EndMigration(w) \/ Abort(w)
  BY Zenon DEF Next
<1>2. (\E p \in IF At(w, "find") THEN op[w].plan ELSE {} : FindPlanned(w, p))
         => \E p \in op[w].plan : FindPlanned(w, p)
  OBVIOUS
<1> QED
  BY <1>1, <1>2, Zenon DEF WorkerStep

LEMMA SoundInit == Init => Sound
<1> SUFFICES ASSUME Init PROVE Sound
  OBVIOUS
<1>1. TypeOK
  BY DEF Init, TypeOK, Tasks, NextIsPlanned
<1>2. Replaying
  BY DEF Init, Replaying, Rows, Exists, TaskReplays
<1> QED
  BY <1>1, <1>2 DEF Sound

LEMMA SoundStep == Sound /\ [Next]_vars => Sound'
<1> SUFFICES ASSUME Sound, [Next]_vars PROVE Sound'
  OBVIOUS
<1>1. CASE UNCHANGED vars
  BY <1>1 DEF vars, Sound, TypeOK, Replaying, Rows, Exists
<1>2. CASE Next
  <2>1. PICK w \in Workers : WorkerStep(w)
    BY <1>2, NextIsAStep
  <2>2. CASE \E e \in ByHand : \E a \in Given[e] : CreateControl(w, e, a)
    BY <2>2, CreateIsSound
  <2>3. CASE \E e \in Entities, ask \in Asks, basis \in Bases :
                UpdateControl(w, e, ask, basis)
    BY <2>3, UpdateIsSound
  <2>4. CASE SaveControl(w)
    BY <2>4, SaveControlIsSound
  <2>5. CASE InitializeCycle(w)
    BY <2>5, InitializeIsSound
  <2>6. CASE \E p \in op[w].plan : FindPlanned(w, p)
    BY <2>6, FindIsSound
  <2>7. CASE SavePlanned(w)
    BY <2>7, SavePlannedIsSound
  <2>8. CASE EndMigration(w) \/ Abort(w)
    BY <2>8, FinishIsSound DEF EndMigration, Abort
  <2> QED
    BY <2>1, <2>2, <2>3, <2>4, <2>5, <2>6, <2>7, <2>8 DEF WorkerStep
<1> QED
  BY <1>1, <1>2

THEOREM TypeCorrect == Spec => []TypeOK
<1>1. Sound => TypeOK
  BY DEF Sound
<1> QED
  BY <1>1, SoundInit, SoundStep, PTL DEF Spec

(* An audit as of now shows what the screens show: the present state of    *)
(* every control is what its history replays to, whichever copies were     *)
(* saved over each other.                                                  *)
THEOREM AuditShowsThePresent == Spec => []HistoryReplays
<1>1. Sound => HistoryReplays
  <2> SUFFICES ASSUME Sound, NEW e \in Rows, NEW f \in Fields \ {"pending"}
               PROVE  AsOf(projection[e], clock)[f] = projection[e].state[f]
    BY DEF HistoryReplays
  <2>1. /\ projection[e] \in Controls /\ Replays(projection[e], clock)
        /\ clock \in Nat
    BY RowsAreControls DEF Sound, Replaying, Rows, TypeOK
  <2> QED
    BY <2>1, ShowsNow
<1> QED
  BY <1>1, SoundInit, SoundStep, PTL DEF Spec

-----------------------------------------------------------------------------
(* What a migration says of a control and what the comparison of the two   *)
(* versions says of its definition.                                        *)
Agrees(ref, cc) ==
    ref \in NewDefs /\ cc.reason \notin {"", "new"} =>
        /\ cc.reason = "text_changed" <=> ref \in TextChanged
        /\ cc.reason = "renumbered" <=> ref \in Renumbered
        /\ cc.reason = "carried" <=> ref \in Unchanged
        /\ cc.review <=> ref \in TextChanged
        /\ Uid[cc.from] = Uid[ref]

(* A control of the previous cycle is not of the next version.             *)
OfItsVersion(e) == e.cycle = "previous" => e.ref \notin NewDefs

(* The comparison of two definitions with the same uid is the only one     *)
(* that concerns either: a uid names one definition of a version.          *)
LEMMA DiffSays ==
    ASSUME NEW o \in OldDefs, NEW n \in NewDefs, Uid[o] = Uid[n]
    PROVE  /\ MigrationReason(o, n) = "text_changed" <=> n \in TextChanged
           /\ MigrationReason(o, n) = "renumbered" <=> n \in Renumbered
           /\ MigrationReason(o, n) = "carried" <=> n \in Unchanged
<1>1. \A q \in InBoth : q[2] = n => q[1] = o
  BY DefsAssumption DEF InBoth
<1>2. <<o, n>> \in InBoth /\ <<o, n>>[1] = o /\ <<o, n>>[2] = n
  BY DEF InBoth
<1>3. n \in TextChanged <=> Body[o] # Body[n]
  BY <1>1, <1>2 DEF TextChanged
<1>4. n \in Renumbered <=> DisplayCode[o] # DisplayCode[n] /\ n \notin TextChanged
  BY <1>1, <1>2 DEF Renumbered
<1>5. n \in Unchanged <=> n \notin TextChanged /\ n \notin Renumbered
  BY <1>2 DEF Unchanged
<1> QED
  BY <1>3, <1>4, <1>5 DEF MigrationReason

LEMMA CarriedSays ==
    ASSUME NEW prev, NEW ref, NEW from, NEW reason, NEW now
    PROVE  /\ Carried(prev, ref, from, reason, now).reason = reason
           /\ Carried(prev, ref, from, reason, now).review <=> reason = "text_changed"
           /\ Carried(prev, ref, from, reason, now).from = from
BY DEF Carried, NewControl

LEMMA PlanAgrees ==
    ASSUME NEW seen, NEW now, NEW p \in Plan(seen, now),
           \A r \in seen : r \notin NewDefs
    PROVE  Agrees(p.ref, p.rec)
<1>1. CASE \E r \in seen \ OldDefs :
             p = [ref |-> r, rec |-> Carried(Prev(r), r, r, "carried", now)]
  <2>1. PICK r \in seen :
           p = [ref |-> r, rec |-> Carried(Prev(r), r, r, "carried", now)]
    BY <1>1
  <2>2. p.ref = r /\ r \notin NewDefs
    BY <2>1
  <2> QED
    BY <2>2 DEF Agrees
<1>2. CASE \E o \in seen \cap OldDefs, n \in NewDefs :
             /\ Uid[o] = Uid[n]
             /\ p = [ref |-> n, rec |-> Carried(Prev(o), n, o,
                                               MigrationReason(o, n), now)]
  <2>1. PICK o \in OldDefs, n \in NewDefs :
           /\ Uid[o] = Uid[n]
           /\ p = [ref |-> n, rec |-> Carried(Prev(o), n, o,
                                             MigrationReason(o, n), now)]
    BY <1>2
  <2> DEFINE why == MigrationReason(o, n)
             cc == Carried(Prev(o), n, o, why, now)
  <2>2. cc.reason = why /\ (cc.review <=> why = "text_changed") /\ cc.from = o
    BY CarriedSays
  <2>3. /\ why = "text_changed" <=> n \in TextChanged
        /\ why = "renumbered" <=> n \in Renumbered
        /\ why = "carried" <=> n \in Unchanged
    BY <2>1, DiffSays
  <2>4. p.ref = n /\ p.rec = cc
    BY <2>1
  <2> HIDE DEF why, cc
  <2>5. Agrees(n, cc)
    BY <2>1, <2>2, <2>3 DEF Agrees
  <2> QED
    BY <2>4, <2>5
<1>3. CASE \E n \in Unseen(seen) : p = [ref |-> n, rec |-> Added(n, now)]
  <2>1. PICK n \in Unseen(seen) : p = [ref |-> n, rec |-> Added(n, now)]
    BY <1>3
  <2>2. Added(n, now).reason = "new"
    BY DEF Added, NewControl
  <2> QED
    BY <2>1, <2>2 DEF Agrees
<1> QED
  BY <1>1, <1>2, <1>3, PlanIs

TaskAgrees(o) ==
    o # NoOp =>
        /\ o.step = "save" => Agrees(o.of.ref, o.rec) /\ OfItsVersion(o.of)
        /\ o.step \in {"find", "lay"} => \A p \in o.plan : Agrees(p.ref, p.rec)

(* Every row agrees with the comparison, and so does all that is planned   *)
(* or in hand.                                                             *)
Agreeing ==
    /\ \A e \in Rows : Agrees(e.ref, projection[e]) /\ OfItsVersion(e)
    /\ \A w \in Workers : TaskAgrees(op[w])

LEMMA TaskChanges ==
    ASSUME Sound, NEW w \in Workers, NEW r, op' = [op EXCEPT ![w] = r]
    PROVE  op'[w] = r /\ \A v \in Workers : v # w => op'[v] = op[v]
BY DEF Sound, TypeOK

LEMMA StepAgrees ==
    ASSUME Sound, Agreeing, NEW w \in Workers, NEW r, op' = [op EXCEPT ![w] = r],
           TaskAgrees(r),
           \A e \in Entities : projection'[e] # NoRecord =>
               Agrees(e.ref, projection'[e]) /\ OfItsVersion(e)
    PROVE  Agreeing'
<1>1. \A v \in Workers : TaskAgrees(op'[v])
  BY TaskChanges DEF Agreeing
<1>2. \A v \in Workers : TaskAgrees(op[v])'
  BY <1>1 DEF TaskAgrees, Agrees, OfItsVersion, TextChanged, Renumbered, Unchanged, InBoth
<1> QED
  BY <1>2 DEF Agreeing, Rows, Exists, Agrees, OfItsVersion, TextChanged, Renumbered,
              Unchanged, InBoth

LEMMA RowsStillAgree ==
    ASSUME Sound, Agreeing, UNCHANGED projection
    PROVE  \A e \in Entities : projection'[e] # NoRecord =>
               Agrees(e.ref, projection'[e]) /\ OfItsVersion(e)
BY DEF Agreeing, Rows, Exists

LEMMA SavedRowAgrees ==
    ASSUME Sound, Agreeing, NEW e \in Entities, NEW cc \in Controls, Save(e, cc),
           Agrees(e.ref, cc), OfItsVersion(e)
    PROVE  \A d \in Entities : projection'[d] # NoRecord =>
               Agrees(d.ref, projection'[d]) /\ OfItsVersion(d)
<1>1. /\ projection'[e] = cc
      /\ \A d \in Entities : d # e => projection'[d] = projection[d]
  BY DEF Sound, TypeOK, Save, Upserted
<1> QED
  BY <1>1 DEF Agreeing, Rows, Exists

LEMMA AgreeingInit == Init => Agreeing
BY DEF Init, Agreeing, Rows, Exists, TaskAgrees

LEMMA AgreeingStep ==
    ASSUME \A e \in ByHand : OfItsVersion(e),
           Sound, Agreeing, [Next]_vars
    PROVE  Agreeing'
<1>1. CASE UNCHANGED vars
  BY <1>1 DEF vars, Agreeing, Rows, Exists, TaskAgrees, Agrees, OfItsVersion, TextChanged,
              Renumbered, Unchanged, InBoth
<1>2. CASE Next
  <2>1. PICK w \in Workers : WorkerStep(w)
    BY <1>2, NextIsAStep
  <2>2. ASSUME NEW e \in ByHand, NEW a \in Given[e],
               CreateControl(w, e, a)
        PROVE  Agreeing'
    <3> DEFINE cc == NewControl(e.ref, a, clock)
               r == [step |-> "save", of |-> e, rec |-> cc]
    <3>1. UNCHANGED projection /\ op' = [op EXCEPT ![w] = r]
      BY <2>2 DEF CreateControl, Begin
    <3>2. cc.reason = ""
      BY DEF NewControl
    <3> HIDE DEF cc
    <3>3. TaskAgrees(r)
      BY <3>2 DEF TaskAgrees, Agrees
    <3> HIDE DEF r
    <3> QED
      BY <3>1, <3>3, RowsStillAgree, StepAgrees
  <2>3. ASSUME NEW e \in Entities, NEW ask \in Asks, NEW basis \in Bases,
               UpdateControl(w, e, ask, basis)
        PROVE  Agreeing'
    <3> DEFINE old == projection[e]
               cc == Updated(old, ask, basis, clock)
               r == [step |-> "save", of |-> e, rec |-> cc]
    <3>1. UNCHANGED projection /\ op' = [op EXCEPT ![w] = r] /\ Exists(e)
      BY <2>3 DEF UpdateControl, Begin
    <3>2. Agrees(e.ref, old) /\ OfItsVersion(e)
      BY <3>1 DEF Agreeing, Rows
    <3>3. old \in Controls /\ Replays(old, clock) /\ clock \in Nat /\ clock <= clock
      BY <3>1 DEF Sound, TypeOK, Replaying, Rows, Exists
    <3> HIDE DEF old
    <3>4. cc.reason = old.reason /\ cc.review = old.review /\ cc.from = old.from
      BY <3>3, UpdatedFits
    <3> HIDE DEF cc
    <3>5. Agrees(e.ref, cc)
      BY <3>2, <3>4 DEF Agrees
    <3>6. TaskAgrees(r)
      BY <3>2, <3>5 DEF TaskAgrees
    <3> HIDE DEF r
    <3> QED
      BY <3>1, <3>6, RowsStillAgree, StepAgrees
  <2>4. CASE SaveControl(w)
    <3>1. op[w] \in SaveTasks /\ op[w].of \in Entities /\ op[w].rec \in Controls
      BY <2>4, TaskAt DEF SaveControl, SaveTasks, Sound
    <3>2. Agrees(op[w].of.ref, op[w].rec) /\ OfItsVersion(op[w].of)
      BY <2>4 DEF SaveControl, At, Agreeing, TaskAgrees
    <3>3. Save(op[w].of, op[w].rec) /\ op' = [op EXCEPT ![w] = NoOp]
      BY <2>4 DEF SaveControl
    <3>4. TaskAgrees(NoOp)
      BY DEF TaskAgrees
    <3> QED
      BY <3>1, <3>2, <3>3, <3>4, SavedRowAgrees, StepAgrees
  <2>5. CASE InitializeCycle(w)
    <3> DEFINE r == [step |-> "find", seen |-> Seen, plan |-> Plan(Seen, clock)]
    <3>1. UNCHANGED projection /\ op' = [op EXCEPT ![w] = r]
      BY <2>5 DEF InitializeCycle, Begin, Seen
    <3>2. ASSUME NEW n \in Seen PROVE n \notin NewDefs
      <4> DEFINE e == [cycle |-> "previous", ref |-> n]
      <4>1. e \in Rows /\ e.cycle = "previous" /\ e.ref = n
        BY EntitiesAre DEF Seen, Rows, Refs
      <4> HIDE DEF e
      <4> QED
        BY <4>1 DEF Agreeing, OfItsVersion
    <3>3. \A p \in Plan(Seen, clock) : Agrees(p.ref, p.rec)
      BY <3>2, PlanAgrees
    <3>4. TaskAgrees(r)
      BY <3>3 DEF TaskAgrees
    <3> HIDE DEF r
    <3> QED
      BY <3>1, <3>4, RowsStillAgree, StepAgrees
  <2>6. ASSUME NEW p \in op[w].plan, FindPlanned(w, p) PROVE Agreeing'
    <3> DEFINE q == [step |-> "find", seen |-> op[w].seen, plan |-> op[w].plan \ {p}]
               r == [step |-> "lay", seen |-> op[w].seen, plan |-> op[w].plan,
                     next |-> p]
    <3>1. At(w, "find") /\ UNCHANGED projection
          /\ (op' = [op EXCEPT ![w] = q] \/ op' = [op EXCEPT ![w] = r])
      BY <2>6, FindFacts
    <3>2. \A x \in op[w].plan : Agrees(x.ref, x.rec)
      BY <3>1 DEF At, Agreeing, TaskAgrees
    <3>3. TaskAgrees(q) /\ TaskAgrees(r)
      BY <3>2 DEF TaskAgrees
    <3> HIDE DEF q, r
    <3> QED
      BY <3>1, <3>3, RowsStillAgree, StepAgrees
  <2>7. CASE SavePlanned(w)
    <3> DEFINE r == [step |-> "find", seen |-> op[w].seen,
                     plan |-> op[w].plan \ {op[w].next}]
               e == [cycle |-> "next", ref |-> op[w].next.ref]
    <3>1. /\ At(w, "lay") /\ op[w].next \in op[w].plan
          /\ e \in Entities /\ op[w].next.rec \in Controls
          /\ Save(e, op[w].next.rec) /\ op' = [op EXCEPT ![w] = r]
      BY <2>7, SavePlannedFacts
    <3>2. \A x \in op[w].plan : Agrees(x.ref, x.rec)
      BY <3>1 DEF At, Agreeing, TaskAgrees
    <3>3. e.ref = op[w].next.ref /\ OfItsVersion(e)
      BY DEF OfItsVersion
    <3>4. TaskAgrees(r)
      BY <3>2 DEF TaskAgrees
    <3>5. Agrees(e.ref, op[w].next.rec)
      BY <3>1, <3>2, <3>3
    <3> HIDE DEF r, e
    <3> QED
      BY <3>1, <3>3, <3>4, <3>5, SavedRowAgrees, StepAgrees
  <2>8. CASE EndMigration(w) \/ Abort(w)
    <3>1. UNCHANGED projection /\ op' = [op EXCEPT ![w] = NoOp]
      BY <2>8 DEF EndMigration, Abort, Finish
    <3>2. TaskAgrees(NoOp)
      BY DEF TaskAgrees
    <3> QED
      BY <3>1, <3>2, RowsStillAgree, StepAgrees
  <2> QED
    BY <2>1, <2>2, <2>3, <2>4, <2>5, <2>6, <2>7, <2>8 DEF WorkerStep
<1> QED
  BY <1>1, <1>2

(* What a migration says of a carried control is what the comparison of    *)
(* the two versions says of its definition, and it is put to review        *)
(* exactly when its text changed, when the controls made by hand in the    *)
(* previous cycle are not of the next version.                             *)
THEOREM MigrationTellsTheDiff ==
    ASSUME \A e \in ByHand : OfItsVersion(e)
    PROVE  Spec => []MigrationAgreesWithDiff
<1>1. Init => Sound /\ Agreeing
  BY SoundInit, AgreeingInit
<1>2. Sound /\ Agreeing /\ [Next]_vars => (Sound /\ Agreeing)'
  BY SoundStep, AgreeingStep
<1>3. Sound /\ Agreeing => MigrationAgreesWithDiff
  BY DEF Agreeing, Agrees, MigrationAgreesWithDiff
<1> QED
  BY <1>1, <1>2, <1>3, PTL DEF Spec

-----------------------------------------------------------------------------
(* All that a migration is to lay down is there or still planned: the plan *)
(* drops a control only when it is there, and no row ever goes away.       *)
Due(o) == NewDefs \cup (o.seen \ OldDefs)

Laid(r) == Exists([cycle |-> "next", ref |-> r])

TaskCovers(o) ==
    o # NoOp /\ o.step \in {"find", "lay"} =>
        \A r \in Due(o) : Laid(r) \/ \E p \in o.plan : p.ref = r

Covering == \A w \in Workers : TaskCovers(op[w])

(* A row that is there stays there.                                        *)
LEMMA RowsStay ==
    ASSUME Sound, [Next]_vars, NEW e \in Entities, Exists(e)
    PROVE  Exists(e)'
<1>1. CASE UNCHANGED projection
  BY <1>1 DEF Exists
<1>2. ASSUME NEW d \in Entities, NEW cc \in Controls, Save(d, cc) PROVE Exists(e)'
  <2>1. cc # NoRecord
    BY NoRecordAssumption
  <2>2. projection' = [projection EXCEPT ![d] = cc]
    BY <1>2 DEF Save, Upserted
  <2> QED
    BY <2>1, <2>2 DEF Sound, TypeOK, Exists
<1>3. CASE Next
  <2>1. PICK w \in Workers : WorkerStep(w)
    BY <1>3, NextIsAStep
  <2>2. CASE SaveControl(w)
    <3>1. op[w].of \in Entities /\ op[w].rec \in Controls
      BY <2>2, TaskAt DEF SaveControl, SaveTasks, Sound
    <3> QED
      BY <2>2, <3>1, <1>2 DEF SaveControl
  <2>3. CASE SavePlanned(w)
    BY <2>3, <1>2, SavePlannedFacts
  <2>4. CASE ~SaveControl(w) /\ ~SavePlanned(w)
    <3>1. UNCHANGED projection
      BY <2>1, <2>4, Zenon DEF WorkerStep, CreateControl, UpdateControl, InitializeCycle,
         FindPlanned, EndMigration, Abort, Begin, Finish
    <3> QED
      BY <3>1, <1>1
  <2> QED
    BY <2>2, <2>3, <2>4
<1> QED
  BY <1>1, <1>3 DEF vars

LEMMA LaidStays ==
    ASSUME Sound, [Next]_vars, NEW r \in Refs, Laid(r)
    PROVE  Laid(r)'
BY RowsStay, EntitiesAre DEF Laid

LEMMA DueIsRefs ==
    ASSUME Sound, NEW w \in Workers, At(w, "find") \/ At(w, "lay")
    PROVE  Due(op[w]) \subseteq Refs
<1>1. op[w].seen \in SUBSET Refs
  BY TaskAt DEF Sound, FindTasks, LayTasks
<1> QED
  BY <1>1, EntitiesAre DEF Due

(* What another worker is to lay down stays covered.                       *)
LEMMA OthersCover ==
    ASSUME Sound, Covering, [Next]_vars, NEW v \in Workers, op'[v] = op[v]
    PROVE  TaskCovers(op[v])'
<1>1. CASE At(v, "find") \/ At(v, "lay")
  <2>1. \A r \in Due(op[v]) : Laid(r) \/ \E p \in op[v].plan : p.ref = r
    BY <1>1 DEF At, Covering, TaskCovers
  <2>2. \A r \in Due(op[v]) : Laid(r) => Laid(r)'
    BY <1>1, DueIsRefs, LaidStays
  <2> QED
    BY <2>1, <2>2 DEF TaskCovers, Due
<1>2. CASE ~(At(v, "find") \/ At(v, "lay"))
  BY <1>2 DEF At, TaskCovers
<1> QED
  BY <1>1, <1>2

LEMMA StepCovers ==
    ASSUME Sound, Covering, [Next]_vars, NEW w \in Workers, NEW r,
           op' = [op EXCEPT ![w] = r],
           r # NoOp /\ r.step \in {"find", "lay"} =>
               \A x \in Due(r) : Laid(x)' \/ \E p \in r.plan : p.ref = x
    PROVE  Covering'
<1>1. op'[w] = r /\ \A v \in Workers : v # w => op'[v] = op[v]
  BY TaskChanges
<1>2. TaskCovers(op[w])'
  BY <1>1 DEF TaskCovers, Due
<1>3. ASSUME NEW v \in Workers, v # w PROVE TaskCovers(op[v])'
  BY <1>1, <1>3, OthersCover
<1> QED
  BY <1>2, <1>3 DEF Covering

LEMMA CoveringInit == Init => Covering
BY DEF Init, Covering, TaskCovers

LEMMA CoveringStep ==
    ASSUME Sound, Covering, [Next]_vars
    PROVE  Covering'
<1>1. CASE UNCHANGED vars
  BY <1>1 DEF vars, Covering, TaskCovers, Due, Laid, Exists
<1>2. CASE Next
  <2>1. PICK w \in Workers : WorkerStep(w)
    BY <1>2, NextIsAStep
  <2>2. ASSUME NEW e, NEW cc, op' = [op EXCEPT ![w] = [step |-> "save", of |-> e,
                                                       rec |-> cc]]
        PROVE  Covering'
    <3> DEFINE r == [step |-> "save", of |-> e, rec |-> cc]
    <3>1. r.step = "save" /\ op' = [op EXCEPT ![w] = r]
      BY <2>2
    <3> HIDE DEF r
    <3> QED
      BY <3>1, StepCovers
  <2>3. CASE \E e \in ByHand : \E a \in Given[e] : CreateControl(w, e, a)
    BY <2>3, <2>2 DEF CreateControl, Begin
  <2>4. CASE \E e \in Entities, ask \in Asks, basis \in Bases :
                UpdateControl(w, e, ask, basis)
    BY <2>4, <2>2 DEF UpdateControl, Begin
  <2>5. CASE op' = [op EXCEPT ![w] = NoOp]
    BY <2>5, StepCovers
  <2>6. CASE InitializeCycle(w)
    <3> DEFINE r == [step |-> "find", seen |-> Seen, plan |-> Plan(Seen, clock)]
    <3>1. op' = [op EXCEPT ![w] = r]
      BY <2>6 DEF InitializeCycle, Begin, Seen
    <3>2. \A x \in Due(r) : \E p \in r.plan : p.ref = x
      BY PlanIs DEF Due
    <3> HIDE DEF r
    <3> QED
      BY <3>1, <3>2, StepCovers
  <2>7. ASSUME NEW p \in op[w].plan, FindPlanned(w, p) PROVE Covering'
    <3> DEFINE q == [step |-> "find", seen |-> op[w].seen, plan |-> op[w].plan \ {p}]
               r == [step |-> "lay", seen |-> op[w].seen, plan |-> op[w].plan,
                     next |-> p]
    <3>1. At(w, "find") /\ UNCHANGED projection
          /\ \/ Laid(p.ref) /\ op' = [op EXCEPT ![w] = q]
             \/ op' = [op EXCEPT ![w] = r]
      BY <2>7, FindFacts DEF Laid
    <3>2. \A x : Laid(x)' <=> Laid(x)
      BY <3>1 DEF Laid, Exists
    <3>3. \A x \in Due(op[w]) : Laid(x) \/ \E y \in op[w].plan : y.ref = x
      BY <3>1 DEF At, Covering, TaskCovers
    <3>4. Due(q) = Due(op[w]) /\ Due(r) = Due(op[w])
          /\ q.plan = op[w].plan \ {p} /\ r.plan = op[w].plan
      BY DEF Due
    <3>5. CASE Laid(p.ref) /\ op' = [op EXCEPT ![w] = q]
      <4>1. \A x \in Due(q) : Laid(x)' \/ \E y \in q.plan : y.ref = x
        BY <3>2, <3>3, <3>4, <3>5
      <4> HIDE DEF q
      <4> QED
        BY <3>5, <4>1, StepCovers
    <3>6. CASE op' = [op EXCEPT ![w] = r]
      <4>1. \A x \in Due(r) : Laid(x)' \/ \E y \in r.plan : y.ref = x
        BY <3>2, <3>3, <3>4
      <4> HIDE DEF r
      <4> QED
        BY <3>6, <4>1, StepCovers
    <3> QED
      BY <3>1, <3>5, <3>6
  <2>8. CASE SavePlanned(w)
    <3>0. PICK n : n = op[w].next
      OBVIOUS
    <3> DEFINE r == [step |-> "find", seen |-> op[w].seen, plan |-> op[w].plan \ {n}]
               e == [cycle |-> "next", ref |-> n.ref]
    <3>1. /\ At(w, "lay") /\ n.rec \in Controls /\ e \in Entities
          /\ Save(e, n.rec) /\ op' = [op EXCEPT ![w] = r]
      BY <2>8, <3>0, SavePlannedFacts
    <3>2. projection'[e] = n.rec /\ n.rec # NoRecord
      BY <3>1, NoRecordAssumption DEF Save, Upserted, Sound, TypeOK
    <3>3. Laid(n.ref)'
      BY <3>2 DEF Laid, Exists
    <3>4. \A x \in Due(op[w]) : Laid(x) \/ \E y \in op[w].plan : y.ref = x
      BY <3>1 DEF At, Covering, TaskCovers
    <3>5. \A x \in Due(op[w]) : Laid(x) => Laid(x)'
      BY <3>1, DueIsRefs, LaidStays
    <3>6. Due(r) = Due(op[w]) /\ r.plan = op[w].plan \ {n}
      BY DEF Due
    <3>7. \A x \in Due(r) : Laid(x)' \/ \E y \in r.plan : y.ref = x
      BY <3>3, <3>4, <3>5, <3>6
    <3> HIDE DEF r
    <3> QED
      BY <3>1, <3>7, StepCovers
  <2> QED
    BY <2>1, <2>3, <2>4, <2>5, <2>6, <2>7, <2>8
    DEF WorkerStep, SaveControl, EndMigration, Abort, Finish
<1> QED
  BY <1>1, <1>2

(* A migration that answers has laid down every definition of the new      *)
(* version and a successor of every control it saw but the removed ones,   *)
(* whatever other requests did meanwhile and whatever attempts were cut    *)
(* short before it.                                                        *)
THEOREM MigrationLeavesNothingOut == Spec => MigrationComplete
<1>1. Init => Sound /\ Covering
  BY SoundInit, CoveringInit
<1>2. Sound /\ Covering /\ [Next]_vars => (Sound /\ Covering)'
  BY SoundStep, CoveringStep
<1>3. Sound /\ Covering /\ [Next]_vars =>
         [\A w \in Workers : EndMigration(w) =>
            \A r \in NewDefs \cup (op[w].seen \ OldDefs) :
                Exists([cycle |-> "next", ref |-> r])]_op
  <2> SUFFICES ASSUME Covering, NEW w \in Workers, EndMigration(w),
                      NEW r \in NewDefs \cup (op[w].seen \ OldDefs)
               PROVE  Exists([cycle |-> "next", ref |-> r])
    OBVIOUS
  <2>1. op[w] # NoOp /\ op[w].step = "find" /\ op[w].plan = {}
    BY DEF EndMigration, At
  <2> QED
    BY <2>1 DEF Covering, TaskCovers, Due, Laid
<1> QED
  BY <1>1, <1>2, <1>3, PTL DEF Spec, MigrationComplete

-----------------------------------------------------------------------------
(* While requests do not cross, one handler runs at a time; so the copy it *)
(* saves adds to the row that is there, and a row a migration lays down is *)
(* still missing when it is saved.                                         *)
Alone == ~crossed => \A u, v \in Workers : op[u] # NoOp /\ op[v] # NoOp => u = v

Extends(old, new, t) ==
    /\ \E x \in Entries : x.ts = t /\ new.history = Append(old.history, x)
    /\ IsPrefix(old.assessments, new.assessments)

TaskKeepsPast(o) ==
    o # NoOp =>
        /\ o.step = "save" /\ Exists(o.of) => Extends(projection[o.of], o.rec, clock)
        /\ o.step = "lay" => ~Laid(o.next.ref)

Orderly == Alone /\ (~crossed => \A w \in Workers : TaskKeepsPast(op[w]))

LEMMA OrderlyInit == Init => Orderly
BY DEF Init, Orderly, Alone, TaskKeepsPast

(* A step that leaves no requests crossed is of the only handler.          *)
LEMMA StepIsAlone ==
    ASSUME Sound, Orderly, NEW w \in Workers, WorkerStep(w), ~crossed'
    PROVE  /\ ~crossed
           /\ \A v \in Workers : v # w => op[v] = NoOp
<1>1. ASSUME NEW r, Begin(w, r) PROVE ~crossed /\ \A v \in Workers : op[v] = NoOp
  BY <1>1, Zenon DEF Begin
<1>2. CASE UNCHANGED crossed /\ op[w] # NoOp
  <2>1. ~crossed
    BY <1>2
  <2> QED
    BY <2>1, <1>2 DEF Orderly, Alone
<1>3. CASE \E r : Begin(w, r)
  BY <1>1, <1>3
<1>4. (\E r : Begin(w, r)) \/ (UNCHANGED crossed /\ op[w] # NoOp)
  <2>1. ASSUME NEW e \in ByHand, NEW a \in Given[e],
               CreateControl(w, e, a)
        PROVE  \E r : Begin(w, r)
    BY <2>1, Zenon DEF CreateControl
  <2>2. ASSUME NEW e \in Entities, NEW ask \in Asks, NEW basis \in Bases,
               UpdateControl(w, e, ask, basis)
        PROVE  \E r : Begin(w, r)
    BY <2>2, Zenon DEF UpdateControl
  <2>3. InitializeCycle(w) => \E r : Begin(w, r)
    BY Zenon DEF InitializeCycle
  <2>4. SaveControl(w) \/ SavePlanned(w) => UNCHANGED crossed /\ op[w] # NoOp
    BY Zenon DEF SaveControl, SavePlanned, Save, At
  <2>5. ASSUME NEW p \in op[w].plan, FindPlanned(w, p)
        PROVE  UNCHANGED crossed /\ op[w] # NoOp
    BY <2>5, Zenon DEF FindPlanned, At
  <2>6. EndMigration(w) \/ Abort(w) => UNCHANGED crossed /\ op[w] # NoOp
    BY Zenon DEF EndMigration, Abort, Finish, At
  <2> QED
    BY <2>1, <2>2, <2>3, <2>4, <2>5, <2>6, Zenon DEF WorkerStep
<1> QED
  BY <1>2, <1>3, <1>4

LEMMA StepIsOrderly ==
    ASSUME Sound, Orderly, NEW w \in Workers, WorkerStep(w), NEW r,
           op' = [op EXCEPT ![w] = r], ~crossed' => TaskKeepsPast(r)'
    PROVE  Orderly'
<1>1. op'[w] = r /\ \A v \in Workers : v # w => op'[v] = op[v]
  BY TaskChanges
<1>2. ASSUME ~crossed'
      PROVE  \A v \in Workers : v # w => op'[v] = NoOp
  BY <1>1, <1>2, StepIsAlone
<1>3. Alone'
  BY <1>2 DEF Alone
<1>4. ASSUME ~crossed', NEW v \in Workers
      PROVE  TaskKeepsPast(op[v])'
  <2>1. CASE v = w
    BY <2>1, <1>1, <1>4 DEF TaskKeepsPast, Extends, Exists, Laid
  <2>2. CASE v # w
    BY <2>2, <1>2, <1>4 DEF TaskKeepsPast
  <2> QED
    BY <2>1, <2>2
<1> QED
  BY <1>3, <1>4, Zenon DEF Orderly

LEMMA OrderlyStep ==
    ASSUME Sound, Orderly, [Next]_vars
    PROVE  Orderly'
<1>1. CASE UNCHANGED vars
  <2>1. op' = op /\ projection' = projection /\ clock' = clock /\ (crossed' <=> crossed)
    BY <1>1 DEF vars
  <2> QED
    BY <2>1 DEF Orderly, Alone, TaskKeepsPast, Extends, Exists, Laid
<1>2. CASE Next
  <2>1. PICK w \in Workers : WorkerStep(w)
    BY <1>2, NextIsAStep
  <2>2. ASSUME NEW e \in ByHand, NEW a \in Given[e],
               CreateControl(w, e, a)
        PROVE  Orderly'
    <3>0. PICK cc : cc = NewControl(e.ref, a, clock)
      OBVIOUS
    <3> DEFINE r == [step |-> "save", of |-> e, rec |-> cc]
    <3>1. UNCHANGED projection /\ op' = [op EXCEPT ![w] = r] /\ ~Exists(e)
      BY <2>2, <3>0 DEF CreateControl, Begin
    <3>2. TaskKeepsPast(r)'
      BY <3>1 DEF TaskKeepsPast, Exists
    <3> HIDE DEF r
    <3> QED
      BY <2>1, <3>1, <3>2, StepIsOrderly
  <2>3. ASSUME NEW e \in Entities, NEW ask \in Asks, NEW basis \in Bases,
               UpdateControl(w, e, ask, basis)
        PROVE  Orderly'
    <3>0. PICK cc : cc = Updated(projection[e], ask, basis, clock)
      OBVIOUS
    <3> DEFINE r == [step |-> "save", of |-> e, rec |-> cc]
    <3>1. /\ UNCHANGED <<projection, clock>> /\ Exists(e)
          /\ op' = [op EXCEPT ![w] = r]
      BY <2>3, <3>0 DEF UpdateControl, Begin
    <3>2. /\ projection[e] \in Controls /\ Replays(projection[e], clock)
          /\ clock \in Nat /\ clock <= clock
      BY <3>1 DEF Sound, TypeOK, Replaying, Rows, Exists
    <3>3. Extends(projection[e], cc, clock)
      BY <3>0, <3>2, UpdatedFits DEF Extends
    <3>4. Extends(projection'[e], cc, clock')
      BY <3>1, <3>3
    <3>5. r.of = e /\ r.rec = cc /\ r.step = "save"
      OBVIOUS
    <3> HIDE DEF r
    <3>6. TaskKeepsPast(r)'
      BY <3>4, <3>5 DEF TaskKeepsPast, Extends
    <3> QED
      BY <2>1, <3>1, <3>6, StepIsOrderly
  <2>4. CASE op' = [op EXCEPT ![w] = NoOp]
    <3>1. TaskKeepsPast(NoOp)'
      BY DEF TaskKeepsPast
    <3> QED
      BY <2>1, <2>4, <3>1, StepIsOrderly
  <2>5. ASSUME NEW seen, NEW plan,
               op' = [op EXCEPT ![w] = [step |-> "find", seen |-> seen, plan |-> plan]]
        PROVE  Orderly'
    <3> DEFINE r == [step |-> "find", seen |-> seen, plan |-> plan]
    <3>1. TaskKeepsPast(r)'
      BY DEF TaskKeepsPast
    <3>2. op' = [op EXCEPT ![w] = r]
      BY <2>5
    <3> HIDE DEF r
    <3> QED
      BY <2>1, <3>1, <3>2, StepIsOrderly
  <2>6. CASE InitializeCycle(w)
    BY <2>6, <2>5 DEF InitializeCycle, Begin
  <2>7. ASSUME NEW p \in op[w].plan, FindPlanned(w, p) PROVE Orderly'
    <3>0. PICK seen, plan : seen = op[w].seen /\ plan = op[w].plan
      OBVIOUS
    <3> DEFINE r == [step |-> "lay", seen |-> seen, plan |-> plan, next |-> p]
    <3>1. /\ UNCHANGED projection
          /\ \/ op' = [op EXCEPT ![w] = [step |-> "find", seen |-> seen,
                                         plan |-> plan \ {p}]]
             \/ ~Laid(p.ref) /\ op' = [op EXCEPT ![w] = r]
      BY <2>7, <3>0, FindFacts DEF Laid
    <3>2. CASE ~Laid(p.ref) /\ op' = [op EXCEPT ![w] = r]
      <4>1. TaskKeepsPast(r)'
        BY <3>1, <3>2 DEF TaskKeepsPast, Laid, Exists
      <4> HIDE DEF r
      <4> QED
        BY <2>1, <3>2, <4>1, StepIsOrderly
    <3> QED
      BY <3>1, <3>2, <2>5
  <2>8. CASE SavePlanned(w)
    BY <2>8, <2>5, SavePlannedFacts
  <2> QED
    BY <2>1, <2>2, <2>3, <2>4, <2>6, <2>7, <2>8
    DEF WorkerStep, SaveControl, EndMigration, Abort, Finish
<1> QED
  BY <1>1, <1>2

(* A row that another record extends has the same past.                    *)
LEMMA ExtendedIsSame ==
    ASSUME NEW old \in Controls, NEW new \in Controls, NEW now \in Nat,
           Extends(old, new, now), NEW t \in 0..(now - 1)
    PROVE  AsOf(new, t) = AsOf(old, t)
<1>1. PICK x \in Entries : x.ts = now /\ new.history = Append(old.history, x)
  BY DEF Extends
<1>2. t \in Nat /\ x.ts > t
  BY <1>1
<1> QED
  BY <1>1, <1>2, PastReplaysTheSame

LEMMA StepKeepsPast ==
    ASSUME Sound, Orderly, NEW w \in Workers, WorkerStep(w), ~crossed', NEW e \in Rows
    PROVE  SamePast(e)
<1>1. projection[e] \in Controls /\ e \in Entities /\ Exists(e)
  BY RowsAreControls DEF Rows, Sound
<1>2. CASE projection'[e] = projection[e]
  <2>1. IsPrefix(projection[e].assessments, projection[e].assessments)
    <3>1. projection[e].assessments \in Seq(Frozens)
      BY <1>1, ControlsAreRows
    <3> QED
      BY <3>1 DEF IsPrefix
  <2> QED
    BY <1>2, <2>1 DEF SamePast
<1>3. CASE SaveControl(w)
  <2>1. op[w].of \in Entities /\ op[w].rec \in Controls /\ At(w, "save")
    BY <1>3, TaskAt DEF SaveControl, SaveTasks, Sound
  <2>2. projection' = [projection EXCEPT ![op[w].of] = op[w].rec]
    BY <1>3 DEF SaveControl, Save, Upserted
  <2>3. CASE op[w].of = e
    <3>1. projection'[e] = op[w].rec
      BY <2>2, <2>3, <1>1 DEF Sound, TypeOK
    <3>2. Extends(projection[e], op[w].rec, clock)
      BY <2>1, <2>3, <1>1, StepIsAlone DEF At, Orderly, TaskKeepsPast
    <3>3. clock \in Nat
      BY DEF Sound, TypeOK
    <3>4. \A t \in 0..(clock - 1) : AsOf(op[w].rec, t) = AsOf(projection[e], t)
      BY <1>1, <2>1, <3>2, <3>3, ExtendedIsSame
    <3>5. \A t \in 0..(clock - 1) : AsOf(projection'[e], t) = AsOf(projection[e], t)
      BY <3>1, <3>4
    <3>6. IsPrefix(projection[e].assessments, projection'[e].assessments)
      BY <3>1, <3>2 DEF Extends
    <3> QED
      BY <3>5, <3>6 DEF SamePast
  <2>4. CASE op[w].of # e
    <3>1. projection'[e] = projection[e]
      BY <2>2, <2>4, <1>1 DEF Sound, TypeOK
    <3> QED
      BY <3>1, <1>2
  <2> QED
    BY <2>3, <2>4
<1>4. CASE SavePlanned(w)
  <2> DEFINE d == [cycle |-> "next", ref |-> op[w].next.ref]
  <2>1. At(w, "lay") /\ projection' = [projection EXCEPT ![d] = op[w].next.rec]
    BY <1>4, SavePlannedFacts DEF Save, Upserted
  <2>2. ~Exists(d)
    BY <2>1, StepIsAlone DEF At, Orderly, TaskKeepsPast, Laid
  <2>3. d # e
    BY <2>2, <1>1
  <2> HIDE DEF d
  <2>4. projection'[e] = projection[e]
    BY <2>1, <2>3, <1>1 DEF Sound, TypeOK
  <2> QED
    BY <2>4, <1>2
<1>5. CASE ~SaveControl(w) /\ ~SavePlanned(w)
  <2>1. UNCHANGED projection
    BY <1>5, Zenon DEF WorkerStep, CreateControl, UpdateControl, InitializeCycle,
       FindPlanned, EndMigration, Abort, Begin, Finish
  <2> QED
    BY <2>1, <1>2
<1> QED
  BY <1>3, <1>4, <1>5

(* While requests do not cross, the past of a control stays as it was      *)
(* reported: no later update, migration or retry changes what an audit as  *)
(* of an earlier moment replays, nor a frozen judgement.                   *)
THEOREM AuditsStay == Spec => PastIsKept
<1>1. Init => Sound /\ Orderly
  BY SoundInit, OrderlyInit
<1>2. Sound /\ Orderly /\ [Next]_vars => (Sound /\ Orderly)'
  BY SoundStep, OrderlyStep
<1>3. Sound /\ Orderly /\ [Next]_vars =>
         [~crossed' => \A e \in Rows : SamePast(e)]_projection
  <2> SUFFICES ASSUME Sound, Orderly, [Next]_vars, projection' # projection, ~crossed',
                      NEW e \in Rows
               PROVE  SamePast(e)
    BY Zenon
  <2>1. Next
    BY DEF vars
  <2>2. PICK w \in Workers : WorkerStep(w)
    BY <2>1, NextIsAStep
  <2> QED
    BY <2>2, StepKeepsPast
<1> QED
  BY <1>1, <1>2, <1>3, PTL DEF Spec, PastIsKept

=============================================================================
