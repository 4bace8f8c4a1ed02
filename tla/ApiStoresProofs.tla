--------------------------- MODULE ApiStoresProofs ---------------------------
(***************************************************************************)
(* Proofs about ApiStores, for any number of threads, of records and of    *)
(* handlers, and whatever fails.                                           *)
(***************************************************************************)
EXTENDS ApiStores, SequenceTheorems, FiniteSetTheorems, TLAPS

-----------------------------------------------------------------------------
(* Lists of writes *)

IsWrite(x) == x = [cell |-> x.cell, val |-> x.val, guarded |-> x.guarded]

IsList(t) ==
    /\ t \in Seq({t[i] : i \in 1..Len(t)})
    /\ \A i \in 1..Len(t) : IsWrite(t[i])

LEMMA ListFrom ==
    ASSUME NEW S, NEW t \in Seq(S), \A i \in 1..Len(t) : IsWrite(t[i])
    PROVE  IsList(t)
<1>1. Len(t) \in Nat /\ t \in [1..Len(t) -> S]
  BY LenProperties
<1>2. t \in [1..Len(t) -> {t[i] : i \in 1..Len(t)}]
  BY <1>1
<1>3. t \in Seq({t[i] : i \in 1..Len(t)})
  BY <1>1, <1>2, SeqDef
<1> QED
  BY <1>3 DEF IsList

(* The same in lists of one, two and three writes.                         *)
LEMMA OneWrite ==
    ASSUME NEW x, IsWrite(x)
    PROVE  /\ IsList(<<x>>) /\ <<x>> # <<>> /\ Len(<<x>>) = 1
           /\ Head(<<x>>) = x /\ <<x>>[1] = x
<1> DEFINE t == <<x>>
<1>1. t \in Seq({x}) /\ Len(t) = 1 /\ t[1] = x /\ Head(t) = x /\ t # <<>>
  OBVIOUS
<1> HIDE DEF t
<1>2. IsList(t)
  BY <1>1, ListFrom
<1> QED
  BY <1>1, <1>2 DEF t

LEMMA TwoWrites ==
    ASSUME NEW x, NEW y, IsWrite(x), IsWrite(y)
    PROVE  /\ IsList(<<x, y>>) /\ <<x, y>> # <<>> /\ Len(<<x, y>>) = 2
           /\ Head(<<x, y>>) = x /\ <<x, y>>[1] = x /\ <<x, y>>[2] = y
<1> DEFINE t == <<x, y>>
<1>1. /\ t \in Seq({x, y}) /\ Len(t) = 2 /\ t # <<>>
      /\ t[1] = x /\ t[2] = y /\ Head(t) = x
  OBVIOUS
<1> HIDE DEF t
<1>2. \A i \in 1..Len(t) : IsWrite(t[i])
  BY <1>1
<1>3. IsList(t)
  BY <1>1, <1>2, ListFrom
<1> QED
  BY <1>1, <1>3 DEF t

LEMMA ThreeWrites ==
    ASSUME NEW x, NEW y, NEW z, IsWrite(x), IsWrite(y), IsWrite(z)
    PROVE  /\ IsList(<<x, y, z>>) /\ <<x, y, z>> # <<>> /\ Len(<<x, y, z>>) = 3
           /\ Head(<<x, y, z>>) = x
           /\ <<x, y, z>>[1] = x /\ <<x, y, z>>[2] = y /\ <<x, y, z>>[3] = z
<1> DEFINE t == <<x, y, z>>
<1>1. /\ t \in Seq({x, y, z}) /\ Len(t) = 3 /\ t # <<>>
      /\ t[1] = x /\ t[2] = y /\ t[3] = z /\ Head(t) = x
  OBVIOUS
<1> HIDE DEF t
<1>2. \A i \in 1..Len(t) : IsWrite(t[i])
  BY <1>1
<1>3. IsList(t)
  BY <1>1, <1>2, ListFrom
<1> QED
  BY <1>1, <1>3 DEF t

LEMMA FourWrites ==
    ASSUME NEW x, NEW y, NEW z, NEW e, IsWrite(x), IsWrite(y), IsWrite(z), IsWrite(e)
    PROVE  /\ IsList(<<x, y, z, e>>) /\ Len(<<x, y, z, e>>) = 4
           /\ <<x, y, z, e>>[1] = x /\ <<x, y, z, e>>[2] = y
           /\ <<x, y, z, e>>[3] = z /\ <<x, y, z, e>>[4] = e
<1> DEFINE t == <<x, y, z, e>>
<1>1. /\ t \in Seq({x, y, z, e}) /\ Len(t) = 4
      /\ t[1] = x /\ t[2] = y /\ t[3] = z /\ t[4] = e
  OBVIOUS
<1> HIDE DEF t
<1>2. \A i \in 1..Len(t) : IsWrite(t[i])
  BY <1>1
<1>3. IsList(t)
  BY <1>1, <1>2, ListFrom
<1> QED
  BY <1>1, <1>3 DEF t

LEMMA ListIs ==
    ASSUME NEW t, IsList(t)
    PROVE  /\ Len(t) \in Nat
           /\ t = <<>> <=> Len(t) = 0
           /\ t # <<>> => Head(t) = t[1] /\ 1 \in 1..Len(t)
BY HeadTailProperties, EmptySeq, LenProperties DEF IsList

(* What is left of a list after its first write.                           *)
LEMMA RestIs ==
    ASSUME NEW t, IsList(t), t # <<>>
    PROVE  /\ IsList(Tail(t)) /\ Len(Tail(t)) = Len(t) - 1
           /\ \A i \in 1..Len(Tail(t)) : i + 1 \in 1..Len(t) /\ Tail(t)[i] = t[i + 1]
<1> DEFINE S == {t[i] : i \in 1..Len(t)}
<1>1. t \in Seq(S) /\ Len(t) \in Nat
  BY ListIs DEF IsList
<1> HIDE DEF S
<1>2. /\ Tail(t) \in Seq(S) /\ Len(Tail(t)) = Len(t) - 1
      /\ \A i \in 1..Len(Tail(t)) : i + 1 \in 1..Len(t) /\ Tail(t)[i] = t[i + 1]
  BY <1>1, HeadTailProperties
<1>3. \A i \in 1..Len(Tail(t)) : IsWrite(Tail(t)[i])
  BY <1>2 DEF IsList
<1> QED
  BY <1>2, <1>3, ListFrom

(* Making the first write definite changes its value alone.                *)
LEMMA AtIs ==
    ASSUME NEW m, NEW t, IsList(t), t # <<>>
    PROVE  /\ IsList(At(m, t)) /\ Len(At(m, t)) = Len(t) /\ At(m, t) # <<>>
           /\ \A i \in 1..Len(t) : i # 1 => At(m, t)[i] = t[i]
           /\ At(m, t)[1].cell = t[1].cell
           /\ ~(t[1].cell[1] = "zabbix" /\ t[1].val = "present") => At(m, t) = t
           /\ t[1].cell[1] = "zabbix" /\ t[1].val = "present" =>
                 At(m, t)[1].val = m[<<"triage", t[1].cell[2]>>].status
<1> DEFINE present == t[1].cell[1] = "zabbix" /\ t[1].val = "present"
           x == [t[1] EXCEPT !.val = m[<<"triage", t[1].cell[2]>>].status]
<1>1. At(m, t) = IF present THEN <<x>> \o Tail(t) ELSE t
  BY DEF At
<1>2. Len(t) \in Nat \ {0} /\ 1 \in 1..Len(t) /\ IsWrite(t[1])
  BY ListIs DEF IsList
<1>3. /\ x = [cell |-> t[1].cell, val |-> m[<<"triage", t[1].cell[2]>>].status,
              guarded |-> t[1].guarded]
  BY <1>2 DEF IsWrite
<1>4. /\ IsWrite(x) /\ x.cell = t[1].cell /\ x.guarded = t[1].guarded
      /\ x.val = m[<<"triage", t[1].cell[2]>>].status
  BY <1>3 DEF IsWrite
<1> HIDE DEF present, x
<1>5. CASE ~present
  BY <1>1, <1>2, <1>5 DEF present
<1>6. CASE present
  <2> DEFINE S == {x} \cup {Tail(t)[i] : i \in 1..Len(Tail(t))}
             u == <<x>> \o Tail(t)
  <2>1. /\ Tail(t) \in Seq(S) /\ <<x>> \in Seq(S) /\ Len(<<x>>) = 1 /\ <<x>>[1] = x
        /\ Len(Tail(t)) = Len(t) - 1
        /\ \A i \in 1..Len(Tail(t)) : i + 1 \in 1..Len(t) /\ Tail(t)[i] = t[i + 1]
    <3>1. IsList(Tail(t))
      BY RestIs
    <3>2. Tail(t) \in Seq({Tail(t)[i] : i \in 1..Len(Tail(t))})
      BY <3>1, Zenon DEF IsList
    <3>3. Tail(t) \in Seq(S)
      BY <3>2
    <3> QED
      BY <3>3, RestIs
  <2> HIDE DEF S
  <2>2. u \in Seq(S) /\ Len(u) = Len(t)
    BY <1>2, <2>1, ConcatProperties
  <2>3. \A i \in 1..Len(t) : u[i] = IF i = 1 THEN x ELSE t[i]
    <3> SUFFICES ASSUME NEW i \in 1..Len(t) PROVE u[i] = IF i = 1 THEN x ELSE t[i]
      OBVIOUS
    <3>1. u[i] = IF i <= 1 THEN <<x>>[i] ELSE Tail(t)[i - 1]
      BY <1>2, <2>1, ConcatProperties
    <3>2. CASE i = 1
      BY <2>1, <3>1, <3>2
    <3>3. CASE i # 1
      <4>1. i - 1 \in 1..Len(Tail(t))
        BY <1>2, <2>1, <3>3
      <4>2. Tail(t)[i - 1] = t[(i - 1) + 1]
        BY <2>1, <4>1
      <4> QED
        BY <1>2, <3>1, <3>3, <4>2
    <3> QED
      BY <3>2, <3>3
  <2> HIDE DEF u
  <2>4. \A i \in 1..Len(u) : IsWrite(u[i])
    BY <1>4, <2>2, <2>3 DEF IsList
  <2>5. IsList(u)
    BY <2>2, <2>4, ListFrom
  <2>6. At(m, t) = u
    BY <1>1, <1>6 DEF u
  <2>7. u # <<>>
    BY <1>2, <2>2, <2>5, ListIs
  <2> QED
    BY <1>2, <1>4, <1>6, <2>2, <2>3, <2>5, <2>6, <2>7 DEF present
<1> QED
  BY <1>5, <1>6

(* The writes of a handler of an owner: the entries of what changed, then  *)
(* the record.                                                             *)
OwnerNew(m, h, form) == Filled(OwnerOf(m, h), form)
OwnerEntry(h) == <<"audit", [of |-> <<"exc", h>>, new |-> "set"]>>
OwnerChange(m, h, form) ==
    Write("audit", [of |-> <<"owner", h>>, new |-> OwnerNew(m, h, form).owner], TRUE)
ExcChange(m, h, form) ==
    Write("audit", [of |-> <<"exc", h>>, new |-> OwnerNew(m, h, form).exc], TRUE)
OwnerWrite(m, h, form) == Write("owner", h, OwnerNew(m, h, form))

LEMMA WriteIs ==
    ASSUME NEW store, NEW key, NEW val
    PROVE  /\ IsWrite(Write(store, key, val)) /\ IsWrite(Guarded(store, key, val))
           /\ Write(store, key, val).cell = <<store, key>>
           /\ Write(store, key, val).val = val /\ ~Write(store, key, val).guarded
           /\ Guarded(store, key, val).cell = <<store, key>>
           /\ Guarded(store, key, val).val = val
<1> DEFINE x == [cell |-> <<store, key>>, val |-> val, guarded |-> FALSE]
           y == [cell |-> <<store, key>>, val |-> val, guarded |-> TRUE]
<1>1. x.cell = <<store, key>> /\ x.val = val /\ y.cell = <<store, key>> /\ y.val = val
  OBVIOUS
<1>2. x.guarded = FALSE
  OBVIOUS
<1>3. y.guarded = TRUE
  OBVIOUS
<1>4. IsWrite(x)
  BY <1>1, <1>2 DEF IsWrite
<1>5. IsWrite(y)
  BY <1>1, <1>3 DEF IsWrite
<1> QED
  BY <1>1, <1>2, <1>4, <1>5 DEF Write, Guarded

LEMMA OwnerListIs ==
    ASSUME NEW m, NEW h, NEW form
    PROVE  LET t == UpsertOwner(m, h, form)
               a == OwnerChange(m, h, form)
               b == ExcChange(m, h, form)
               c == OwnerWrite(m, h, form)
           IN  IF OwnerOf(m, h).exc = OwnerNew(m, h, form).exc
               THEN t = <<c>> \/ t = <<a, c>>
               ELSE t = <<b, c>> \/ t = <<a, b, c>>
<1> DEFINE a == OwnerChange(m, h, form)
           b == ExcChange(m, h, form)
           c == OwnerWrite(m, h, form)
           x == IF OwnerOf(m, h).owner = OwnerNew(m, h, form).owner THEN <<>> ELSE <<a>>
           y == IF OwnerOf(m, h).exc = OwnerNew(m, h, form).exc THEN <<>> ELSE <<b>>
<1>1. UpsertOwner(m, h, form) = (x \o y) \o <<c>>
  BY DEF UpsertOwner, OwnerAudits, Audit, OwnerChange, ExcChange, OwnerWrite, OwnerNew
<1> HIDE DEF a, b, c
<1>2. /\ (<<>> \o <<>>) \o <<c>> = <<c>> /\ (<<a>> \o <<>>) \o <<c>> = <<a, c>>
      /\ (<<>> \o <<b>>) \o <<c>> = <<b, c>> /\ (<<a>> \o <<b>>) \o <<c>> = <<a, b, c>>
  <2> DEFINE S == {a, b, c}
  <2>1. /\ <<a>> \in Seq(S) /\ <<b>> \in Seq(S) /\ <<c>> \in Seq(S) /\ <<>> \in Seq(S)
        /\ Len(<<a>>) = 1 /\ Len(<<b>>) = 1 /\ Len(<<c>>) = 1
        /\ <<a>>[1] = a /\ <<b>>[1] = b /\ <<c>>[1] = c
    OBVIOUS
  <2>2. /\ <<a, b>> \in Seq(S) /\ <<a, c>> \in Seq(S) /\ <<b, c>> \in Seq(S)
        /\ <<a, b, c>> \in Seq(S)
        /\ Len(<<a, b>>) = 2 /\ Len(<<a, c>>) = 2 /\ Len(<<b, c>>) = 2
        /\ Len(<<a, b, c>>) = 3
    OBVIOUS
  <2>3. \A s \in Seq(S) : s \o <<>> = s /\ <<>> \o s = s
    BY ConcatEmptySeq
  <2>4. ASSUME NEW e \in S, NEW z \in S PROVE <<e>> \o <<z>> = <<e, z>>
    <3>1. /\ <<e>> \in Seq(S) /\ <<z>> \in Seq(S) /\ <<e, z>> \in Seq(S)
          /\ Len(<<e>>) = 1 /\ Len(<<z>>) = 1 /\ Len(<<e, z>>) = 2
          /\ <<e>>[1] = e /\ <<z>>[1] = z /\ <<e, z>>[1] = e /\ <<e, z>>[2] = z
      OBVIOUS
    <3> DEFINE u == <<e>> \o <<z>>
    <3>2. u \in Seq(S) /\ Len(u) = 2
      BY <3>1, ConcatProperties
    <3>3. u[1] = e /\ u[2] = z
      BY <3>1, ConcatProperties
    <3> HIDE DEF u
    <3>4. u = <<e, z>>
      BY <3>2, <3>3
    <3> QED
      BY <3>4 DEF u
  <2>5. <<a, b>> \o <<c>> = <<a, b, c>>
    <3>1. <<a, b>>[1] = a /\ <<a, b>>[2] = b
      OBVIOUS
    <3> DEFINE u == <<a, b>> \o <<c>>
    <3>2. u \in Seq(S) /\ Len(u) = 3
      BY <2>1, <2>2, ConcatProperties
    <3>3. u[1] = a /\ u[2] = b /\ u[3] = c
      BY <2>1, <2>2, <3>1, ConcatProperties
    <3> HIDE DEF u
    <3>4. u = <<a, b, c>>
      BY <3>2, <3>3
    <3> QED
      BY <3>4 DEF u
  <2>6. a \in S /\ b \in S /\ c \in S
    OBVIOUS
  <2> HIDE DEF S
  <2> QED
    BY <2>1, <2>3, <2>4, <2>5, <2>6
<1> QED
  BY <1>1, <1>2 DEF a, b, c

LEMMA OwnerListIsList ==
    ASSUME NEW m, NEW h, NEW form
    PROVE  IsList(UpsertOwner(m, h, form)) /\ UpsertOwner(m, h, form) # <<>>
<1> DEFINE a == OwnerChange(m, h, form)
           b == ExcChange(m, h, form)
           c == OwnerWrite(m, h, form)
<1>1. IsWrite(a) /\ IsWrite(b) /\ IsWrite(c)
  BY WriteIs DEF OwnerChange, ExcChange, OwnerWrite
<1>2. \/ UpsertOwner(m, h, form) = <<c>> \/ UpsertOwner(m, h, form) = <<a, c>>
      \/ UpsertOwner(m, h, form) = <<b, c>> \/ UpsertOwner(m, h, form) = <<a, b, c>>
  BY OwnerListIs
<1> HIDE DEF a, b, c
<1> QED
  BY <1>1, <1>2, OneWrite, TwoWrites, ThreeWrites

-----------------------------------------------------------------------------
(* Dictionaries, tables and hands, and how a hand goes on *)

IsHand(h) ==
    /\ h = [todo |-> h.todo, rows |-> h.rows]
    /\ IsList(h.todo)
    /\ h.rows \in Seq(Rows)
    /\ h.todo = <<>> => h = Idle

Shape ==
    /\ mem = [c \in Cached |-> mem[c]]
    /\ tab = [c \in Cached \cup External |-> tab[c]]
    /\ op = [w \in Workers |-> op[w]]
    /\ \A w \in Workers : IsHand(op[w])

(* The step of a handler to its next hand: what it puts in memory, and     *)
(* what becomes stale.                                                     *)
Moves(w, h, settled, lost) ==
    LET cross == IF h = Idle THEN {} ELSE Crossed(w, Head(h.todo))
    IN  /\ op' = [op EXCEPT ![w] = h]
        /\ mem' = IF h = Idle THEN mem ELSE Put(mem, Head(h.todo))
        /\ stale' = (stale \ settled) \cup lost \cup cross
        /\ doubt' = doubt \cup lost \cup cross

LEMMA IdleIs == Idle.todo = <<>> /\ Idle.rows = <<>> /\ IsHand(Idle)
<1>1. Idle.todo = <<>> /\ Idle.rows = <<>>
  BY DEF Idle
<1>2. \A S : <<>> \in Seq(S)
  OBVIOUS
<1>3. IsList(<<>>)
  <2> DEFINE t == <<>>
  <2>1. t \in Seq({}) /\ Len(t) = 0
    OBVIOUS
  <2> HIDE DEF t
  <2>2. \A i \in 1..Len(t) : IsWrite(t[i])
    BY <2>1
  <2>3. IsList(t)
    BY <2>1, <2>2, ListFrom
  <2> QED
    BY <2>3 DEF t
<1> QED
  BY <1>1, <1>2, <1>3 DEF IsHand, Idle

LEMMA BusyIs ==
    ASSUME NEW h, IsHand(h)
    PROVE  /\ h # Idle <=> h.todo # <<>>
           /\ h # Idle => /\ Len(h.todo) \in Nat \ {0} /\ 1 \in 1..Len(h.todo)
                          /\ Head(h.todo) = h.todo[1] /\ IsWrite(h.todo[1])
<1>1. h # Idle <=> h.todo # <<>>
  BY IdleIs DEF IsHand
<1>2. IsList(h.todo)
  BY DEF IsHand
<1>3. h.todo # <<>> =>
         /\ Len(h.todo) \in Nat \ {0} /\ 1 \in 1..Len(h.todo)
         /\ Head(h.todo) = h.todo[1]
  BY <1>2, ListIs
<1> QED
  BY <1>1, <1>2, <1>3 DEF IsList

LEMMA HandIs ==
    ASSUME NEW t, IsList(t), t # <<>>, NEW rows \in Seq(Rows)
    PROVE  /\ IsHand([todo |-> t, rows |-> rows])
           /\ [todo |-> t, rows |-> rows] # Idle
           /\ [todo |-> t, rows |-> rows].todo = t
<1> DEFINE h == [todo |-> t, rows |-> rows]
<1>1. h.todo = t /\ h.rows = rows
  OBVIOUS
<1> HIDE DEF h
<1>2. h = [todo |-> h.todo, rows |-> h.rows]
  BY <1>1 DEF h
<1>3. h # Idle
  BY <1>1, IdleIs
<1> QED
  BY <1>1, <1>2, <1>3 DEF IsHand, h

(* After a write comes the next of the list, the list of the next row, or  *)
(* nothing.                                                                *)
LEMMA AfterIs ==
    ASSUME Shape, NEW w \in Workers, Busy(w)
    PROVE  /\ IsHand(After(w))
           /\ \/ After(w) = Idle /\ Len(op[w].todo) = 1
              \/ /\ Len(op[w].todo) > 1
                 /\ After(w).todo = At(mem, Tail(op[w].todo))
              \/ /\ Len(op[w].todo) = 1
                 /\ \E row \in Rows : After(w).todo = UpsertOwner(mem, row.host, row.form)
<1> DEFINE t == op[w].todo
<1>1. /\ IsHand(op[w]) /\ IsList(t) /\ t # <<>> /\ op[w].rows \in Seq(Rows)
      /\ op[w] = [todo |-> op[w].todo, rows |-> op[w].rows]
      /\ Len(t) \in Nat \ {0}
  BY BusyIs DEF Shape, Busy, IsHand
<1>2. CASE Len(t) > 1
  <2> DEFINE u == At(mem, Tail(t))
             h == [op[w] EXCEPT !.todo = u]
  <2>1. IsList(Tail(t)) /\ Tail(t) # <<>>
    <3>1. IsList(Tail(t)) /\ Len(Tail(t)) = Len(t) - 1
      BY <1>1, RestIs
    <3>2. Len(Tail(t)) # 0
      <4> DEFINE n == Len(t)
                 m == Len(Tail(t))
      <4>1. n \in Nat /\ n > 1 /\ m = n - 1
        BY <1>1, <1>2, <3>1
      <4> HIDE DEF n, m
      <4>2. m # 0
        BY <4>1
      <4> QED
        BY <4>2 DEF m
    <3> QED
      BY <3>1, <3>2, ListIs
  <2>2. IsList(u) /\ u # <<>>
    BY <2>1, AtIs
  <2>3. After(w) = h
    BY <1>2 DEF After
  <2> HIDE DEF u
  <2>4. h = [todo |-> u, rows |-> op[w].rows]
    BY <1>1
  <2>5. IsHand(h) /\ h.todo = u
    BY <1>1, <2>2, <2>4, HandIs
  <2> HIDE DEF h
  <2> QED
    BY <1>2, <2>3, <2>5 DEF u
<1>5. Len(t) > 1 \/ Len(t) = 1
  <2> DEFINE n == Len(t)
  <2>1. n \in Nat \ {0}
    BY <1>1
  <2> HIDE DEF n
  <2>2. n > 1 \/ n = 1
    BY <2>1
  <2> QED
    BY <2>2 DEF n
<1>3. CASE ~(Len(t) > 1) /\ op[w].rows # <<>>
  <2>1. Head(op[w].rows) \in Rows /\ Tail(op[w].rows) \in Seq(Rows)
    BY <1>1, <1>3, HeadTailProperties
  <2>2. PICK row \in Rows : row = Head(op[w].rows)
    BY <2>1
  <2> DEFINE u == UpsertOwner(mem, row.host, row.form)
             h == [todo |-> u, rows |-> Tail(op[w].rows)]
  <2>3. After(w) = h
    BY <1>3, <2>2 DEF After
  <2>4. IsList(u) /\ u # <<>>
    BY OwnerListIsList
  <2> HIDE DEF u
  <2>5. IsHand(h) /\ h.todo = u
    BY <2>1, <2>4, HandIs
  <2> HIDE DEF h
  <2>6. Len(t) = 1
    BY <1>3, <1>5
  <2> HIDE DEF t
  <2> QED
    BY <2>3, <2>5, <2>6 DEF u, t
<1>4. CASE ~(Len(t) > 1) /\ op[w].rows = <<>>
  <2>1. After(w) = Idle
    BY <1>4 DEF After
  <2>2. Len(t) = 1
    BY <1>4, <1>5
  <2> QED
    BY <2>1, <2>2, IdleIs
<1> QED
  BY <1>2, <1>3, <1>4

-----------------------------------------------------------------------------
(* What every step does, whatever its handler *)

Settled(w) ==
    LET c == Due(w).cell
        current == /\ c \in Cached => mem[c] = Due(w).val
                   /\ \A v \in Workers \ {w} : Busy(v) => Due(v).cell # c
                   /\ \A q \in Pollers : Polling(q) => Bound(q) # c
    IN  IF current THEN {c} ELSE {}

LEMMA SaveIs ==
    ASSUME Shape, NEW w \in Workers, Save(w)
    PROVE  /\ Busy(w) /\ IsHand(After(w)) /\ Moves(w, After(w), Settled(w), {})
           /\ tab' = [tab EXCEPT ![Due(w).cell] = Stored(Due(w).cell, Due(w).val)]
           /\ gone' = IF Due(w).cell \in Unique /\ Due(w).val = None
                      THEN gone \cup {Due(w).cell} ELSE gone
           /\ polled' = polled \ {Due(w).cell}
           /\ UNCHANGED <<ops, used, granted>>
<1>1. Busy(w) /\ Proceed(w, Settled(w), {})
  BY DEF Save, Settled
<1>2. IsHand(After(w))
  BY <1>1, AfterIs
<1>3. Moves(w, After(w), Settled(w), {}) /\ UNCHANGED <<ops, used, granted>>
  BY <1>1 DEF Proceed, Moves
<1> QED
  BY <1>1, <1>2, <1>3 DEF Save

LEMMA FailIs ==
    ASSUME Shape, NEW w \in Workers, SaveFails(w)
    PROVE  /\ Busy(w) /\ UNCHANGED <<tab, polled, gone, ops, used, granted>>
           /\ \E h : /\ IsHand(h) /\ Moves(w, h, {}, {Due(w).cell})
                     /\ h = Idle \/ (h = After(w) /\ Due(w).guarded)
<1>1. Busy(w) /\ UNCHANGED <<tab, polled, gone, ops, used, granted>>
  BY DEF SaveFails, Proceed
<1>2. CASE Due(w).guarded /\ Proceed(w, {}, {Due(w).cell})
  <2>1. IsHand(After(w))
    BY <1>1, AfterIs
  <2>2. Moves(w, After(w), {}, {Due(w).cell})
    BY <1>2 DEF Proceed, Moves
  <2> QED
    BY <1>1, <1>2, <2>1, <2>2
<1>3. CASE /\ ~Due(w).guarded
           /\ op' = [op EXCEPT ![w] = Idle]
           /\ stale' = stale \cup {Due(w).cell}
           /\ doubt' = doubt \cup {Due(w).cell}
           /\ UNCHANGED <<mem, poll, ops, used, granted>>
  <2>1. Moves(w, Idle, {}, {Due(w).cell})
    BY <1>3 DEF Moves
  <2> QED
    BY <1>1, <2>1, IdleIs
<1> QED
  BY <1>2, <1>3 DEF SaveFails

LEMMA BeginIs ==
    ASSUME NEW w \in Workers, NEW t, IsList(t), NEW rows \in Seq(Rows), Begin(w, t, rows)
    PROVE  /\ ~Busy(w) /\ t # <<>> /\ UNCHANGED <<tab, polled, gone>>
           /\ IsHand([todo |-> t, rows |-> rows]) /\ [todo |-> t, rows |-> rows] # Idle
           /\ Moves(w, [todo |-> t, rows |-> rows], {}, {})
<1> DEFINE h == [todo |-> t, rows |-> rows]
<1>1. ~Busy(w) /\ t # <<>> /\ UNCHANGED <<tab, polled, gone>>
  BY DEF Begin
<1>2. IsHand(h) /\ h # Idle /\ h.todo = t
  BY <1>1, HandIs
<1>3. /\ op' = [op EXCEPT ![w] = h] /\ mem' = Put(mem, Head(t))
      /\ stale' = stale \cup Crossed(w, Head(t))
      /\ doubt' = doubt \cup Crossed(w, Head(t))
  BY DEF Begin
<1> HIDE DEF h
<1>4. Moves(w, h, {}, {})
  BY <1>2, <1>3 DEF Moves
<1> QED
  BY <1>1, <1>2, <1>4 DEF h

LEMMA CrossedIs ==
    ASSUME NEW w \in Workers, NEW x, NEW c
    PROVE  c = x.cell /\ (\E v \in Workers \ {w} : Busy(v) /\ Due(v).cell = c) =>
              c \in Crossed(w, x)
BY DEF Crossed

LEMMA PutIs ==
    ASSUME NEW m, m = [c \in Cached |-> m[c]], NEW x
    PROVE  /\ Put(m, x) = [c \in Cached |-> Put(m, x)[c]]
           /\ \A c \in Cached : Put(m, x)[c] = IF c = x.cell THEN x.val ELSE m[c]
BY DEF Put

(* What a move leaves as it is, and what it does to its own cell.          *)
LEMMA MoveIs ==
    ASSUME Shape, NEW w \in Workers, NEW h, IsHand(h), NEW settled, NEW lost,
           Moves(w, h, settled, lost)
    PROVE  /\ op' = [v \in Workers |-> op'[v]] /\ op'[w] = h
           /\ \A v \in Workers \ {w} : op'[v] = op[v]
           /\ mem' = [c \in Cached |-> mem'[c]]
           /\ h = Idle => UNCHANGED mem
           /\ \A c \in Cached : mem'[c] = IF h # Idle /\ c = Head(h.todo).cell
                                          THEN Head(h.todo).val ELSE mem[c]
           /\ \A v \in Workers : IsHand(op'[v])
<1>1. op' = [op EXCEPT ![w] = h]
  BY DEF Moves
<1>2. /\ op' = [v \in Workers |-> op'[v]] /\ op'[w] = h
      /\ \A v \in Workers \ {w} : op'[v] = op[v]
  BY <1>1 DEF Shape
<1>3. \A v \in Workers : IsHand(op'[v])
  BY <1>2 DEF Shape
<1>4. CASE h = Idle
  <2>1. mem' = mem
    BY <1>4 DEF Moves
  <2> QED
    BY <1>2, <1>3, <1>4, <2>1 DEF Shape
<1>5. CASE h # Idle
  <2>1. mem' = Put(mem, Head(h.todo))
    BY <1>5 DEF Moves
  <2> QED
    BY <1>2, <1>3, <1>5, <2>1, PutIs DEF Shape
<1> QED
  BY <1>4, <1>5

LEMMA MoveShape ==
    ASSUME Shape, NEW w \in Workers, NEW h, IsHand(h), NEW settled, NEW lost,
           Moves(w, h, settled, lost),
           UNCHANGED tab \/ \E c, x : tab' = [tab EXCEPT ![c] = x]
    PROVE  Shape'
<1>1. tab' = [c \in Cached \cup External |-> tab'[c]]
  BY DEF Shape
<1> QED
  BY <1>1, MoveIs DEF Shape

-----------------------------------------------------------------------------
(* What is shown is stored *)

(* A write that crossed no other is what memory holds, and the only one of *)
(* its record; what is stale is in doubt.                                  *)
InHand ==
    \A w \in Workers : Busy(w) /\ Due(w).cell \in Cached \ stale =>
        /\ mem[Due(w).cell] = Due(w).val
        /\ \A v \in Workers \ {w} : Busy(v) => Due(v).cell # Due(w).cell

(* A page of what a table holds.                                           *)
Shows(c, m, t) ==
    \/ m = t
    \/ c[1] = "owner" /\ m # None /\ t = [m EXCEPT !.tags = {}]
    \/ c[1] = "accounts" /\ m # None /\ Repeats(m) /\ t = StoredAccounts(m)

(* A poller stores nothing but accounts.                                   *)
OnlyAccounts == \A c \in polled : c[1] = "accounts"

Written == InHand /\ stale \subseteq doubt /\ OnlyAccounts /\ ShownIsStored

LEMMA ShownIs == ShownIsStored <=>
    \A c \in Cached \ (stale \cup polled) : Shows(c, mem[c], tab[c]) \/ InFlight(c)
BY DEF ShownIsStored, Shows

LEMMA ShownNext ==
    ASSUME \A c \in Cached \ (stale' \cup polled') : Shows(c, mem'[c], tab'[c]) \/ InFlight(c)'
    PROVE  ShownIsStored'
<1>1. ASSUME NEW c, Shows(c, mem'[c], tab'[c])
      PROVE  \/ mem'[c] = tab'[c]
             \/ c[1] = "owner" /\ mem'[c] # None /\ tab'[c] = [mem'[c] EXCEPT !.tags = {}]
             \/ /\ c[1] = "accounts" /\ mem'[c] # None /\ Repeats(mem[c])'
                /\ (tab[c] = StoredAccounts(mem[c]))'
  BY <1>1 DEF Shows
<1> QED
  BY <1>1, Zenon DEF ShownIsStored

LEMMA StoredShows ==
    ASSUME NEW c, NEW m
    PROVE  Shows(c, m, Stored(c, m))
<1>1. CASE m = None
  BY <1>1 DEF Stored, Shows
<1>2. CASE m # None /\ c[1] = "accounts" /\ Repeats(m)
  BY <1>2 DEF Shows, Stored
<1>3. CASE m # None /\ c[1] = "accounts" /\ ~Repeats(m)
  <2>1. StoredAccounts(m) = m
    BY <1>3 DEF StoredAccounts, Repeats
  <2>2. Stored(c, m) = m
    BY <1>3, <2>1 DEF Stored
  <2> QED
    BY <2>2 DEF Shows
<1>4. CASE m # None /\ c[1] = "owner"
  BY <1>4 DEF Stored, StoredOwner, Shows
<1>5. CASE m # None /\ c[1] \notin {"accounts", "owner"}
  BY <1>5 DEF Stored, Shows
<1> QED
  BY <1>1, <1>2, <1>3, <1>4, <1>5

LEMMA MoveKeepsInHand ==
    ASSUME Shape, InHand, NEW w \in Workers, NEW h, IsHand(h), NEW settled, NEW lost,
           Moves(w, h, settled, lost),
           \A c \in settled : \A v \in Workers \ {w} : Busy(v) => Due(v).cell # c
    PROVE  InHand'
<1> SUFFICES ASSUME NEW v \in Workers, Busy(v)', Due(v)'.cell \in Cached \ stale'
             PROVE  /\ mem'[Due(v)'.cell] = Due(v)'.val
                    /\ \A u \in Workers \ {v} : Busy(u)' => Due(u)'.cell # Due(v)'.cell
  BY DEF InHand
<1> DEFINE x == Head(h.todo)
           c == Due(v)'.cell
<1>1. /\ op'[w] = h /\ \A u \in Workers \ {w} : op'[u] = op[u]
      /\ \A e \in Cached : mem'[e] = IF h # Idle /\ e = x.cell THEN x.val ELSE mem[e]
  BY MoveIs
<1>2. /\ stale' = (stale \ settled) \cup lost \cup (IF h = Idle THEN {} ELSE Crossed(w, x))
  BY DEF Moves
<1>3. Busy(w)' <=> h # Idle
  BY <1>1 DEF Busy
<1>4. Due(w)' = x
  BY <1>1 DEF Due
<1>5. \A u \in Workers \ {w} : (Busy(u)' <=> Busy(u)) /\ Due(u)' = Due(u)
  BY <1>1 DEF Busy, Due
<1> HIDE DEF x
<1>6. h # Idle => \A u \in Workers \ {w} : Busy(u) /\ Due(u).cell = x.cell => x.cell \in stale'
  BY <1>2, CrossedIs
<1>7. CASE v = w
  BY <1>1, <1>3, <1>4, <1>5, <1>6, <1>7
<1>8. CASE v # w
  <2>1. Busy(v) /\ c = Due(v).cell /\ Due(v)' = Due(v)
    BY <1>5, <1>8
  <2>2. c \notin settled
    BY <1>8, <2>1
  <2>3. c \in Cached \ stale
    BY <1>2, <2>1, <2>2
  <2>4. mem[c] = Due(v).val /\ \A u \in Workers \ {v} : Busy(u) => Due(u).cell # c
    BY <2>1, <2>3 DEF InHand
  <2>5. h # Idle => x.cell # c
    BY <1>6, <1>8, <2>1
  <2>6. mem'[c] = Due(v)'.val
    BY <1>1, <2>1, <2>3, <2>4, <2>5
  <2>7. \A u \in Workers \ {v} : Busy(u)' => Due(u)'.cell # c
    BY <1>3, <1>4, <1>5, <2>4, <2>5
  <2> QED
    BY <2>6, <2>7
<1> QED
  BY <1>7, <1>8

(* A record that is in flight next, or whose last write is done with.      *)
LEMMA MoveKeepsShown ==
    ASSUME Shape, ShownIsStored, NEW w \in Workers, NEW h, IsHand(h), NEW settled, NEW lost,
           Moves(w, h, settled, lost),
           Busy(w) => settled \subseteq {Due(w).cell},
           ~Busy(w) => settled = {},
           \A c \in Cached : ~(Busy(w) /\ c = Due(w).cell) => tab'[c] = tab[c],
           \A c \in polled : ~(Busy(w) /\ c = Due(w).cell) => c \in polled',
           Busy(w) /\ Due(w).cell \in Cached \ stale' =>
              tab'[Due(w).cell] = Stored(Due(w).cell, mem[Due(w).cell])
    PROVE  ShownIsStored'
<1> SUFFICES ASSUME NEW c \in Cached \ (stale' \cup polled')
             PROVE  Shows(c, mem'[c], tab'[c]) \/ InFlight(c)'
  BY ShownNext
<1> DEFINE x == Head(h.todo)
<1>1. /\ op'[w] = h /\ \A u \in Workers \ {w} : op'[u] = op[u]
      /\ \A e \in Cached : mem'[e] = IF h # Idle /\ e = x.cell THEN x.val ELSE mem[e]
  BY MoveIs
<1>2. stale \ settled \subseteq stale'
  BY DEF Moves
<1>3. CASE h # Idle /\ c = x.cell
  <2>1. Busy(w)' /\ Due(w)'.cell = c
    BY <1>1, <1>3 DEF Busy, Due
  <2> QED
    BY <2>1 DEF InFlight
<1>4. CASE ~(h # Idle /\ c = x.cell)
  <2>1. mem'[c] = mem[c]
    BY <1>1, <1>4
  <2>2. CASE Busy(w) /\ c = Due(w).cell
    <3>1. tab'[c] = Stored(c, mem[c])
      BY <2>2
    <3> QED
      BY <2>1, <3>1, StoredShows
  <2>3. CASE ~(Busy(w) /\ c = Due(w).cell)
    <3>1. c \notin stale \cup polled /\ tab'[c] = tab[c]
      BY <1>2, <2>3
    <3>2. CASE InFlight(c)
      <4>1. PICK v \in Workers : Busy(v) /\ Due(v).cell = c
        BY <3>2 DEF InFlight
      <4>2. v # w
        BY <2>3, <4>1
      <4>3. Busy(v)' /\ Due(v)'.cell = c
        BY <1>1, <4>1, <4>2 DEF Busy, Due
      <4> QED
        BY <4>3 DEF InFlight
    <3>3. CASE ~InFlight(c)
      <4>1. Shows(c, mem[c], tab[c])
        BY <3>1, <3>3, ShownIs
      <4> QED
        BY <2>1, <3>1, <4>1
    <3> QED
      BY <3>2, <3>3
  <2> QED
    BY <2>2, <2>3
<1> QED
  BY <1>3, <1>4

LEMMA WrittenInit == Init => Shape /\ Written
<1> SUFFICES ASSUME Init PROVE Shape /\ Written
  OBVIOUS
<1>1. \A w \in Workers : op[w] = Idle
  BY DEF Init
<1>2. \A w \in Workers : IsHand(op[w]) /\ ~Busy(w)
  BY <1>1, IdleIs DEF Busy
<1>3. Shape
  BY <1>2 DEF Init, Shape
<1>4. InHand
  BY <1>2 DEF InHand
<1>5. stale \subseteq doubt /\ OnlyAccounts
  BY DEF Init, OnlyAccounts
<1>6. ShownIsStored
  BY DEF Init, ShownIsStored
<1> QED
  BY <1>3, <1>4, <1>5, <1>6 DEF Written

LEMMA MoveKeepsDoubt ==
    ASSUME stale \subseteq doubt, NEW w \in Workers, NEW h, NEW settled, NEW lost,
           Moves(w, h, settled, lost)
    PROVE  (stale \subseteq doubt)' /\ doubt \subseteq doubt'
BY DEF Moves

LEMMA SaveWritten ==
    ASSUME Shape, Written, NEW w \in Workers, Save(w)
    PROVE  Shape' /\ Written'
<1> DEFINE c == Due(w).cell
<1>1. /\ Busy(w) /\ IsHand(After(w)) /\ Moves(w, After(w), Settled(w), {})
      /\ tab' = [tab EXCEPT ![c] = Stored(c, Due(w).val)] /\ polled' = polled \ {c}
  BY SaveIs
<1>2. Settled(w) \subseteq {c}
  BY DEF Settled
<1>3. \A e \in Settled(w) : \A v \in Workers \ {w} : Busy(v) => Due(v).cell # e
  BY DEF Settled
<1>4. c \in Settled(w) /\ c \in Cached => mem[c] = Due(w).val
  BY DEF Settled
<1>5. c \notin stale' => c \in Settled(w) \/ c \notin stale
  BY <1>1 DEF Moves
<1>6. c \in Cached \ stale' => mem[c] = Due(w).val
  BY <1>1, <1>4, <1>5 DEF Written, InHand
<1> HIDE DEF c
<1>7. \A e \in Cached : e # c => tab'[e] = tab[e]
  BY <1>1 DEF Shape
<1>8. c \in Cached \ stale' => tab'[c] = Stored(c, mem[c])
  BY <1>1, <1>6 DEF Shape
<1>9. ShownIsStored'
  BY <1>1, <1>2, <1>7, <1>8, MoveKeepsShown DEF Written, c
<1>10. InHand'
  BY <1>1, <1>3, MoveKeepsInHand DEF Written
<1>11. Shape'
  BY <1>1, MoveShape
<1>12. (stale \subseteq doubt)' /\ OnlyAccounts'
  BY <1>1, MoveKeepsDoubt DEF Written, OnlyAccounts
<1> QED
  BY <1>9, <1>10, <1>11, <1>12 DEF Written

LEMMA FailWritten ==
    ASSUME Shape, Written, NEW w \in Workers, SaveFails(w)
    PROVE  Shape' /\ Written'
<1>1. Busy(w) /\ UNCHANGED <<tab, polled>>
  BY FailIs
<1>2. PICK h : IsHand(h) /\ Moves(w, h, {}, {Due(w).cell})
  BY FailIs
<1>3. Due(w).cell \in stale'
  BY <1>2 DEF Moves
<1>4. ShownIsStored'
  BY <1>1, <1>2, <1>3, MoveKeepsShown DEF Written
<1>5. InHand'
  BY <1>2, MoveKeepsInHand DEF Written
<1>6. Shape'
  BY <1>1, <1>2, MoveShape
<1>7. (stale \subseteq doubt)' /\ OnlyAccounts'
  BY <1>1, <1>2, MoveKeepsDoubt DEF Written, OnlyAccounts
<1> QED
  BY <1>4, <1>5, <1>6, <1>7 DEF Written

LEMMA BeginWritten ==
    ASSUME Shape, Written, NEW w \in Workers, NEW t, IsList(t), NEW rows \in Seq(Rows),
           Begin(w, t, rows)
    PROVE  Shape' /\ Written'
<1> DEFINE h == [todo |-> t, rows |-> rows]
<1>1. ~Busy(w) /\ UNCHANGED <<tab, polled>> /\ IsHand(h) /\ Moves(w, h, {}, {})
  BY BeginIs
<1> HIDE DEF h
<1>2. ShownIsStored'
  BY <1>1, MoveKeepsShown DEF Written
<1>3. InHand'
  BY <1>1, MoveKeepsInHand DEF Written
<1>4. Shape'
  BY <1>1, MoveShape
<1>5. (stale \subseteq doubt)' /\ OnlyAccounts'
  BY <1>1, MoveKeepsDoubt DEF Written, OnlyAccounts
<1> QED
  BY <1>2, <1>3, <1>4, <1>5 DEF Written

LEMMA RestartIs ==
    ASSUME Shape, Restart
    PROVE  /\ \A w \in Workers : op'[w] = Idle /\ ~Busy(w)'
           /\ \A c \in Cached : mem'[c] = tab[c]
           /\ UNCHANGED <<tab, gone, used, granted>> /\ Shape'
           /\ doubt \subseteq doubt' /\ stale' = {} /\ polled' = {}
           /\ \A w \in Workers : Busy(w) => Due(w).cell \in doubt'
<1>1. \A w \in Workers : op'[w] = Idle
  BY DEF Restart
<1>2. \A w \in Workers : IsHand(op'[w])
  BY <1>1, IdleIs
<1>3. Shape'
  BY <1>2 DEF Restart, Shape
<1> QED
  BY <1>1, <1>3 DEF Restart, Busy

(* The steps of a poller: it writes accounts past memory, and no others.   *)
Polls(q) == PollAccounts(q) \/ SavePolled(q) \/ PollEnds(q)

LEMMA PollIs ==
    ASSUME Shape, NEW q \in Pollers, Polls(q)
    PROVE  /\ UNCHANGED <<mem, op, used, gone, granted>>
           /\ stale \subseteq stale' /\ doubt \subseteq doubt'
           /\ stale \subseteq doubt => stale' \subseteq doubt'
           /\ polled \subseteq polled'
           /\ OnlyAccounts => OnlyAccounts'
           /\ tab' = [c \in Cached \cup External |-> tab'[c]]
           /\ \A c \in Cached \cup External : c \notin polled' => tab'[c] = tab[c]
           /\ \A c \in Cached \cup External : c[1] # "accounts" => tab'[c] = tab[c]
<1>1. \E left : PollOn(q, left)
  BY Zenon DEF Polls, PollAccounts, SavePolled, PollEnds
<1>2. /\ UNCHANGED <<mem, op, used, gone, granted>>
      /\ stale \subseteq stale' /\ doubt \subseteq doubt'
      /\ stale \subseteq doubt => stale' \subseteq doubt'
  BY <1>1 DEF PollOn
<1>3. CASE UNCHANGED <<tab, polled>>
  BY <1>2, <1>3 DEF Shape, OnlyAccounts
<1>4. CASE SavePolled(q)
  <2>1. PICK val : /\ tab' = [tab EXCEPT ![Bound(q)] = val]
                   /\ polled' = polled \cup {Bound(q)}
    BY <1>4 DEF SavePolled
  <2>2. Bound(q)[1] = "accounts"
    BY DEF Bound
  <2> QED
    BY <1>2, <2>1, <2>2 DEF Shape, OnlyAccounts
<1> QED
  BY <1>3, <1>4 DEF Polls, PollAccounts, PollEnds

LEMMA PollWritten ==
    ASSUME Shape, Written, NEW q \in Pollers, Polls(q)
    PROVE  Shape' /\ Written'
<1>1. /\ UNCHANGED <<mem, op>> /\ stale \subseteq stale' /\ polled \subseteq polled'
      /\ \A c \in Cached \cup External : c \notin polled' => tab'[c] = tab[c]
  BY PollIs
<1>2. Shape'
  BY PollIs DEF Shape
<1>3. InHand'
  BY <1>1 DEF Written, InHand, Busy, Due
<1>4. \A c \in Cached \ (stale' \cup polled') : Shows(c, mem[c], tab[c]) \/ InFlight(c)
  BY <1>1, ShownIs DEF Written
<1>5. \A c : InFlight(c) => InFlight(c)'
  BY <1>1 DEF InFlight, Busy, Due
<1>6. ASSUME NEW c \in Cached \ (stale' \cup polled')
      PROVE  Shows(c, mem'[c], tab'[c]) \/ InFlight(c)'
  BY <1>1, <1>4, <1>5
<1>7. ShownIsStored'
  BY <1>6, ShownNext
<1> QED
  BY <1>2, <1>3, <1>7, PollIs DEF Written

LEMMA RestartWritten ==
    ASSUME Shape, Written, Restart
    PROVE  Shape' /\ Written'
<1>1. InHand' /\ (stale \subseteq doubt)' /\ OnlyAccounts'
  BY RestartIs DEF InHand, OnlyAccounts
<1>2. ShownIsStored'
  BY RestartIs DEF ShownIsStored
<1> QED
  BY <1>1, <1>2, RestartIs DEF Written

-----------------------------------------------------------------------------
(* What a list of writes is like when its handler starts *)

Special == {"audit", "owner", "vuln", "approval", "triage", "zabbix"}

(* A unique record is written first when it is there, or under a fresh id. *)
UniqueSound(t, ids) ==
    \A i \in 1..Len(t) : t[i].cell \in Unique =>
        /\ t[i].cell[2] \in ids \/ (i = 1 /\ mem[t[i].cell] # None)
        /\ \A j \in 1..Len(t) : t[j].cell = t[i].cell => j = i

AuditSound(t) ==
    \A i \in 1..Len(t) : t[i].cell[1] = "audit" => t[i].val = TRUE /\ ~t[i].guarded

OwnerFields == {"owner", "exc", "tags"}
Excepted(h) == tab[OwnerEntry(h)] = TRUE

OwnerSound(t) ==
    \A h \in Hosts : \A i \in 1..Len(t) : t[i].cell = <<"owner", h>> /\ t[i].val # None =>
        /\ DOMAIN t[i].val = OwnerFields
        /\ t[i].val.exc = "set" =>
              Excepted(h) \/ \E j \in 1..(i - 1) : t[j].cell = OwnerEntry(h)

VulnFields == {"plan", "exc"}
VulnEntry(v) == <<"audit", [of |-> <<"vuln_exc", v>>, new |-> "set"]>>
Pending(t, c) == \E i \in 1..Len(t) : t[i].cell = c
Audited(v) ==
    \/ v \in Nameless
    \/ tab[VulnEntry(v)] = TRUE
    \/ {VulnEntry(v), <<"vuln", v>>} \cap doubt # {}
    \/ \E w \in Workers : Pending(op[w].todo, VulnEntry(v))

VulnSound(t) ==
    \A v \in Vulns : \A i \in 1..Len(t) :
        /\ t[i].cell = VulnEntry(v) => i = 1 \/ (i = 2 /\ t[1].cell = <<"vuln", v>>)
        /\ t[i].cell = <<"vuln", v>> /\ t[i].val # None =>
              /\ DOMAIN t[i].val = VulnFields
              /\ t[i].val.exc = "set" => Audited(v) \/ Pending(t, VulnEntry(v))

Told(x, s) == x # None /\ \E i \in 1..Len(x.history) : x.history[i][2] = s

(* A change of an alert keeps its history; Zabbix is told what memory says *)
(* when the record is stored.                                              *)
TriageSound(t) ==
    \A a \in Alerts : \A i \in 1..Len(t) :
        /\ t[i].cell = <<"triage", a>> =>
              /\ i = 1 /\ t[i].val \in Triages /\ Told(t[i].val, t[i].val.status)
              /\ \A s : Told(mem[<<"triage", a>>], s) => Told(t[i].val, s)
        /\ t[i].cell = <<"zabbix", a>> =>
              i # 1 /\ t[1].cell = <<"triage", a>> /\ t[i].val = "present"

GivenSound(t, given) ==
    \A p \in Approvals : \A i \in 1..Len(t) :
        t[i].cell = <<"approval", p>> /\ t[i].val # None /\ t[i].val.status = "approved" =>
            p \in given

Listed(t, given) ==
    AuditSound(t) /\ OwnerSound(t) /\ VulnSound(t) /\ TriageSound(t) /\ GivenSound(t, given)

Started(w) ==
    \E t, rows, ids, given :
        /\ IsList(t) /\ rows \in Seq(Rows) /\ Begin(w, t, rows)
        /\ ids \cap used = {} /\ used' = used \cup ids /\ granted' = granted \cup given
        /\ UniqueSound(t, ids) /\ Listed(t, given)

LEMMA StartedWith ==
    ASSUME NEW w, NEW t, IsList(t), NEW rows \in Seq(Rows), Begin(w, t, rows),
           NEW ids, ids \cap used = {}, used' = used \cup ids,
           NEW given, granted' = granted \cup given, UniqueSound(t, ids), Listed(t, given)
    PROVE  Started(w)
BY Zenon DEF Started

(* No handler of these stores concerns the other properties.               *)
LEMMA NeutralListed ==
    ASSUME NEW t, \A i \in 1..Len(t) : t[i].cell[1] \notin Special
    PROVE  Listed(t, {})
<1>1. \A i \in 1..Len(t) : \A x : t[i].cell # <<"owner", x>>
  BY DEF Special
<1>2. \A i \in 1..Len(t) : \A x : t[i].cell # <<"vuln", x>>
  BY DEF Special
<1>3. \A i \in 1..Len(t) : \A x : t[i].cell # <<"approval", x>>
  BY DEF Special
<1>4. \A i \in 1..Len(t) : \A x : t[i].cell # <<"triage", x>>
  BY DEF Special
<1>5. \A i \in 1..Len(t) : \A x : t[i].cell # <<"zabbix", x>>
  BY DEF Special
<1>6. \A i \in 1..Len(t) : \A x : t[i].cell # <<"audit", x>>
  BY DEF Special
<1>7. AuditSound(t)
  BY DEF AuditSound, Special
<1>8. OwnerSound(t)
  BY <1>1 DEF OwnerSound
<1>9. VulnSound(t)
  BY <1>2, <1>6 DEF VulnSound, VulnEntry
<1>10. TriageSound(t)
  BY <1>4, <1>5 DEF TriageSound
<1>11. GivenSound(t, {})
  BY <1>3 DEF GivenSound
<1> QED
  BY <1>7, <1>8, <1>9, <1>10, <1>11 DEF Listed

LEMMA UniqueStores ==
    ASSUME NEW c \in Unique
    PROVE  c = <<c[1], c[2]>> /\ c[1] \in {"approval", "evidence", "session"} /\ c \in Cached
BY DEF Unique, Cells, Cached

LEMMA OneUnique ==
    ASSUME NEW x, IsWrite(x), NEW ids,
           x.cell \in Unique => x.cell[2] \in ids \/ mem[x.cell] # None
    PROVE  UniqueSound(<<x>>, ids)
<1> DEFINE t == <<x>>
<1>1. Len(t) = 1 /\ t[1] = x
  BY OneWrite
<1> HIDE DEF t
<1>2. UniqueSound(t, ids)
  BY <1>1 DEF UniqueSound
<1> QED
  BY <1>2 DEF t

LEMMA OneNeutral ==
    ASSUME NEW x, IsWrite(x), x.cell[1] \notin Special
    PROVE  Listed(<<x>>, {})
<1> DEFINE t == <<x>>
<1>1. Len(t) = 1 /\ t[1] = x
  BY OneWrite
<1> HIDE DEF t
<1>2. \A i \in 1..Len(t) : t[i].cell[1] \notin Special
  BY <1>1
<1>3. Listed(t, {})
  BY <1>2, NeutralListed
<1> QED
  BY <1>3 DEF t

(* A handler of one write that concerns no other property.                 *)
LEMMA OneStarts ==
    ASSUME NEW w \in Workers, NEW x, IsWrite(x), x.cell[1] \notin Special,
           Begin(w, <<x>>, <<>>), UNCHANGED granted,
           NEW ids, ids \cap used = {}, used' = used \cup ids,
           x.cell \in Unique => x.cell[2] \in ids \/ mem[x.cell] # None
    PROVE  Started(w)
<1>1. IsList(<<x>>) /\ <<>> \in Seq(Rows)
  BY OneWrite
<1>2. UniqueSound(<<x>>, ids)
  BY OneUnique
<1>3. Listed(<<x>>, {})
  BY OneNeutral
<1>4. granted' = granted \cup {}
  OBVIOUS
<1> QED
  BY <1>1, <1>2, <1>3, <1>4, StartedWith

(* The same of two writes, of no unique record.                            *)
LEMMA TwoStart ==
    ASSUME NEW w \in Workers, NEW x, NEW y, IsWrite(x), IsWrite(y),
           Begin(w, <<x, y>>, <<>>), UNCHANGED <<granted, used>>,
           x.cell[1] \in {"suppress", "event", "setting"},
           y.cell[1] \in {"suppress", "event", "setting"}
    PROVE  Started(w)
<1> DEFINE t == <<x, y>>
<1>1. /\ IsList(t) /\ <<>> \in Seq(Rows) /\ Len(t) = 2 /\ t[1] = x /\ t[2] = y
      /\ Begin(w, t, <<>>)
  BY TwoWrites
<1> HIDE DEF t
<1>2. \A i \in 1..Len(t) : t[i].cell[1] \in {"suppress", "event", "setting"}
  BY <1>1
<1>3. Listed(t, {})
  <2>1. \A i \in 1..Len(t) : t[i].cell[1] \notin Special
    BY <1>2 DEF Special
  <2> QED
    BY <2>1, NeutralListed
<1>4. UniqueSound(t, {})
  BY <1>2, UniqueStores DEF UniqueSound
<1>5. used' = used \cup {} /\ {} \cap used = {} /\ granted' = granted \cup {}
  OBVIOUS
<1> QED
  BY <1>1, <1>3, <1>4, <1>5, StartedWith

LEMMA Joined ==
    ASSUME NEW a, NEW b
    PROVE  <<a>> \o <<b>> = <<a, b>> /\ <<a>> \o <<>> = <<a>>
<1>1. /\ <<a>> \in Seq({a, b}) /\ <<b>> \in Seq({a, b}) /\ <<a, b>> \in Seq({a, b})
      /\ Len(<<a>>) = 1 /\ Len(<<b>>) = 1 /\ Len(<<a, b>>) = 2
      /\ <<a>>[1] = a /\ <<b>>[1] = b /\ <<a, b>>[1] = a /\ <<a, b>>[2] = b
  OBVIOUS
<1> DEFINE u == <<a>> \o <<b>>
<1>2. u \in Seq({a, b}) /\ Len(u) = 2
  BY <1>1, ConcatProperties
<1>3. u[1] = a /\ u[2] = b
  BY <1>1, ConcatProperties
<1> HIDE DEF u
<1>4. u = <<a, b>>
  BY <1>2, <1>3
<1>5. <<a>> \o <<>> = <<a>>
  BY <1>1, ConcatEmptySeq
<1> QED
  BY <1>4, <1>5 DEF u

PlainStores == {"incident", "accounts", "setting", "status", "edit", "profile", "risk"}

(* A handler of one write to a store of records with keys of their own.    *)
LEMMA PlainStarts ==
    ASSUME NEW w \in Workers, NEW store \in PlainStores, NEW key, NEW val,
           Begin(w, <<Write(store, key, val)>>, <<>>), UNCHANGED granted,
           NEW ids, ids \cap used = {}, used' = used \cup ids
    PROVE  Started(w)
<1> DEFINE x == Write(store, key, val)
<1>1. IsWrite(x) /\ x.cell = <<store, key>> /\ Begin(w, <<x>>, <<>>)
  BY WriteIs
<1> HIDE DEF x
<1>2. x.cell[1] \notin Special
  BY <1>1 DEF Special, PlainStores
<1>3. x.cell \notin Unique
  BY <1>1, UniqueStores DEF PlainStores
<1> QED
  BY <1>1, <1>2, <1>3, OneStarts

LEMMA StartIs ==
    ASSUME NEW w, NEW t, Start(w, t)
    PROVE  /\ Begin(w, t, <<>>) /\ t # <<>> /\ UNCHANGED granted
           /\ {} \cap used = {} /\ used' = used \cup {}
BY DEF Start, Begin

LEMMA FreshIs ==
    ASSUME NEW w, NEW ids, NEW t, Fresh(w, ids, t)
    PROVE  Begin(w, t, <<>>) /\ t # <<>> /\ ids \cap used = {} /\ used' = used \cup ids
BY DEF Fresh, Begin

LEMMA IncidentStarts ==
    ASSUME NEW w \in Workers, NEW i,
           \/ Fresh(w, {i}, IncidentCreate(i)) /\ UNCHANGED granted
           \/ Start(w, IncidentNote(i))
           \/ \E s \in {"open", "closed"} : Start(w, IncidentUpdate(i, s))
    PROVE  Started(w)
<1>1. "incident" \in PlainStores
  BY DEF PlainStores
<1>2. CASE Fresh(w, {i}, IncidentCreate(i)) /\ UNCHANGED granted
  <2> DEFINE x == [status |-> "open", history |-> <<<<"open", "open">>>>, notes |-> 0]
  <2>1. Begin(w, <<Write("incident", i, x)>>, <<>>)
    BY <1>2, FreshIs DEF IncidentCreate
  <2> HIDE DEF x
  <2> QED
    BY <1>1, <1>2, <2>1, FreshIs, PlainStarts
<1>3. CASE Start(w, IncidentNote(i))
  <2> DEFINE x == [mem[<<"incident", i>>] EXCEPT !.notes = @ + 1]
  <2>1. Begin(w, IncidentNote(i), <<>>) /\ IncidentNote(i) # <<>>
    BY <1>3, StartIs
  <2>2. IncidentNote(i) = <<Write("incident", i, x)>>
    BY <2>1 DEF IncidentNote
  <2> HIDE DEF x
  <2> QED
    BY <1>1, <1>3, <2>1, <2>2, StartIs, PlainStarts
<1>4. ASSUME NEW s, Start(w, IncidentUpdate(i, s)) PROVE Started(w)
  <2> DEFINE x == IF s = mem[<<"incident", i>>].status THEN mem[<<"incident", i>>]
                  ELSE Moved(mem[<<"incident", i>>], s)
  <2>1. Begin(w, IncidentUpdate(i, s), <<>>) /\ IncidentUpdate(i, s) # <<>>
    BY <1>4, StartIs
  <2>2. IncidentUpdate(i, s) = <<Write("incident", i, x)>>
    BY <2>1 DEF IncidentUpdate
  <2> HIDE DEF x
  <2> QED
    BY <1>1, <1>4, <2>1, <2>2, StartIs, PlainStarts
<1> QED
  BY <1>2, <1>3, <1>4

LEMMA SettingStarts ==
    ASSUME NEW w \in Workers,
           \/ \E s \in {"fleet", "bogus"} : Start(w, SetCollection("false", s))
           \/ Start(w, PutRisk(4))
           \/ \E h, list : Start(w, IngestAccounts(h, list))
           \/ \E a : \E on \in BOOLEAN : Start(w, SuppressUpdate(a, on))
    PROVE  Started(w)
<1>1. ASSUME NEW s, Start(w, SetCollection("false", s)) PROVE Started(w)
  <2> DEFINE x == Write("setting", "enabled", "false")
             y == Write("setting", "source", s)
  <2>1. /\ IsWrite(x) /\ IsWrite(y) /\ x.cell[1] = "setting" /\ y.cell[1] = "setting"
    BY WriteIs
  <2>2. SetCollection("false", s) = <<x>> \o <<y>> \/ SetCollection("false", s) = <<x>> \o <<>>
    BY DEF SetCollection
  <2> HIDE DEF y
  <2>3. SetCollection("false", s) = <<x, y>> \/ SetCollection("false", s) = <<x>>
    BY <2>2, Joined
  <2>4. Begin(w, SetCollection("false", s), <<>>) /\ UNCHANGED <<granted, used>>
    BY <1>1, StartIs DEF Start
  <2>5. CASE SetCollection("false", s) = <<x, y>>
    <3> HIDE DEF x
    <3> QED
      BY <2>1, <2>4, <2>5, TwoStart
  <2>6. CASE SetCollection("false", s) = <<x>>
    BY <1>1, <2>4, <2>6, StartIs, PlainStarts DEF PlainStores
  <2> QED
    BY <2>3, <2>5, <2>6
<1>2. CASE Start(w, PutRisk(4))
  <2>1. Begin(w, <<Write("setting", "doa", 4)>>, <<>>)
    BY <1>2, StartIs DEF PutRisk
  <2> QED
    BY <1>2, <2>1, StartIs, PlainStarts DEF PlainStores
<1>3. ASSUME NEW h, NEW list, Start(w, IngestAccounts(h, list)) PROVE Started(w)
  <2> DEFINE x == [i \in 1..Len(list) |-> NormalizeAccount(list[i])]
  <2>1. Begin(w, IngestAccounts(h, list), <<>>) /\ IngestAccounts(h, list) # <<>>
    BY <1>3, StartIs
  <2>2. IngestAccounts(h, list) = <<Write("accounts", h, x)>>
    BY <2>1 DEF IngestAccounts
  <2> HIDE DEF x
  <2> QED
    BY <1>3, <2>1, <2>2, StartIs, PlainStarts DEF PlainStores
<1>4. ASSUME NEW a, NEW on \in BOOLEAN, Start(w, SuppressUpdate(a, on)) PROVE Started(w)
  <2>1. PICK v1 : v1 = on
    OBVIOUS
  <2>2. PICK v2 : v2 = TRUE
    OBVIOUS
  <2> DEFINE x == Guarded("suppress", a, v1)
             y == Guarded("event", <<a, "suppress">>, v2)
  <2>3. IsWrite(x) /\ IsWrite(y) /\ x.cell[1] = "suppress" /\ y.cell[1] = "event"
    BY WriteIs
  <2>4. SuppressUpdate(a, on) = <<x, y>>
    BY <2>1, <2>2 DEF SuppressUpdate, Guarded
  <2>5. Begin(w, <<x, y>>, <<>>) /\ UNCHANGED <<granted, used>>
    BY <1>4, <2>4 DEF Start
  <2> HIDE DEF x, y
  <2> QED
    BY <2>3, <2>5, TwoStart
<1> QED
  BY <1>1, <1>2, <1>3, <1>4

LEMMA ControlStarts ==
    ASSUME NEW w \in Workers, NEW c, NEW u, NEW name,
           \/ Start(w, StatusUpsert(c, name)) \/ Start(w, SaveCatalogControl(c))
           \/ Start(w, DeleteControl(c)) \/ Start(w, UpdateProfile(u, name))
    PROVE  Started(w)
<1>1. CASE Start(w, StatusUpsert(c, name))
  <2>1. Begin(w, StatusUpsert(c, name), <<>>) /\ StatusUpsert(c, name) # <<>>
    BY <1>1, StartIs
  <2>2. StatusUpsert(c, name) = <<Write("status", c, name)>>
    BY <2>1 DEF StatusUpsert
  <2> QED
    BY <1>1, <2>1, <2>2, StartIs, PlainStarts DEF PlainStores
<1>2. CASE Start(w, SaveCatalogControl(c))
  <2>1. Begin(w, <<Write("edit", c, "upsert")>>, <<>>)
    BY <1>2, StartIs DEF SaveCatalogControl
  <2> QED
    BY <1>2, <2>1, StartIs, PlainStarts DEF PlainStores
<1>3. CASE Start(w, DeleteControl(c))
  <2>1. Begin(w, DeleteControl(c), <<>>) /\ DeleteControl(c) # <<>>
    BY <1>3, StartIs
  <2>2. <<"edit", c>>[1] = "edit" /\ <<"edit", c>>[2] = c
    OBVIOUS
  <2>3. \/ DeleteControl(c) = <<Write("edit", c, "delete")>>
        \/ DeleteControl(c) = <<Write("edit", c, None)>>
    BY <2>1, <2>2 DEF DeleteControl, Deletion
  <2> QED
    BY <1>3, <2>1, <2>3, StartIs, PlainStarts DEF PlainStores
<1>4. CASE Start(w, UpdateProfile(u, name))
  <2>1. Begin(w, <<Write("profile", u, name)>>, <<>>)
    BY <1>4, StartIs DEF UpdateProfile
  <2> QED
    BY <1>4, <2>1, StartIs, PlainStarts DEF PlainStores
<1> QED
  BY <1>1, <1>2, <1>3, <1>4

(* A deletion is of a record that is there.                                *)
LEMMA DeletionIs ==
    ASSUME NEW store, NEW key, Deletion(<<store, key>>) # <<>>
    PROVE  /\ Deletion(<<store, key>>) = <<Write(store, key, None)>>
           /\ mem[<<store, key>>] # None
<1>1. <<store, key>>[1] = store /\ <<store, key>>[2] = key
  OBVIOUS
<1> QED
  BY <1>1 DEF Deletion

LEMMA EvidenceStarts ==
    ASSUME NEW w \in Workers, NEW e, NEW t, NEW u,
           \/ Fresh(w, {e}, AddEvidence(e, u)) /\ UNCHANGED granted
           \/ Start(w, DeleteEvidence(e))
           \/ Fresh(w, {t}, AuthLogin(t, u)) /\ UNCHANGED granted
           \/ Start(w, AuthLogout(t))
    PROVE  Started(w)
<1>1. "evidence" \notin Special /\ "session" \notin Special
  BY DEF Special
<1>2. CASE Fresh(w, {e}, AddEvidence(e, u)) /\ UNCHANGED granted
  <2> DEFINE x == Write("evidence", e, u)
  <2>1. IsWrite(x) /\ x.cell = <<"evidence", e>> /\ Begin(w, <<x>>, <<>>)
    BY <1>2, WriteIs, FreshIs DEF AddEvidence
  <2>2. x.cell[1] = "evidence" /\ x.cell[2] = e
    BY <2>1
  <2> HIDE DEF x
  <2> QED
    BY <1>1, <1>2, <2>1, <2>2, FreshIs, OneStarts
<1>3. CASE Start(w, DeleteEvidence(e))
  <2> DEFINE x == Write("evidence", e, None)
  <2>1. /\ IsWrite(x) /\ x.cell = <<"evidence", e>> /\ Begin(w, <<x>>, <<>>)
        /\ mem[x.cell] # None
    BY <1>3, WriteIs, StartIs, DeletionIs DEF DeleteEvidence
  <2>2. x.cell[1] = "evidence"
    BY <2>1
  <2> HIDE DEF x
  <2> QED
    BY <1>1, <1>3, <2>1, <2>2, StartIs, OneStarts
<1>4. CASE Fresh(w, {t}, AuthLogin(t, u)) /\ UNCHANGED granted
  <2> DEFINE x == Guarded("session", t, u)
  <2>1. IsWrite(x) /\ x.cell = <<"session", t>> /\ Begin(w, <<x>>, <<>>)
    BY <1>4, WriteIs, FreshIs DEF AuthLogin
  <2>2. x.cell[1] = "session" /\ x.cell[2] = t
    BY <2>1
  <2> HIDE DEF x
  <2> QED
    BY <1>1, <1>4, <2>1, <2>2, FreshIs, OneStarts
<1>5. CASE Start(w, AuthLogout(t))
  <2> DEFINE x == Guarded("session", t, None)
  <2>1. Begin(w, AuthLogout(t), <<>>) /\ AuthLogout(t) # <<>>
    BY <1>5, StartIs
  <2>2. /\ IsWrite(x) /\ x.cell = <<"session", t>> /\ Begin(w, <<x>>, <<>>)
        /\ mem[x.cell] # None
    BY <2>1, WriteIs DEF AuthLogout
  <2>3. x.cell[1] = "session"
    BY <2>2
  <2> HIDE DEF x
  <2> QED
    BY <1>1, <1>5, <2>2, <2>3, StartIs, OneStarts
<1> QED
  BY <1>2, <1>3, <1>4, <1>5

(* The elements of a finite set, each once.                                *)
LEMMA SeqOfSet ==
    ASSUME NEW S, IsFiniteSet(S)
    PROVE  /\ SetToSeq(S) \in [1..Cardinality(S) -> S] /\ Cardinality(S) \in Nat
           /\ Len(SetToSeq(S)) = Cardinality(S)
           /\ \A i, j \in 1..Cardinality(S) :
                 SetToSeq(S)[i] = SetToSeq(S)[j] => i = j
<1>1. Cardinality(S) \in Nat /\ ExistsBijection(1..Cardinality(S), S)
  BY FS_CardinalityType
<1>2. \E f \in [1..Cardinality(S) -> S] : IsInjective(f)
  BY <1>1 DEF ExistsBijection, Bijection, Injection, IsInjective
<1>3. SetToSeq(S) \in [1..Cardinality(S) -> S] /\ IsInjective(SetToSeq(S))
  BY <1>2 DEF SetToSeq
<1> HIDE DEF SetToSeq
<1>4. Len(SetToSeq(S)) = Cardinality(S)
  BY <1>1, <1>3
<1> QED
  BY <1>1, <1>3, <1>4 DEF IsInjective

LEMMA BulkStarts ==
    ASSUME NEW w \in Workers, NEW ids \in SUBSET Evidence,
           Cardinality(ids) = Cardinality(Catalog),
           Fresh(w, ids, BulkSnapshot(ids)), UNCHANGED granted
    PROVE  Started(w)
<1> DEFINE list == SetToSeq(Catalog)
           fresh == SetToSeq(ids)
           n == Cardinality(Catalog)
           a == [i \in 1..Len(list) |-> Write("evidence", fresh[i], list[i])]
           z == Write("setting", "last_run", "now")
           t == a \o <<z>>
<1>1. IsFiniteSet(Catalog) /\ IsFiniteSet(ids)
  <2>1. Catalog \in SUBSET Controls
    BY DEF Catalog, Controls
  <2> QED
    BY <2>1, FiniteAssumption, FS_Subset
<1>2. /\ n \in Nat /\ Len(list) = n /\ fresh \in [1..n -> ids]
      /\ \A i, j \in 1..n : fresh[i] = fresh[j] => i = j
  BY <1>1, SeqOfSet
<1> HIDE DEF n, list, fresh
<1>3. /\ a \in Seq({a[i] : i \in 1..n}) /\ Len(a) = n
      /\ \A i \in 1..n : a[i] = Write("evidence", fresh[i], list[i])
  BY <1>2
<1>4. <<z>> \in Seq({z}) /\ Len(<<z>>) = 1 /\ <<z>>[1] = z
  OBVIOUS
<1>5. IsWrite(z) /\ z.cell = <<"setting", "last_run">>
  BY WriteIs
<1>6. \A i \in 1..n : IsWrite(a[i]) /\ a[i].cell = <<"evidence", fresh[i]>>
  BY <1>3, WriteIs
<1>7. Begin(w, t, <<>>) /\ ids \cap used = {} /\ used' = used \cup ids
  BY FreshIs DEF BulkSnapshot, n, list, fresh
<1> HIDE DEF a, z
<1> DEFINE S == {a[i] : i \in 1..n} \cup {z}
<1>8. a \in Seq(S) /\ <<z>> \in Seq(S)
  BY <1>3, <1>4
<1> HIDE DEF S
<1>9. t \in Seq(S) /\ Len(t) = n + 1
  BY <1>3, <1>4, <1>8, ConcatProperties
<1>10. \A i \in 1..(n + 1) : t[i] = IF i <= n THEN a[i] ELSE z
  <2> SUFFICES ASSUME NEW i \in 1..(n + 1) PROVE t[i] = IF i <= n THEN a[i] ELSE z
    OBVIOUS
  <2>1. t[i] = IF i <= Len(a) THEN a[i] ELSE <<z>>[i - Len(a)]
    BY <1>2, <1>3, <1>4, <1>8, ConcatProperties
  <2>2. i > n => i - n = 1
    BY <1>2
  <2> QED
    BY <1>3, <1>4, <2>1, <2>2
<1> HIDE DEF t
<1>11. \A i \in 1..Len(t) : /\ i \in 1..n => t[i] = a[i]
                            /\ i \notin 1..n => t[i] = z
  BY <1>2, <1>9, <1>10
<1>12. \A i \in 1..Len(t) : IsWrite(t[i])
  BY <1>5, <1>6, <1>11
<1>13. IsList(t)
  BY <1>9, <1>12, ListFrom
<1>14. \A i \in 1..Len(t) : t[i].cell[1] \notin Special
  BY <1>5, <1>6, <1>11 DEF Special
<1>15. Listed(t, {})
  BY <1>14, NeutralListed
<1>16. z.cell \notin Unique
  BY <1>5, UniqueStores
<1>17. UniqueSound(t, ids)
  <2> SUFFICES ASSUME NEW i \in 1..Len(t), t[i].cell \in Unique
               PROVE  /\ t[i].cell[2] \in ids
                      /\ \A j \in 1..Len(t) : t[j].cell = t[i].cell => j = i
    BY DEF UniqueSound
  <2>1. i \in 1..n /\ t[i].cell = <<"evidence", fresh[i]>>
    BY <1>6, <1>11, <1>16
  <2>2. t[i].cell[2] = fresh[i] /\ fresh[i] \in ids
    BY <1>2, <2>1
  <2>3. ASSUME NEW j \in 1..Len(t), t[j].cell = t[i].cell PROVE j = i
    <3>1. j \in 1..n /\ t[j].cell = <<"evidence", fresh[j]>>
      BY <1>6, <1>11, <1>16, <2>3
    <3>2. fresh[j] = fresh[i]
      BY <2>1, <2>3, <3>1
    <3> QED
      BY <1>2, <2>1, <3>1, <3>2
  <2> QED
    BY <2>2, <2>3
<1>18. <<>> \in Seq(Rows) /\ granted' = granted \cup {}
  OBVIOUS
<1> QED
  BY <1>7, <1>13, <1>15, <1>17, <1>18, StartedWith

-----------------------------------------------------------------------------
(* What the records are like *)

OwnerGood(h, x) ==
    x # None => DOMAIN x = OwnerFields /\ (x.exc = "set" => Excepted(h))
VulnGood(v, x) ==
    x # None => DOMAIN x = VulnFields /\ (x.exc = "set" => Audited(v))
TriageGood(x) == x # None => x \in Triages /\ Told(x, x.status)
Given(p, x) == x # None /\ x.status = "approved" => p \in granted

(* A list of one write, which is not of the change history or to Zabbix.   *)
LEMMA OneListed ==
    ASSUME NEW x, IsWrite(x), NEW given, x.cell[1] \notin {"audit", "zabbix", "triage"},
           x.cell[1] \in {"owner", "vuln"} => x.val = None,
           \A p \in Approvals : x.cell = <<"approval", p>> /\ x.val # None
                                /\ x.val.status = "approved" => p \in given
    PROVE  Listed(<<x>>, given)
<1> DEFINE t == <<x>>
<1>1. Len(t) = 1 /\ t[1] = x
  BY OneWrite
<1> HIDE DEF t
<1>2. \A i \in 1..Len(t) : t[i] = x
  BY <1>1
<1>3. AuditSound(t)
  BY <1>2 DEF AuditSound
<1>4. OwnerSound(t)
  BY <1>2 DEF OwnerSound
<1>5. VulnSound(t)
  BY <1>2 DEF VulnSound, VulnEntry
<1>6. TriageSound(t)
  BY <1>2 DEF TriageSound
<1>7. GivenSound(t, given)
  BY <1>2 DEF GivenSound
<1>8. Listed(t, given)
  BY <1>3, <1>4, <1>5, <1>6, <1>7 DEF Listed
<1> QED
  BY <1>8 DEF t

LEMMA OneListedStarts ==
    ASSUME NEW w \in Workers, NEW x, IsWrite(x),
           NEW given, x.cell[1] \notin {"audit", "zabbix", "triage"},
           x.cell[1] \in {"owner", "vuln"} => x.val = None,
           \A p \in Approvals : x.cell = <<"approval", p>> /\ x.val # None
                                /\ x.val.status = "approved" => p \in given,
           Begin(w, <<x>>, <<>>), granted' = granted \cup given,
           NEW ids, ids \cap used = {}, used' = used \cup ids,
           x.cell \in Unique => x.cell[2] \in ids \/ mem[x.cell] # None
    PROVE  Started(w)
<1>1. IsList(<<x>>) /\ <<>> \in Seq(Rows)
  BY OneWrite
<1>2. UniqueSound(<<x>>, ids)
  BY OneUnique
<1>3. Listed(<<x>>, given)
  BY OneListed
<1> QED
  BY <1>1, <1>2, <1>3, StartedWith

LEMMA ApprovalStarts ==
    ASSUME NEW w \in Workers, RequestOrGrant(w)
    PROVE  Started(w)
<1>1. PICK p \in Approvals :
        \/ \E g \in Grants :
              \/ Fresh(w, {p}, CreateRequest(p, g)) /\ UNCHANGED granted
              \/ Fresh(w, {p}, AddApproval(p, g)) /\ granted' = granted \cup {p}
        \/ Begin(w, ApproveRequest(p), <<>>) /\ granted' = granted \cup {p} /\ UNCHANGED used
        \/ Start(w, RejectRequest(p))
  BY DEF RequestOrGrant
<1>2. \A q : <<"approval", q>> = <<"approval", p>> => q = p
  OBVIOUS
<1>3. ASSUME NEW g, Fresh(w, {p}, CreateRequest(p, g)), UNCHANGED granted PROVE Started(w)
  <2> DEFINE y == [grant |-> g, status |-> "pending"]
             x == Write("approval", p, y)
  <2>1. y.status # "approved"
    OBVIOUS
  <2> HIDE DEF y
  <2>2. Begin(w, CreateRequest(p, g), <<>>) /\ CreateRequest(p, g) # <<>>
    BY <1>3, FreshIs
  <2>3. CreateRequest(p, g) = <<x>>
    BY <2>2 DEF CreateRequest, y
  <2>4. IsWrite(x) /\ x.cell = <<"approval", p>> /\ x.val = y /\ Begin(w, <<x>>, <<>>)
    BY <2>2, <2>3, WriteIs
  <2>5. x.cell[1] = "approval" /\ x.cell[2] = p
    BY <2>4
  <2>6. granted' = granted \cup {}
    BY <1>3
  <2> HIDE DEF x
  <2> QED
    BY <1>3, <2>1, <2>4, <2>5, <2>6, FreshIs, OneListedStarts
<1>4. ASSUME NEW g, Fresh(w, {p}, AddApproval(p, g)), granted' = granted \cup {p}
      PROVE  Started(w)
  <2> DEFINE x == Write("approval", p, [grant |-> g, status |-> "approved"])
  <2>1. IsWrite(x) /\ x.cell = <<"approval", p>> /\ Begin(w, <<x>>, <<>>)
    BY <1>4, FreshIs, WriteIs DEF AddApproval
  <2>2. x.cell[1] = "approval" /\ x.cell[2] = p
    BY <2>1
  <2> HIDE DEF x
  <2> QED
    BY <1>2, <1>4, <2>1, <2>2, FreshIs, OneListedStarts
<1>5. CASE Begin(w, ApproveRequest(p), <<>>) /\ granted' = granted \cup {p} /\ UNCHANGED used
  <2> DEFINE x == Write("approval", p, [mem[<<"approval", p>>] EXCEPT !.status = "approved"])
  <2>1. ApproveRequest(p) = <<x>> /\ mem[<<"approval", p>>] # None
    BY <1>5 DEF Begin, ApproveRequest
  <2>2. IsWrite(x) /\ x.cell = <<"approval", p>> /\ Begin(w, <<x>>, <<>>)
    BY <1>5, <2>1, WriteIs
  <2>3. x.cell[1] = "approval" /\ mem[x.cell] # None
    BY <2>1, <2>2
  <2>4. {} \cap used = {} /\ used' = used \cup {}
    BY <1>5
  <2> HIDE DEF x
  <2> QED
    BY <1>2, <1>5, <2>2, <2>3, <2>4, OneListedStarts
<1>6. CASE Start(w, RejectRequest(p))
  <2> DEFINE x == Write("approval", p, None)
  <2>1. /\ IsWrite(x) /\ x.cell = <<"approval", p>> /\ x.val = None
        /\ Begin(w, <<x>>, <<>>) /\ mem[x.cell] # None
    BY <1>6, WriteIs, StartIs, DeletionIs DEF RejectRequest
  <2>2. x.cell[1] = "approval"
    BY <2>1
  <2>3. granted' = granted \cup {}
    BY <1>6, StartIs
  <2> HIDE DEF x
  <2> QED
    BY <1>6, <2>1, <2>2, <2>3, StartIs, OneListedStarts
<1> QED
  BY <1>1, <1>3, <1>4, <1>5, <1>6

(* The writes of a handler of an owner, one by one.                        *)
LEMMA OwnerListHas ==
    ASSUME NEW m, NEW h, NEW form
    PROVE  \A i \in 1..Len(UpsertOwner(m, h, form)) :
              LET t == UpsertOwner(m, h, form)
              IN  /\ t[i] \in {OwnerChange(m, h, form), ExcChange(m, h, form), OwnerWrite(m, h, form)}
                  /\ t[i] = OwnerWrite(m, h, form)
                     /\ OwnerOf(m, h).exc # OwnerNew(m, h, form).exc =>
                          \/ \E j \in 1..(i - 1) : t[j] = ExcChange(m, h, form)
                          \/ t[i] \in {OwnerChange(m, h, form), ExcChange(m, h, form)}
<1> DEFINE t == UpsertOwner(m, h, form)
           a == OwnerChange(m, h, form)
           b == ExcChange(m, h, form)
           c == OwnerWrite(m, h, form)
           same == OwnerOf(m, h).exc = OwnerNew(m, h, form).exc
<1>1. IF same THEN t = <<c>> \/ t = <<a, c>> ELSE t = <<b, c>> \/ t = <<a, b, c>>
  BY OwnerListIs
<1>2. IsWrite(a) /\ IsWrite(b) /\ IsWrite(c)
  BY WriteIs DEF OwnerChange, ExcChange, OwnerWrite
<1> HIDE DEF t, a, b, c, same
<1>3. CASE same /\ t = <<c>>
  <2>1. Len(t) = 1 /\ t[1] = c
    BY <1>2, <1>3, OneWrite
  <2> QED
    BY <1>3, <2>1 DEF t, a, b, c, same
<1>4. CASE same /\ t = <<a, c>>
  <2>1. Len(t) = 2 /\ t[1] = a /\ t[2] = c
    BY <1>2, <1>4, TwoWrites
  <2> QED
    BY <1>4, <2>1 DEF t, a, b, c, same
<1>5. CASE ~same /\ t = <<b, c>>
  <2>1. Len(t) = 2 /\ t[1] = b /\ t[2] = c
    BY <1>2, <1>5, TwoWrites
  <2>2. \A i \in 1..Len(t) : /\ t[i] \in {a, b, c}
                             /\ t[i] = c => (\E j \in 1..(i - 1) : t[j] = b) \/ t[i] \in {a, b}
    BY <2>1
  <2> QED
    BY <2>2 DEF t, a, b, c
<1>6. CASE ~same /\ t = <<a, b, c>>
  <2>1. Len(t) = 3 /\ t[1] = a /\ t[2] = b /\ t[3] = c
    BY <1>2, <1>6, ThreeWrites
  <2>2. \A i \in 1..Len(t) : /\ t[i] \in {a, b, c}
                             /\ t[i] = c => (\E j \in 1..(i - 1) : t[j] = b) \/ t[i] \in {a, b}
    BY <2>1
  <2> QED
    BY <2>2 DEF t, a, b, c
<1> QED
  BY <1>1, <1>3, <1>4, <1>5, <1>6

LEMMA OwnerListed ==
    ASSUME NEW h \in Hosts, NEW form, OwnerGood(h, mem[<<"owner", h>>])
    PROVE  LET t == UpsertOwner(mem, h, form)
           IN  /\ Listed(t, {})
               /\ \A i \in 1..Len(t) : t[i].cell \notin Unique /\ t[i].cell[1] \in {"audit", "owner"}
<1> DEFINE t == UpsertOwner(mem, h, form)
           a == OwnerChange(mem, h, form)
           b == ExcChange(mem, h, form)
           c == OwnerWrite(mem, h, form)
           old == OwnerOf(mem, h)
           new == OwnerNew(mem, h, form)
<1>1. \A i \in 1..Len(t) :
         /\ t[i] \in {a, b, c}
         /\ t[i] = c /\ old.exc # new.exc =>
              (\E j \in 1..(i - 1) : t[j] = b) \/ t[i] \in {a, b}
  BY OwnerListHas
<1>2. DOMAIN old = OwnerFields /\ (old.exc = "set" => Excepted(h))
  <2>1. CASE mem[<<"owner", h>>] = None
    <3>1. old = [owner |-> "", exc |-> "", tags |-> {}]
      BY <2>1 DEF OwnerOf
    <3> HIDE DEF old
    <3>2. old.exc # "set"
      BY <3>1
    <3>3. DOMAIN old = OwnerFields
      BY <3>1 DEF OwnerFields
    <3> QED
      BY <3>2, <3>3
  <2>2. CASE mem[<<"owner", h>>] # None
    <3>1. old = mem[<<"owner", h>>]
      BY <2>2 DEF OwnerOf
    <3> HIDE DEF old
    <3>2. OwnerGood(h, old) /\ old # None
      BY <2>2, <3>1
    <3> QED
      BY <3>2 DEF OwnerGood
  <2> QED
    BY <2>1, <2>2
<1>3. DOMAIN new = OwnerFields
  BY <1>2 DEF OwnerNew, Filled
<1>4. /\ a.cell = <<"audit", [of |-> <<"owner", h>>, new |-> new.owner]>>
      /\ b.cell = <<"audit", [of |-> <<"exc", h>>, new |-> new.exc]>>
      /\ c.cell = <<"owner", h>> /\ c.val = new
  BY DEF OwnerChange, ExcChange, OwnerWrite, Write
<1>5. a.val = TRUE /\ b.val = TRUE
  BY DEF OwnerChange, ExcChange, Write
<1>6. ~a.guarded /\ ~b.guarded
  BY DEF OwnerChange, ExcChange, Write
<1> HIDE DEF t, a, b, c, old, new
<1>7. /\ a.cell[1] = "audit" /\ b.cell[1] = "audit" /\ c.cell[1] = "owner"
      /\ \A v : a.cell # VulnEntry(v) /\ b.cell # VulnEntry(v)
  BY <1>4 DEF VulnEntry
<1>8. \A i \in 1..Len(t) : t[i].cell \notin Unique /\ t[i].cell[1] \in {"audit", "owner"}
  BY <1>1, <1>7, UniqueStores
<1>9. AuditSound(t)
  <2> SUFFICES ASSUME NEW i \in 1..Len(t), t[i].cell[1] = "audit"
               PROVE  t[i].val = TRUE /\ ~t[i].guarded
    BY DEF AuditSound
  <2>1. t[i] = a \/ t[i] = b
    BY <1>1, <1>7
  <2> QED
    BY <1>5, <1>6, <2>1, Zenon
<1>10. OwnerSound(t)
  <2> SUFFICES ASSUME NEW g \in Hosts, NEW i \in 1..Len(t), t[i].cell = <<"owner", g>>
               PROVE  /\ DOMAIN t[i].val = OwnerFields
                      /\ t[i].val.exc = "set" =>
                            Excepted(g) \/ \E j \in 1..(i - 1) : t[j].cell = OwnerEntry(g)
    BY DEF OwnerSound
  <2>1. t[i].cell[1] = "owner"
    OBVIOUS
  <2>2. t[i] = c /\ t[i] \notin {a, b}
    BY <1>1, <1>7, <2>1
  <2>3. g = h
    BY <1>4, <2>2
  <2>4. new.exc = "set" /\ old.exc # new.exc => \E j \in 1..(i - 1) : t[j].cell = OwnerEntry(h)
    BY <1>1, <1>4, <2>2 DEF OwnerEntry
  <2> QED
    BY <1>2, <1>3, <1>4, <2>2, <2>3, <2>4
<1>11. VulnSound(t)
  <2>1. \A v : <<"vuln", v>>[1] = "vuln"
    OBVIOUS
  <2>2. ASSUME NEW i \in 1..Len(t), NEW v PROVE t[i].cell # <<"vuln", v>>
    <3>1. t[i].cell[1] # "vuln"
      BY <1>8
    <3> QED
      BY <2>1, <3>1
  <2>3. \A v : c.cell # VulnEntry(v)
    <3>1. \A v : VulnEntry(v)[1] = "audit"
      BY DEF VulnEntry
    <3> QED
      BY <1>7, <3>1
  <2>4. \A i \in 1..Len(t) : \A v : t[i].cell # VulnEntry(v)
    BY <1>1, <1>7, <2>3
  <2> QED
    BY <2>2, <2>4 DEF VulnSound
<1>12. \A i \in 1..Len(t) : \A x : t[i].cell # <<"triage", x>> /\ t[i].cell # <<"zabbix", x>>
                              /\ t[i].cell # <<"approval", x>>
  <2>1. \A x : /\ <<"triage", x>>[1] = "triage" /\ <<"zabbix", x>>[1] = "zabbix"
               /\ <<"approval", x>>[1] = "approval"
    OBVIOUS
  <2>2. \A i \in 1..Len(t) : t[i].cell[1] \notin {"triage", "zabbix", "approval"}
    BY <1>8
  <2> QED
    BY <2>1, <2>2
<1>13. TriageSound(t) /\ GivenSound(t, {})
  BY <1>12 DEF TriageSound, GivenSound
<1> QED
  BY <1>8, <1>9, <1>10, <1>11, <1>13 DEF Listed, t

LEMMA OwnerStarts ==
    ASSUME NEW w \in Workers, NEW h \in Hosts, OwnerGood(h, mem[<<"owner", h>>]),
           NEW form, NEW rows \in Seq(Rows),
           \/ Begin(w, UpsertOwner(mem, h, form), rows) /\ UNCHANGED <<used, granted>>
           \/ Start(w, OwnersDelete(h))
    PROVE  Started(w)
<1>1. CASE Begin(w, UpsertOwner(mem, h, form), rows) /\ UNCHANGED <<used, granted>>
  <2> DEFINE t == UpsertOwner(mem, h, form)
  <2>1. IsList(t) /\ Listed(t, {}) /\ \A i \in 1..Len(t) : t[i].cell \notin Unique
    BY OwnerListIsList, OwnerListed
  <2>2. Begin(w, t, rows)
    BY <1>1
  <2> HIDE DEF t
  <2>3. UniqueSound(t, {})
    BY <2>1 DEF UniqueSound
  <2>4. granted' = granted \cup {} /\ used' = used \cup {} /\ {} \cap used = {}
    BY <1>1
  <2> QED
    BY <2>1, <2>2, <2>3, <2>4, StartedWith
<1>2. CASE Start(w, OwnersDelete(h))
  <2> DEFINE x == Write("owner", h, None)
  <2>1. /\ IsWrite(x) /\ x.cell = <<"owner", h>> /\ x.val = None
        /\ Begin(w, <<x>>, <<>>) /\ mem[x.cell] # None
    BY <1>2, WriteIs, StartIs, DeletionIs DEF OwnersDelete
  <2>2. x.cell[1] = "owner"
    BY <2>1
  <2>3. granted' = granted \cup {} /\ used' = used \cup {} /\ {} \cap used = {}
    BY <1>2, StartIs
  <2> HIDE DEF x
  <2> QED
    BY <2>1, <2>2, <2>3, OneListedStarts
<1> QED
  BY <1>1, <1>2

IsEntry(y) == IsWrite(y) /\ y.cell[1] = "audit" /\ y.val = TRUE /\ ~y.guarded

(* A list of a change, and maybe its entry.                                *)
IsChange(t, x, y) ==
    IsList(t) /\ Len(t) \in {1, 2} /\ t[1] = x /\ (Len(t) = 2 => t[2] = y)

LEMMA ChangeIs ==
    ASSUME NEW t, NEW x, NEW y, IsChange(t, x, y)
    PROVE  \A i \in 1..Len(t) : (i = 1 /\ t[i] = x) \/ (i = 2 /\ t[i] = y)
BY DEF IsChange

LEMMA ChangeStarts ==
    ASSUME NEW w \in Workers, NEW v \in Vulns, NEW x, NEW y, IsWrite(x),
           x.cell \in {<<"vuln", v>>, <<"risk", v>>},
           IsEntry(y), NEW t, IsChange(t, x, y),
           Begin(w, t, <<>>), UNCHANGED <<granted, used>>,
           \A u \in Vulns : y.cell = VulnEntry(u) => x.cell = <<"vuln", u>>,
           x.cell = <<"vuln", v>> /\ x.val # None =>
              /\ DOMAIN x.val = VulnFields
              /\ x.val.exc = "set" => Audited(v) \/ (Len(t) = 2 /\ y.cell = VulnEntry(v))
    PROVE  Started(w)
<1>1. IsList(t) /\ Len(t) \in {1, 2} /\ t[1] = x /\ (Len(t) = 2 => t[2] = y)
  BY DEF IsChange
<1>2. \A i \in 1..Len(t) : (i = 1 /\ t[i] = x) \/ (i = 2 /\ t[i] = y)
  BY ChangeIs
<1>3. x.cell[1] \in {"vuln", "risk"} /\ (x.cell[1] = "vuln" => x.cell = <<"vuln", v>>)
  OBVIOUS
<1>4. \A i \in 1..Len(t) : t[i].cell[1] \in {"vuln", "risk", "audit"}
  BY <1>2, <1>3 DEF IsEntry
<1>5. AuditSound(t)
  <2> SUFFICES ASSUME NEW i \in 1..Len(t), t[i].cell[1] = "audit"
               PROVE  t[i].val = TRUE /\ ~t[i].guarded
    BY DEF AuditSound
  <2>1. t[i] = y
    BY <1>2, <1>3
  <2> QED
    BY <2>1, Zenon DEF IsEntry
<1>6. \A i \in 1..Len(t) : t[i].cell[1] \notin {"owner", "approval", "triage", "zabbix"}
  BY <1>4
<1>7. \A a : /\ <<"owner", a>>[1] = "owner" /\ <<"approval", a>>[1] = "approval"
             /\ <<"triage", a>>[1] = "triage" /\ <<"zabbix", a>>[1] = "zabbix"
             /\ <<"vuln", a>>[1] = "vuln"
  OBVIOUS
<1>8. ASSUME NEW i \in 1..Len(t), NEW a
      PROVE  /\ t[i].cell # <<"owner", a>> /\ t[i].cell # <<"approval", a>>
             /\ t[i].cell # <<"triage", a>> /\ t[i].cell # <<"zabbix", a>>
  BY <1>6, <1>7
<1>9. OwnerSound(t) /\ GivenSound(t, {}) /\ TriageSound(t)
  BY <1>8 DEF OwnerSound, GivenSound, TriageSound
<1>10. VulnSound(t)
  <2> SUFFICES ASSUME NEW u \in Vulns, NEW i \in 1..Len(t)
               PROVE  /\ t[i].cell = VulnEntry(u) => i = 1 \/ (i = 2 /\ t[1].cell = <<"vuln", u>>)
                      /\ t[i].cell = <<"vuln", u>> /\ t[i].val # None =>
                            /\ DOMAIN t[i].val = VulnFields
                            /\ t[i].val.exc = "set" => Audited(u) \/ Pending(t, VulnEntry(u))
    BY DEF VulnSound
  <2>1. t[i].cell = VulnEntry(u) => i = 1 \/ (i = 2 /\ t[1].cell = <<"vuln", u>>)
    BY <1>1, <1>2
  <2>2. ASSUME t[i].cell = <<"vuln", u>>, t[i].val # None
        PROVE  /\ DOMAIN t[i].val = VulnFields
               /\ t[i].val.exc = "set" => Audited(u) \/ Pending(t, VulnEntry(u))
    <3>1. t[i].cell[1] = "vuln"
      BY <1>7, <2>2
    <3>2. t[i] = x /\ x.cell = <<"vuln", v>>
      BY <1>2, <1>3, <3>1 DEF IsEntry
    <3>3. u = v
      BY <2>2, <3>2
    <3>4. Len(t) = 2 /\ y.cell = VulnEntry(v) => Pending(t, VulnEntry(v))
      BY <1>1 DEF Pending
    <3> QED
      BY <2>2, <3>2, <3>3, <3>4
  <2> QED
    BY <2>1, <2>2
<1>11. Listed(t, {})
  BY <1>5, <1>9, <1>10 DEF Listed
<1>12. UniqueSound(t, {})
  BY <1>4, UniqueStores DEF UniqueSound
<1>13. /\ granted' = granted \cup {} /\ used' = used \cup {} /\ {} \cap used = {}
       /\ <<>> \in Seq(Rows)
  OBVIOUS
<1> QED
  BY <1>1, <1>11, <1>12, <1>13, StartedWith

Entry(of, new) == Write("audit", [of |-> of, new |-> new], TRUE)

LEMMA EntryIs ==
    ASSUME NEW of, NEW new
    PROVE  /\ IsEntry(Entry(of, new))
           /\ \A v : Entry(of, new).cell = VulnEntry(v) <=> of = <<"vuln_exc", v>> /\ new = "set"
<1> DEFINE y == Entry(of, new)
           r == [of |-> of, new |-> new]
<1>1. PICK val : val = TRUE
  OBVIOUS
<1>2. y = Write("audit", r, val)
  BY <1>1 DEF Entry
<1>3. y.val = TRUE
  BY DEF Write, Entry
<1>4. ~y.guarded
  BY DEF Write, Entry
<1>5. \A v : <<"audit", r>> = VulnEntry(v) <=> of = <<"vuln_exc", v>> /\ new = "set"
  BY DEF VulnEntry
<1> HIDE DEF y, r
<1>6. IsWrite(y) /\ y.cell = <<"audit", r>>
  BY <1>2, WriteIs
<1>7. y.cell[1] = "audit"
  BY <1>6
<1>8. IsEntry(y)
  BY <1>3, <1>4, <1>6, <1>7, Zenon DEF IsEntry
<1>9. \A v : y.cell = VulnEntry(v) <=> of = <<"vuln_exc", v>> /\ new = "set"
  BY <1>5, <1>6
<1> QED
  BY <1>8, <1>9 DEF y

LEMMA AuditIs ==
    ASSUME NEW x, IsWrite(x), NEW of, NEW old, NEW new
    PROVE  /\ IsChange(<<x>> \o Audit(of, old, new), x, Entry(of, new))
           /\ old # new => Len(<<x>> \o Audit(of, old, new)) = 2
<1> DEFINE y == Entry(of, new)
           t == <<x>> \o Audit(of, old, new)
<1>1. Audit(of, old, new) = IF old = new THEN <<>> ELSE <<y>>
  BY DEF Audit, Entry
<1>2. IsWrite(y)
  BY EntryIs DEF IsEntry
<1> HIDE DEF y
<1>3. t = IF old = new THEN <<x>> ELSE <<x, y>>
  BY <1>1, Joined
<1> HIDE DEF t
<1>4. CASE old = new
  <2>1. t = <<x>>
    BY <1>3, <1>4
  <2>2. IsList(t) /\ Len(t) = 1 /\ t[1] = x
    BY <2>1, OneWrite
  <2>3. IsChange(t, x, y)
    BY <2>2 DEF IsChange
  <2> QED
    BY <1>4, <2>3 DEF t, y
<1>5. CASE old # new
  <2>1. t = <<x, y>>
    BY <1>3, <1>5
  <2>2. IsList(t) /\ Len(t) = 2 /\ t[1] = x /\ t[2] = y
    BY <1>2, <2>1, TwoWrites
  <2>3. IsChange(t, x, y)
    BY <2>2 DEF IsChange
  <2> QED
    BY <2>2, <2>3 DEF t, y
<1> QED
  BY <1>4, <1>5

LEMMA VulnAuditIs ==
    ASSUME NEW x, IsWrite(x), NEW v, NEW field, NEW old, NEW new
    PROVE  /\ IsChange(<<x>> \o VulnAudit(v, field, old, new), x, Entry(<<field, v>>, new))
           /\ old # new /\ v \notin Nameless =>
                 Len(<<x>> \o VulnAudit(v, field, old, new)) = 2
<1>1. CASE v \in Nameless
  <2> DEFINE y == Entry(<<field, v>>, new)
             t == <<x>> \o VulnAudit(v, field, old, new)
  <2>1. t = <<x>>
    BY <1>1, Joined DEF VulnAudit
  <2> HIDE DEF t, y
  <2>2. IsList(t) /\ Len(t) = 1 /\ t[1] = x
    BY <2>1, OneWrite
  <2>3. IsChange(t, x, y)
    BY <2>2 DEF IsChange
  <2> QED
    BY <1>1, <2>3 DEF t, y
<1>2. CASE v \notin Nameless
  BY <1>2, AuditIs DEF VulnAudit
<1> QED
  BY <1>1, <1>2

LEMMA VulnStarts ==
    ASSUME NEW w \in Workers, NEW v \in Vulns, VulnGood(v, mem[<<"vuln", v>>]), NEW exc,
           \/ Start(w, PlanUpsert(v)) \/ Start(w, RiskUpsert(v))
           \/ Start(w, ExceptionUpsert(v, exc)) \/ Start(w, ExceptionClear(v))
    PROVE  Started(w)
<1> DEFINE old == VulnOf(v)
<1>1. DOMAIN old = VulnFields /\ (old.exc = "set" => Audited(v))
  <2>1. CASE mem[<<"vuln", v>>] = None
    <3>1. old = [plan |-> "", exc |-> ""]
      BY <2>1 DEF VulnOf
    <3> HIDE DEF old
    <3>2. old.exc # "set"
      BY <3>1
    <3>3. DOMAIN old = VulnFields
      BY <3>1 DEF VulnFields
    <3> QED
      BY <3>2, <3>3
  <2>2. CASE mem[<<"vuln", v>>] # None
    <3>1. old = mem[<<"vuln", v>>]
      BY <2>2 DEF VulnOf
    <3> HIDE DEF old
    <3>2. VulnGood(v, old) /\ old # None
      BY <2>2, <3>1
    <3> QED
      BY <3>2 DEF VulnGood
  <2> QED
    BY <2>1, <2>2
<1> HIDE DEF old
<1>2. "vuln" # "risk" /\ <<"plan", v>> # <<"risk", v>>
  OBVIOUS
<1>3. ASSUME NEW t, Start(w, t) PROVE Begin(w, t, <<>>) /\ UNCHANGED <<granted, used>>
  BY <1>3, StartIs DEF Start
<1>4. CASE Start(w, PlanUpsert(v))
  <2> DEFINE rec == [old EXCEPT !.plan = "set"]
             x == Write("vuln", v, rec)
             y == Entry(<<"plan", v>>, "set")
             t == PlanUpsert(v)
  <2>1. t = <<x>> \o VulnAudit(v, "plan", old.plan, "set")
    BY DEF PlanUpsert, old
  <2>2. DOMAIN rec = VulnFields /\ rec.exc = old.exc
    BY <1>1 DEF VulnFields
  <2>3. IsWrite(x) /\ x.cell = <<"vuln", v>> /\ x.val = rec
    BY WriteIs
  <2>4. Begin(w, t, <<>>) /\ UNCHANGED <<granted, used>>
    BY <1>3, <1>4
  <2> HIDE DEF rec, x, t
  <2>5. IsChange(t, x, y)
    BY <2>1, <2>3, VulnAuditIs
  <2>6. IsEntry(y) /\ \A u : y.cell # VulnEntry(u)
    <3>1. \A u : <<"plan", v>> # <<"vuln_exc", u>>
      OBVIOUS
    <3> QED
      BY <3>1, EntryIs
  <2> HIDE DEF y
  <2> QED
    BY <1>1, <2>2, <2>3, <2>4, <2>5, <2>6, ChangeStarts
<1>5. CASE Start(w, RiskUpsert(v))
  <2> DEFINE x == Write("risk", v, "set")
             y == Entry(<<"risk", v>>, "set")
             t == RiskUpsert(v)
  <2>1. t = <<x>> \o VulnAudit(v, "risk", RiskOf(v), "set")
    BY DEF RiskUpsert
  <2>2. IsWrite(x) /\ x.cell = <<"risk", v>> /\ x.cell # <<"vuln", v>>
    BY WriteIs
  <2>3. Begin(w, t, <<>>) /\ UNCHANGED <<granted, used>>
    BY <1>3, <1>5
  <2> HIDE DEF x, t
  <2>4. IsChange(t, x, y)
    BY <2>1, <2>2, VulnAuditIs
  <2>5. IsEntry(y) /\ \A u : y.cell # VulnEntry(u)
    <3>1. \A u : <<"risk", v>> # <<"vuln_exc", u>>
      OBVIOUS
    <3> QED
      BY <3>1, EntryIs
  <2> HIDE DEF y
  <2> QED
    BY <2>2, <2>3, <2>4, <2>5, ChangeStarts
<1>6. ASSUME NEW e, Start(w, ExceptionUpsert(v, e)) PROVE Started(w)
  <2> DEFINE rec == [old EXCEPT !.exc = e]
             x == Write("vuln", v, rec)
             y == Entry(<<"vuln_exc", v>>, e)
             t == ExceptionUpsert(v, e)
  <2>1. t = <<x>> \o VulnAudit(v, "vuln_exc", old.exc, e)
    BY DEF ExceptionUpsert, old
  <2>2. DOMAIN rec = VulnFields /\ rec.exc = e
    BY <1>1 DEF VulnFields
  <2>3. IsWrite(x) /\ x.cell = <<"vuln", v>> /\ x.val = rec
    BY WriteIs
  <2>4. Begin(w, t, <<>>) /\ UNCHANGED <<granted, used>>
    BY <1>3, <1>6
  <2> HIDE DEF rec, x, t
  <2>5. IsChange(t, x, y) /\ (old.exc # e /\ v \notin Nameless => Len(t) = 2)
    BY <2>1, <2>3, VulnAuditIs
  <2>6. /\ IsEntry(y)
        /\ \A u : y.cell = VulnEntry(u) <=> <<"vuln_exc", v>> = <<"vuln_exc", u>> /\ e = "set"
    BY EntryIs
  <2> HIDE DEF y
  <2>7. \A u : <<"vuln_exc", v>> = <<"vuln_exc", u>> => u = v
    OBVIOUS
  <2>8. \A u : y.cell = VulnEntry(u) => x.cell = <<"vuln", u>>
    BY <2>3, <2>6, <2>7
  <2>9. x.val.exc = "set" => Audited(v) \/ (Len(t) = 2 /\ y.cell = VulnEntry(v))
    <3>1. v \in Nameless => Audited(v)
      BY DEF Audited
    <3> QED
      BY <1>1, <2>2, <2>3, <2>5, <2>6, <3>1
  <2>10. x.cell \in {<<"vuln", v>>, <<"risk", v>>} /\ DOMAIN x.val = VulnFields
    BY <2>2, <2>3
  <2> QED
    BY <2>3, <2>4, <2>6, <2>8, <2>5, <2>9, <2>10, ChangeStarts
<1>7. CASE Start(w, ExceptionClear(v))
  <2>1. ExceptionClear(v) # <<>>
    BY <1>7, StartIs
  <2>2. Start(w, ExceptionUpsert(v, ""))
    BY <1>7, <2>1 DEF ExceptionClear
  <2> QED
    BY <1>6, <2>2
<1> QED
  BY <1>4, <1>5, <1>6, <1>7

(* A change of the status keeps what the history says and adds to it.      *)
LEMMA MovedIs ==
    ASSUME NEW rec \in Triages, NEW status \in AlertStatuses
    PROVE  /\ Moved(rec, status) \in Triages /\ Moved(rec, status).status = status
           /\ Told(Moved(rec, status), status)
           /\ \A s : Told(rec, s) => Told(Moved(rec, status), s)
<1> DEFINE P == AlertStatuses \X AlertStatuses
           e == <<rec.status, status>>
           old == rec.history
           new == Append(old, e)
           r == Moved(rec, status)
<1>1. /\ rec.status \in AlertStatuses /\ old \in Seq(P) /\ e \in P
      /\ rec = [status |-> rec.status, history |-> rec.history]
  BY DEF Triages
<1>2. r = [rec EXCEPT !.status = status, !.history = new]
  BY DEF Moved
<1>3. e[2] = status
  OBVIOUS
<1> HIDE DEF P, e, old
<1>4. /\ new \in Seq(P) /\ Len(new) = Len(old) + 1 /\ Len(old) \in Nat
      /\ \A i \in 1..Len(old) : new[i] = old[i]
      /\ new[Len(old) + 1] = e
  BY <1>1, AppendProperties, LenProperties
<1> HIDE DEF new, r
<1>5. r \in Triages /\ r.status = status /\ r.history = new
  <2>1. rec \in [status : AlertStatuses, history : Seq(P)]
    BY DEF Triages, P
  <2> DEFINE Q == Seq(P)
  <2> HIDE DEF Q
  <2>2. rec \in [status : AlertStatuses, history : Q] /\ new \in Q
    BY <1>4, <2>1 DEF Q
  <2>3. r \in [status : AlertStatuses, history : Q]
    BY <1>2, <2>2
  <2>4. r.status = status /\ r.history = new
    BY <1>2, <2>2
  <2> QED
    BY <2>3, <2>4 DEF Q, P, Triages
<1>6. r # None
  BY <1>5, NoneAssumption
<1>7. Len(old) + 1 \in 1..Len(new)
  BY <1>4
<1>8. Told(r, status)
  BY <1>3, <1>4, <1>5, <1>6, <1>7 DEF Told
<1>9. ASSUME NEW s, Told(rec, s) PROVE Told(r, s)
  <2>1. PICK i \in 1..Len(old) : old[i][2] = s
    BY <1>9 DEF Told, old
  <2>2. i \in 1..Len(new) /\ new[i] = old[i]
    BY <1>4
  <2> QED
    BY <1>5, <1>6, <2>1, <2>2 DEF Told
<1> QED
  BY <1>5, <1>8, <1>9 DEF r

LEMMA TriageStarts ==
    ASSUME NEW w \in Workers, NEW a \in Alerts, TriageGood(mem[<<"triage", a>>]),
           NEW status \in AlertStatuses, Start(w, TriageUpdate(a, status))
    PROVE  Started(w)
<1> DEFINE old == TriageOf(a)
           new == Moved(old, status)
<1>1. old \in Triages /\ (mem[<<"triage", a>>] # None => old = mem[<<"triage", a>>])
  <2>1. CASE mem[<<"triage", a>>] = None
    <3>1. old = [status |-> "pending", history |-> <<>>]
      BY <2>1 DEF TriageOf
    <3>2. "pending" \in AlertStatuses /\ <<>> \in Seq(AlertStatuses \X AlertStatuses)
      BY DEF AlertStatuses
    <3> HIDE DEF old
    <3>3. old \in Triages
      BY <3>1, <3>2 DEF Triages
    <3> QED
      BY <2>1, <3>3
  <2>2. CASE mem[<<"triage", a>>] # None
    <3>1. old = mem[<<"triage", a>>]
      BY <2>2 DEF TriageOf
    <3> HIDE DEF old
    <3>2. TriageGood(old) /\ old # None
      BY <2>2, <3>1
    <3> QED
      BY <3>1, <3>2 DEF TriageGood
  <2> QED
    BY <2>1, <2>2
<1> HIDE DEF old
<1>2. /\ new \in Triages /\ Told(new, new.status)
      /\ \A s : Told(mem[<<"triage", a>>], s) => Told(new, s)
  <2>1. /\ new \in Triages /\ new.status = status /\ Told(new, status)
        /\ \A s : Told(old, s) => Told(new, s)
    BY <1>1, MovedIs
  <2> HIDE DEF new
  <2>2. Told(new, new.status)
    BY <2>1
  <2>3. ASSUME NEW s, Told(mem[<<"triage", a>>], s) PROVE Told(new, s)
    <3>1. mem[<<"triage", a>>] # None
      BY <2>3 DEF Told
    <3>2. Told(old, s)
      BY <1>1, <2>3, <3>1
    <3> QED
      BY <2>1, <3>2
  <2> QED
    BY <2>1, <2>2, <2>3
<1>3. PICK val : val = TRUE
  OBVIOUS
<1> DEFINE x == Write("triage", a, new)
           q == Write("query", a, None)
           y == Guarded("zabbix", a, "present")
           z == Guarded("event", <<a, "triage">>, val)
           t == <<x, q, y, z>>
<1>4. TriageUpdate(a, status) = t
  BY <1>3 DEF TriageUpdate, Guarded, old
<1> HIDE DEF new
<1>5. /\ IsWrite(x) /\ x.cell = <<"triage", a>> /\ x.val = new
      /\ IsWrite(q) /\ q.cell = <<"query", a>>
      /\ IsWrite(y) /\ y.cell = <<"zabbix", a>> /\ y.val = "present"
      /\ IsWrite(z) /\ z.cell = <<"event", <<a, "triage">>>>
  BY WriteIs
<1>6. Begin(w, t, <<>>)
  BY <1>4, StartIs
<1> HIDE DEF x, q, y, z
<1>7. IsList(t) /\ Len(t) = 4 /\ t[1] = x /\ t[2] = q /\ t[3] = y /\ t[4] = z
  BY <1>5, FourWrites
<1> HIDE DEF t
<1>8. \A i \in 1..Len(t) : \/ i = 1 /\ t[i].cell = <<"triage", a>> /\ t[i].val = new
                           \/ i = 2 /\ t[i].cell = <<"query", a>>
                           \/ i = 3 /\ t[i].cell = <<"zabbix", a>> /\ t[i].val = "present"
                           \/ i = 4 /\ t[i].cell = <<"event", <<a, "triage">>>>
  BY <1>5, <1>7
<1>9. \A i \in 1..Len(t) : t[i].cell[1] \in {"triage", "query", "zabbix", "event"}
  BY <1>8
<1>10. /\ \A b : /\ <<"owner", b>>[1] = "owner" /\ <<"vuln", b>>[1] = "vuln"
                 /\ <<"approval", b>>[1] = "approval"
       /\ \A v : VulnEntry(v)[1] = "audit"
  BY DEF VulnEntry
<1>11. ASSUME NEW i \in 1..Len(t), NEW b
       PROVE  /\ t[i].cell # <<"owner", b>> /\ t[i].cell # <<"vuln", b>>
              /\ t[i].cell # <<"approval", b>> /\ t[i].cell # VulnEntry(b)
              /\ t[i].cell[1] # "audit" /\ t[i].cell \notin Unique
  BY <1>9, <1>10, UniqueStores
<1>12. AuditSound(t) /\ OwnerSound(t)
  BY <1>11 DEF AuditSound, OwnerSound
<1>13. VulnSound(t) /\ GivenSound(t, {}) /\ UniqueSound(t, {})
  BY <1>11 DEF VulnSound, GivenSound, UniqueSound
<1>14. TriageSound(t)
  <2> SUFFICES ASSUME NEW b \in Alerts, NEW i \in 1..Len(t)
      PROVE  /\ t[i].cell = <<"triage", b>> =>
                  /\ i = 1 /\ t[i].val \in Triages /\ Told(t[i].val, t[i].val.status)
                  /\ \A s : Told(mem[<<"triage", b>>], s) => Told(t[i].val, s)
             /\ t[i].cell = <<"zabbix", b>> =>
                  i # 1 /\ t[1].cell = <<"triage", b>> /\ t[i].val = "present"
    BY DEF TriageSound
  <2>1. /\ \A c : <<"triage", b>> # <<"zabbix", c>> /\ <<"triage", b>> # <<"event", c>>
        /\ \A c : <<"zabbix", b>> # <<"triage", c>> /\ <<"zabbix", b>> # <<"event", c>>
        /\ \A c : <<"triage", b>> # <<"query", c>> /\ <<"zabbix", b>> # <<"query", c>>
        /\ <<"triage", b>> = <<"triage", a>> => b = a
        /\ <<"zabbix", b>> = <<"zabbix", a>> => b = a
    OBVIOUS
  <2>2. t[i].cell = <<"triage", b>> => i = 1 /\ t[i].val = new /\ b = a
    BY <1>8, <2>1
  <2>3. t[i].cell = <<"zabbix", b>> => i = 3 /\ t[i].val = "present" /\ b = a
    BY <1>8, <2>1
  <2>4. t[1].cell = <<"triage", a>>
    BY <1>5, <1>7
  <2> QED
    BY <1>2, <2>2, <2>3, <2>4
<1>15. Listed(t, {})
  BY <1>12, <1>13, <1>14 DEF Listed
<1>16. <<>> \in Seq(Rows) /\ granted' = granted \cup {}
  BY StartIs
<1> QED
  BY <1>6, <1>7, <1>13, <1>15, <1>16, StartIs, StartedWith

-----------------------------------------------------------------------------
(* Every handler starts so *)

Starts(w) == RequestOrGrant(w) \/ Create(w) \/ Change(w) \/ Administer(w)

OwnersGood ==
    \A h \in Hosts : OwnerGood(h, mem[<<"owner", h>>]) /\ OwnerGood(h, tab[<<"owner", h>>])
VulnsGood ==
    \A v \in Vulns : VulnGood(v, mem[<<"vuln", v>>]) /\ VulnGood(v, tab[<<"vuln", v>>])
TriagesGood ==
    \A a \in Alerts : TriageGood(mem[<<"triage", a>>]) /\ TriageGood(tab[<<"triage", a>>])

LEMMA EveryStart ==
    ASSUME NEW w \in Workers, Starts(w), OwnersGood, VulnsGood, TriagesGood
    PROVE  Started(w)
<1>1. CASE RequestOrGrant(w)
  BY <1>1, ApprovalStarts
<1>2. CASE Create(w)
  <2>1. CASE \E i \in Incidents : Fresh(w, {i}, IncidentCreate(i)) /\ UNCHANGED granted
    BY <2>1, IncidentStarts
  <2>2. CASE \E e \in Evidence, c \in Controls :
               Fresh(w, {e}, AddEvidence(e, c)) /\ UNCHANGED granted
    BY <2>2, EvidenceStarts
  <2>3. CASE \E ids \in SUBSET Evidence :
               /\ Cardinality(ids) = Cardinality(Catalog)
               /\ Fresh(w, ids, BulkSnapshot(ids)) /\ UNCHANGED granted
    BY <2>3, BulkStarts
  <2>4. CASE \E t \in Tokens, u \in Users :
               Fresh(w, {t}, AuthLogin(t, u)) /\ UNCHANGED granted
    BY <2>4, EvidenceStarts
  <2> QED
    BY <1>2, <2>1, <2>2, <2>3, <2>4, Zenon DEF Create
<1>3. CASE Change(w)
  <2>1. CASE \E a \in Alerts :
               \/ \E on \in BOOLEAN : Start(w, SuppressUpdate(a, on))
               \/ \E s \in {"reviewing", "resolved"} : Start(w, TriageUpdate(a, s))
    <3>1. PICK a \in Alerts :
               \/ \E on \in BOOLEAN : Start(w, SuppressUpdate(a, on))
               \/ \E s \in {"reviewing", "resolved"} : Start(w, TriageUpdate(a, s))
      BY <2>1
    <3>2. CASE \E on \in BOOLEAN : Start(w, SuppressUpdate(a, on))
      BY <3>2, SettingStarts, Zenon
    <3>3. CASE \E s \in {"reviewing", "resolved"} : Start(w, TriageUpdate(a, s))
      <4>1. PICK s \in AlertStatuses : Start(w, TriageUpdate(a, s))
        BY <3>3 DEF AlertStatuses
      <4>2. TriageGood(mem[<<"triage", a>>])
        BY DEF TriagesGood
      <4> QED
        BY <4>1, <4>2, TriageStarts
    <3> QED
      BY <3>1, <3>2, <3>3
  <2>2. CASE \E i \in Incidents :
               Start(w, IncidentNote(i)) \/ \E s \in {"open", "closed"} : Start(w, IncidentUpdate(i, s))
    BY <2>2, IncidentStarts
  <2>3. CASE \E v \in Vulns :
               \/ Start(w, PlanUpsert(v)) \/ Start(w, RiskUpsert(v))
               \/ Start(w, ExceptionUpsert(v, "set")) \/ Start(w, ExceptionClear(v))
    BY <2>3, VulnStarts DEF VulnsGood
  <2>4. CASE \E h \in Hosts :
               \/ \E form \in OwnerForms : Start(w, UpsertOwner(mem, h, form))
               \/ \E list \in Inventories : Start(w, IngestAccounts(h, list))
               \/ Start(w, OwnersDelete(h))
    <3>1. PICK h \in Hosts :
               \/ \E form \in OwnerForms : Start(w, UpsertOwner(mem, h, form))
               \/ \E list \in Inventories : Start(w, IngestAccounts(h, list))
               \/ Start(w, OwnersDelete(h))
      BY <2>4
    <3>2. OwnerGood(h, mem[<<"owner", h>>]) /\ <<>> \in Seq(Rows)
      BY DEF OwnersGood
    <3>3. CASE \E form \in OwnerForms : Start(w, UpsertOwner(mem, h, form))
      BY <3>2, <3>3, OwnerStarts DEF Start
    <3>4. CASE \E list \in Inventories : Start(w, IngestAccounts(h, list))
      BY <3>4, SettingStarts
    <3>5. CASE Start(w, OwnersDelete(h))
      BY <3>2, <3>5, OwnerStarts
    <3> QED
      BY <3>1, <3>3, <3>4, <3>5
  <2>5. CASE \E s \in {"fleet", "bogus"} : Start(w, SetCollection("false", s))
    BY <2>5, SettingStarts
  <2>6. CASE \E rows \in Imports : OwnersImport(w, rows)
    <3>1. PICK rows \in Imports : OwnersImport(w, rows)
      BY <2>6
    <3>2. rows \in Seq(Rows) /\ rows # <<>>
      BY ImportAssumption
    <3>3. rows[1] \in Rows /\ Tail(rows) \in Seq(Rows)
      BY <3>2, HeadTailProperties
    <3>4. rows[1].host \in Hosts
      BY <3>3, ImportAssumption
    <3>5. OwnerGood(rows[1].host, mem[<<"owner", rows[1].host>>])
      BY <3>4 DEF OwnersGood
    <3> QED
      BY <3>1, <3>3, <3>4, <3>5, OwnerStarts DEF OwnersImport
  <2> QED
    BY <1>3, <2>1, <2>2, <2>3, <2>4, <2>5, <2>6, Zenon DEF Change
<1>4. CASE Administer(w)
  BY <1>4, SettingStarts, ControlStarts, EvidenceStarts DEF Administer
<1> QED
  BY <1>1, <1>2, <1>3, <1>4 DEF Starts

-----------------------------------------------------------------------------
(* The three steps of a thread, by what they change *)

Step(w, h) ==
    /\ IsHand(h) /\ op'[w] = h
    /\ \A v \in Workers \ {w} : op'[v] = op[v]
    /\ \A c \in Cached : mem'[c] = IF h # Idle /\ c = h.todo[1].cell THEN h.todo[1].val ELSE mem[c]
    /\ doubt \subseteq doubt' /\ granted \subseteq granted'

(* What a hand goes on with: the rest of its list, or a list for an owner. *)
Rest(u, t) ==
    /\ Len(u) = Len(t) - 1
    /\ \A i \in 1..Len(u) :
          /\ i + 1 \in 1..Len(t) /\ u[i].cell = t[i + 1].cell
          /\ t[i + 1].cell[1] # "zabbix" \/ i # 1 => u[i] = t[i + 1]

ForOwner(u) ==
    /\ Listed(u, {})
    /\ \A i \in 1..Len(u) : u[i].cell \notin Unique /\ u[i].cell[1] \in {"audit", "owner"}

Continues(w, h) ==
    \/ h = Idle /\ Len(op[w].todo) = 1
    \/ /\ Len(op[w].todo) > 1 /\ h # Idle
       /\ h.todo = At(mem, Tail(op[w].todo)) /\ Rest(h.todo, op[w].todo)
    \/ Len(op[w].todo) = 1 /\ ForOwner(h.todo)

TabWritten(w) ==
    \A c \in Cached \cup External :
        tab'[c] = IF c = Due(w).cell THEN Stored(c, Due(w).val) ELSE tab[c]

Begun(w, h, ids, given) ==
    /\ Step(w, h) /\ ~Busy(w) /\ h # Idle /\ UNCHANGED <<tab, gone>>
    /\ ids \cap used = {} /\ used' = used \cup ids /\ granted' = granted \cup given
    /\ UniqueSound(h.todo, ids) /\ Listed(h.todo, given)

Saved(w, h) ==
    /\ Step(w, h) /\ Busy(w) /\ TabWritten(w) /\ UNCHANGED <<used, granted>>
    /\ gone' = IF Due(w).cell \in Unique /\ Due(w).val = None
               THEN gone \cup {Due(w).cell} ELSE gone
    /\ Continues(w, h)

Failed(w, h) ==
    /\ Step(w, h) /\ Busy(w) /\ UNCHANGED <<tab, gone, used, granted>>
    /\ Due(w).cell \in doubt'
    /\ h = Idle \/ (Continues(w, h) /\ Due(w).guarded)

LEMMA MoveSteps ==
    ASSUME Shape, NEW w \in Workers, NEW h, IsHand(h), NEW settled, NEW lost,
           Moves(w, h, settled, lost), granted \subseteq granted'
    PROVE  Step(w, h) /\ lost \subseteq doubt'
<1>1. doubt \subseteq doubt' /\ lost \subseteq doubt'
  BY DEF Moves
<1>2. h # Idle => Head(h.todo) = h.todo[1]
  BY BusyIs
<1>3. /\ op'[w] = h /\ \A v \in Workers \ {w} : op'[v] = op[v]
      /\ \A c \in Cached : mem'[c] = IF h # Idle /\ c = Head(h.todo).cell
                                     THEN Head(h.todo).val ELSE mem[c]
  BY MoveIs
<1> QED
  BY <1>1, <1>2, <1>3 DEF Step

LEMMA NextHand ==
    ASSUME Shape, OwnersGood, NEW w \in Workers, Busy(w)
    PROVE  Continues(w, After(w))
<1> DEFINE t == op[w].todo
           h == After(w)
<1>1. IsList(t) /\ t # <<>>
  BY BusyIs DEF Shape, Busy, IsHand
<1>2. /\ IsHand(h)
      /\ \/ h = Idle /\ Len(t) = 1
         \/ Len(t) > 1 /\ h.todo = At(mem, Tail(t))
         \/ Len(t) = 1 /\ \E row \in Rows : h.todo = UpsertOwner(mem, row.host, row.form)
  BY AfterIs
<1> HIDE DEF t, h
<1>3. CASE h = Idle /\ Len(t) = 1
  BY <1>3 DEF Continues, t, h
<1>4. CASE Len(t) > 1 /\ h.todo = At(mem, Tail(t))
  <2> DEFINE r == Tail(t)
             u == At(mem, r)
  <2>1. /\ IsList(r) /\ Len(r) = Len(t) - 1 /\ Len(t) \in Nat
        /\ \A i \in 1..Len(r) : i + 1 \in 1..Len(t) /\ r[i] = t[i + 1]
    BY <1>1, RestIs, ListIs
  <2> HIDE DEF r
  <2>2. r # <<>>
    BY <1>4, <2>1, ListIs
  <2>3. u # <<>> /\ Len(u) = Len(r) /\ \A i \in 1..Len(r) : u[i].cell = r[i].cell
    <3>1. u # <<>> /\ Len(u) = Len(r)
      BY <2>1, <2>2, AtIs
    <3>2. u[1].cell = r[1].cell
      BY <2>1, <2>2, AtIs
    <3>3. \A i \in 1..Len(r) : i # 1 => u[i] = r[i]
      BY <2>1, <2>2, AtIs
    <3> HIDE DEF u
    <3> QED
      BY <3>1, <3>2, <3>3
  <2>4. \A i \in 1..Len(r) : r[i].cell[1] # "zabbix" \/ i # 1 => u[i] = r[i]
    <3>1. ~(r[1].cell[1] = "zabbix" /\ r[1].val = "present") => u = r
      BY <2>1, <2>2, AtIs
    <3>2. \A i \in 1..Len(r) : i # 1 => u[i] = r[i]
      BY <2>1, <2>2, AtIs
    <3> HIDE DEF u
    <3> QED
      BY <3>1, <3>2
  <2> HIDE DEF u
  <2>5. Rest(u, t)
    BY <2>1, <2>3, <2>4 DEF Rest
  <2>6. h # Idle
    BY <1>4, <2>3, IdleIs DEF u, r
  <2> QED
    BY <1>4, <2>5, <2>6 DEF Continues, u, r, t, h
<1>5. CASE Len(t) = 1 /\ \E row \in Rows : h.todo = UpsertOwner(mem, row.host, row.form)
  <2>1. PICK row \in Rows : h.todo = UpsertOwner(mem, row.host, row.form)
    BY <1>5
  <2>2. row.host \in Hosts
    BY ImportAssumption
  <2>3. OwnerGood(row.host, mem[<<"owner", row.host>>])
    BY <2>2 DEF OwnersGood
  <2>4. ForOwner(UpsertOwner(mem, row.host, row.form))
    BY <2>2, <2>3, OwnerListed DEF ForOwner
  <2> QED
    BY <1>5, <2>1, <2>4 DEF Continues, t, h
<1> QED
  BY <1>2, <1>3, <1>4, <1>5

LEMMA StartSteps ==
    ASSUME Shape, NEW w \in Workers, Started(w)
    PROVE  \E h, ids, given : Begun(w, h, ids, given)
<1>1. PICK t, rows, ids, given :
        /\ IsList(t) /\ rows \in Seq(Rows) /\ Begin(w, t, rows)
        /\ ids \cap used = {} /\ used' = used \cup ids /\ granted' = granted \cup given
        /\ UniqueSound(t, ids) /\ Listed(t, given)
  BY DEF Started
<1> DEFINE h == [todo |-> t, rows |-> rows]
<1>2. /\ ~Busy(w) /\ t # <<>> /\ UNCHANGED <<tab, gone>> /\ IsHand(h) /\ h # Idle
      /\ Moves(w, h, {}, {})
  BY <1>1, BeginIs
<1>3. h.todo = t
  OBVIOUS
<1> HIDE DEF h
<1>4. Step(w, h)
  BY <1>1, <1>2, MoveSteps
<1>5. Begun(w, h, ids, given)
  BY <1>1, <1>2, <1>3, <1>4 DEF Begun
<1> QED
  BY <1>5, Zenon

LEMMA SaveSteps ==
    ASSUME Shape, OwnersGood, NEW w \in Workers, Save(w)
    PROVE  Saved(w, After(w))
<1>1. Busy(w) /\ IsHand(After(w)) /\ Moves(w, After(w), Settled(w), {})
  BY SaveIs
<1>2. /\ tab' = [tab EXCEPT ![Due(w).cell] = Stored(Due(w).cell, Due(w).val)]
      /\ gone' = IF Due(w).cell \in Unique /\ Due(w).val = None
                 THEN gone \cup {Due(w).cell} ELSE gone
      /\ UNCHANGED <<used, granted>>
  BY SaveIs
<1>3. TabWritten(w)
  BY <1>2 DEF TabWritten, Shape
<1>4. Step(w, After(w))
  BY <1>1, <1>2, MoveSteps
<1> QED
  BY <1>1, <1>2, <1>3, <1>4, NextHand DEF Saved

LEMMA FailSteps ==
    ASSUME Shape, OwnersGood, NEW w \in Workers, SaveFails(w)
    PROVE  \E h : Failed(w, h)
<1>1. Busy(w) /\ UNCHANGED <<tab, gone, used, granted>>
  BY FailIs
<1>2. PICK h : /\ IsHand(h) /\ Moves(w, h, {}, {Due(w).cell})
               /\ h = Idle \/ (h = After(w) /\ Due(w).guarded)
  BY FailIs
<1>3. Step(w, h) /\ Due(w).cell \in doubt'
  BY <1>1, <1>2, MoveSteps
<1>4. Continues(w, After(w))
  BY <1>1, NextHand
<1>5. Failed(w, h)
  BY <1>1, <1>2, <1>3, <1>4 DEF Failed
<1> QED
  BY <1>5, Zenon

-----------------------------------------------------------------------------
(* What holds of the records, in memory, in the tables and in the hands    *)

LEMMA StoredIs ==
    ASSUME NEW c, NEW val
    PROVE  /\ val = None => Stored(c, val) = None
           /\ c[1] \notin {"accounts", "owner"} => Stored(c, val) = val
BY DEF Stored

LEMMA RecordsAre ==
    /\ \A p \in Approvals : <<"approval", p>> \in Cached
    /\ \A h \in Hosts : <<"owner", h>> \in Cached /\ <<"accounts", h>> \in Cached
    /\ \A v \in Vulns : <<"vuln", v>> \in Cached
    /\ \A a \in Alerts : <<"triage", a>> \in Cached /\ <<"zabbix", a>> \in External
    /\ \A h \in Hosts : OwnerEntry(h) \in Cached
    /\ \A v \in Vulns : VulnEntry(v) \in Cached
<1>1. \A p \in Approvals : <<"approval", p>> \in Cached
  BY DEF Cached, Unique, Cells
<1>2. \A h \in Hosts : <<"owner", h>> \in Cached /\ <<"accounts", h>> \in Cached
  BY DEF Cached, Cells
<1>3. \A v \in Vulns : <<"vuln", v>> \in Cached
  BY DEF Cached, Cells
<1>4. \A a \in Alerts : <<"triage", a>> \in Cached /\ <<"zabbix", a>> \in External
  BY DEF Cached, External, Cells
<1>5. \A e \in AuditEntries : <<"audit", e>> \in Cached
  BY DEF Cached, Cells
<1>6. \A h \in Hosts : [of |-> <<"exc", h>>, new |-> "set"] \in AuditEntries
  BY DEF AuditEntries
<1>7. \A v \in Vulns : [of |-> <<"vuln_exc", v>>, new |-> "set"] \in AuditEntries
  BY DEF AuditEntries
<1> QED
  BY <1>1, <1>2, <1>3, <1>4, <1>5, <1>6, <1>7 DEF OwnerEntry, VulnEntry

LEMMA DueIs ==
    ASSUME Shape, NEW w \in Workers, Busy(w)
    PROVE  Due(w) = op[w].todo[1] /\ 1 \in 1..Len(op[w].todo) /\ Len(op[w].todo) \in Nat \ {0}
BY BusyIs DEF Shape, Busy, Due

LEMMA StepHead ==
    ASSUME NEW w, NEW h, Step(w, h), h # Idle
    PROVE  1 \in 1..Len(h.todo)
BY BusyIs DEF Step

LEMMA IdleLen == Len(Idle.todo) = 0
BY IdleIs

(* An approval is granted by an officer, wherever it is.                   *)
GivenGood ==
    /\ \A p \in Approvals : Given(p, mem[<<"approval", p>>]) /\ Given(p, tab[<<"approval", p>>])
    /\ \A w \in Workers : GivenSound(op[w].todo, granted)

LEMMA GivenStep ==
    ASSUME Shape, GivenGood, NEW w \in Workers, NEW h, Step(w, h),
           UNCHANGED tab \/ (Busy(w) /\ TabWritten(w)), GivenSound(h.todo, granted')
    PROVE  GivenGood'
<1>1. /\ op'[w] = h /\ \A v \in Workers \ {w} : op'[v] = op[v]
      /\ \A c \in Cached : mem'[c] = IF h # Idle /\ c = h.todo[1].cell THEN h.todo[1].val ELSE mem[c]
      /\ granted \subseteq granted'
  BY DEF Step
<1>2. ASSUME NEW v \in Workers PROVE GivenSound(op'[v].todo, granted')
  <2>1. GivenSound(op[v].todo, granted)
    BY DEF GivenGood
  <2>2. GivenSound(op[v].todo, granted')
    BY <1>1, <2>1 DEF GivenSound
  <2> QED
    BY <1>1, <2>2
<1>3. ASSUME NEW p \in Approvals PROVE Given(p, mem[<<"approval", p>>])'
  <2> DEFINE c == <<"approval", p>>
  <2>1. Given(p, mem[c]) /\ c \in Cached
    BY RecordsAre DEF GivenGood
  <2>2. CASE h # Idle /\ c = h.todo[1].cell
    <3>1. 1 \in 1..Len(h.todo) /\ mem'[c] = h.todo[1].val
      BY <1>1, <2>1, <2>2, StepHead
    <3> QED
      BY <2>2, <3>1 DEF GivenSound, Given
  <2>3. CASE ~(h # Idle /\ c = h.todo[1].cell)
    <3>1. mem'[c] = mem[c]
      BY <1>1, <2>1, <2>3
    <3> QED
      BY <1>1, <2>1, <3>1 DEF Given
  <2> QED
    BY <2>2, <2>3
<1>4. ASSUME NEW p \in Approvals PROVE Given(p, tab[<<"approval", p>>])'
  <2> DEFINE c == <<"approval", p>>
  <2>1. Given(p, tab[c]) /\ c \in Cached /\ c[1] \notin {"accounts", "owner"}
    BY RecordsAre DEF GivenGood
  <2>2. CASE Busy(w) /\ TabWritten(w) /\ c = Due(w).cell
    <3>1. tab'[c] = op[w].todo[1].val
      BY <2>1, <2>2, StoredIs, DueIs DEF TabWritten
    <3>2. GivenSound(op[w].todo, granted) /\ op[w].todo[1].cell = c /\ 1 \in 1..Len(op[w].todo)
      BY <2>2, DueIs DEF GivenGood
    <3> QED
      BY <1>1, <3>1, <3>2 DEF GivenSound, Given
  <2>3. CASE ~(Busy(w) /\ TabWritten(w) /\ c = Due(w).cell)
    <3>1. tab'[c] = tab[c]
      BY <2>1, <2>3 DEF TabWritten
    <3> QED
      BY <1>1, <2>1, <3>1 DEF Given
  <2> QED
    BY <2>2, <2>3
<1> QED
  BY <1>2, <1>3, <1>4 DEF GivenGood

LEMMA GivenContinues ==
    ASSUME GivenGood, NEW w \in Workers, NEW h, h = Idle \/ Continues(w, h)
    PROVE  GivenSound(h.todo, granted)
<1>1. CASE h = Idle
  BY <1>1, IdleLen DEF GivenSound
<1>2. CASE Rest(h.todo, op[w].todo)
  <2> DEFINE u == h.todo
             t == op[w].todo
  <2>1. GivenSound(t, granted)
    BY DEF GivenGood
  <2>2. Rest(u, t)
    BY <1>2
  <2> HIDE DEF u, t
  <2> SUFFICES ASSUME NEW p \in Approvals, NEW i \in 1..Len(u), u[i].cell = <<"approval", p>>,
                      u[i].val # None, u[i].val.status = "approved"
               PROVE  p \in granted
    BY DEF GivenSound, u
  <2>3. i + 1 \in 1..Len(t) /\ t[i + 1].cell = <<"approval", p>>
    BY <2>2 DEF Rest
  <2>4. t[i + 1].cell[1] # "zabbix"
    BY <2>3
  <2>5. u[i] = t[i + 1]
    BY <2>2, <2>4 DEF Rest
  <2> QED
    BY <2>1, <2>3, <2>5 DEF GivenSound
<1>3. CASE ForOwner(h.todo)
  BY <1>3 DEF ForOwner, Listed, GivenSound
<1> QED
  BY <1>1, <1>2, <1>3 DEF Continues

LEMMA GivenKept ==
    ASSUME Shape, GivenGood, NEW w \in Workers, NEW h,
           \/ \E ids, given : Begun(w, h, ids, given)
           \/ Saved(w, h) \/ Failed(w, h)
    PROVE  GivenGood'
<1>1. ASSUME NEW ids, NEW given, Begun(w, h, ids, given) PROVE GivenGood'
  <2>1. Step(w, h) /\ UNCHANGED tab /\ granted' = granted \cup given /\ GivenSound(h.todo, given)
    BY <1>1 DEF Begun, Listed
  <2>2. GivenSound(h.todo, granted')
    BY <2>1 DEF GivenSound
  <2> QED
    BY <2>1, <2>2, GivenStep
<1>2. CASE Saved(w, h)
  <2>1. Step(w, h) /\ Busy(w) /\ TabWritten(w) /\ granted' = granted /\ Continues(w, h)
    BY <1>2 DEF Saved
  <2>2. GivenSound(h.todo, granted')
    BY <2>1, GivenContinues
  <2> QED
    BY <2>1, <2>2, GivenStep
<1>3. CASE Failed(w, h)
  <2>1. Step(w, h) /\ UNCHANGED tab /\ granted' = granted /\ (h = Idle \/ Continues(w, h))
    BY <1>3 DEF Failed
  <2>2. GivenSound(h.todo, granted')
    BY <2>1, GivenContinues
  <2> QED
    BY <2>1, <2>2, GivenStep
<1> QED
  BY <1>1, <1>2, <1>3

(* The history of changes is only added to.                                *)
HandsAudit == \A w \in Workers : AuditSound(op[w].todo)

LEMMA AuditContinues ==
    ASSUME HandsAudit, NEW w \in Workers, NEW h, h = Idle \/ Continues(w, h)
    PROVE  AuditSound(h.todo)
<1>1. CASE h = Idle
  BY <1>1, IdleLen DEF AuditSound
<1>2. CASE Rest(h.todo, op[w].todo)
  <2> DEFINE u == h.todo
             t == op[w].todo
  <2>1. AuditSound(t) /\ Rest(u, t)
    BY <1>2 DEF HandsAudit
  <2> HIDE DEF u, t
  <2>2. ASSUME NEW i \in 1..Len(u), u[i].cell[1] = "audit" PROVE u[i].val = TRUE /\ ~u[i].guarded
    <3>1. i + 1 \in 1..Len(t) /\ t[i + 1].cell = u[i].cell
      BY <2>1 DEF Rest
    <3>2. t[i + 1].cell[1] = "audit"
      BY <2>2, <3>1
    <3>3. u[i] = t[i + 1]
      BY <2>1, <3>2 DEF Rest
    <3>4. t[i + 1].val = TRUE /\ ~t[i + 1].guarded
      BY <2>1, <3>1, <3>2, Zenon DEF AuditSound
    <3> QED
      BY <3>3, <3>4, Zenon
  <2>3. AuditSound(u)
    BY <2>2, Zenon DEF AuditSound
  <2> QED
    BY <2>3 DEF u
<1>3. CASE ForOwner(h.todo)
  BY <1>3, Zenon DEF ForOwner, Listed
<1> QED
  BY <1>1, <1>2, <1>3 DEF Continues

LEMMA AuditKept ==
    ASSUME HandsAudit, NEW w \in Workers, NEW h,
           \/ \E ids, given : Begun(w, h, ids, given)
           \/ Saved(w, h) \/ Failed(w, h)
    PROVE  HandsAudit' /\ AuditSound(h.todo)
<1>1. Step(w, h)
  BY DEF Begun, Saved, Failed
<1>2. AuditSound(h.todo)
  <2>1. ASSUME NEW ids, NEW given, Begun(w, h, ids, given) PROVE AuditSound(h.todo)
    BY <2>1, Zenon DEF Begun, Listed
  <2>2. CASE Saved(w, h)
    <3>1. Continues(w, h)
      BY <2>2 DEF Saved
    <3> QED
      BY <3>1, AuditContinues
  <2>3. CASE Failed(w, h)
    <3>1. h = Idle \/ Continues(w, h)
      BY <2>3 DEF Failed
    <3> QED
      BY <3>1, AuditContinues
  <2> QED
    BY <2>1, <2>2, <2>3
<1>3. ASSUME NEW v \in Workers PROVE AuditSound(op'[v].todo)
  <2>1. CASE v = w
    BY <1>1, <1>2, <2>1 DEF Step
  <2>2. CASE v # w
    BY <1>1, <2>2 DEF Step, HandsAudit
  <2> QED
    BY <2>1, <2>2
<1>4. HandsAudit'
  BY <1>3 DEF HandsAudit
<1> QED
  BY <1>2, <1>4

LEMMA SavedEntry ==
    ASSUME Shape, HandsAudit, NEW w \in Workers, Busy(w), TabWritten(w),
           NEW c \in Cached, c = Due(w).cell, c[1] = "audit"
    PROVE  tab'[c] = TRUE
<1>1. Due(w) = op[w].todo[1] /\ 1 \in 1..Len(op[w].todo)
  BY DueIs
<1>2. op[w].todo[1].val = TRUE
  BY <1>1, Zenon DEF HandsAudit, AuditSound
<1>3. PICK val : val = op[w].todo[1].val
  OBVIOUS
<1>4. tab'[c] = Stored(c, val)
  BY <1>1, <1>3 DEF TabWritten
<1>5. Stored(c, val) = val
  BY StoredIs
<1> QED
  BY <1>2, <1>3, <1>4, <1>5, Zenon

LEMMA EntryStays ==
    ASSUME Shape, HandsAudit, NEW w \in Workers, UNCHANGED tab \/ (Busy(w) /\ TabWritten(w)),
           NEW c \in Cached, c[1] = "audit", tab[c] = TRUE
    PROVE  tab'[c] = TRUE
<1>1. CASE UNCHANGED tab
  BY <1>1, Zenon
<1>2. CASE Busy(w) /\ TabWritten(w) /\ c = Due(w).cell
  BY <1>2, SavedEntry, Zenon
<1>3. CASE TabWritten(w) /\ c # Due(w).cell
  <2>1. tab'[c] = tab[c]
    BY <1>3 DEF TabWritten
  <2> QED
    BY <2>1, Zenon
<1> QED
  BY <1>1, <1>2, <1>3, Zenon

HandsOwned == \A w \in Workers : OwnerSound(op[w].todo)

LEMMA ExceptedStays ==
    ASSUME Shape, HandsAudit, NEW w \in Workers, UNCHANGED tab \/ (Busy(w) /\ TabWritten(w))
    PROVE  /\ \A g \in Hosts : Excepted(g) => Excepted(g)'
           /\ \A t : OwnerSound(t) => OwnerSound(t)'
<1>1. ASSUME NEW g \in Hosts, Excepted(g) PROVE Excepted(g)'
  <2> DEFINE c == OwnerEntry(g)
  <2>1. c \in Cached /\ c[1] = "audit"
    BY RecordsAre DEF OwnerEntry
  <2>2. tab[c] = TRUE
    BY <1>1, Zenon DEF Excepted
  <2> HIDE DEF c
  <2>3. tab'[c] = TRUE
    BY <2>1, <2>2, EntryStays, Zenon
  <2> QED
    BY <2>3, Zenon DEF Excepted, c
<1>2. ASSUME NEW t, OwnerSound(t) PROVE OwnerSound(t)'
  BY <1>1, <1>2 DEF OwnerSound
<1> QED
  BY <1>1, <1>2

LEMMA OwnerStep ==
    ASSUME Shape, HandsAudit, OwnersGood, HandsOwned, NEW w \in Workers, NEW h, Step(w, h),
           UNCHANGED tab \/ (Busy(w) /\ TabWritten(w)), NEW u, u = h.todo, OwnerSound(u)'
    PROVE  OwnersGood' /\ HandsOwned'
<1>1. /\ op'[w] = h /\ \A v \in Workers \ {w} : op'[v] = op[v]
      /\ \A c \in Cached : mem'[c] = IF h # Idle /\ c = u[1].cell THEN u[1].val ELSE mem[c]
  BY DEF Step
<1>2. \A g \in Hosts : Excepted(g) => Excepted(g)'
  BY ExceptedStays
<1>3. ASSUME NEW v \in Workers PROVE OwnerSound(op[v].todo)'
  <2>1. PICK t : t = op[v].todo
    OBVIOUS
  <2>2. OwnerSound(t)'
    BY <2>1, ExceptedStays DEF HandsOwned
  <2>3. CASE v = w
    <3>1. op'[v].todo = u
      BY <1>1, <2>3
    <3> QED
      BY <3>1 DEF OwnerSound
  <2>4. CASE v # w
    <3>1. op'[v].todo = t
      BY <1>1, <2>1, <2>4
    <3> QED
      BY <2>2, <3>1 DEF OwnerSound
  <2> QED
    BY <2>3, <2>4
<1>4. ASSUME NEW g \in Hosts PROVE OwnerGood(g, mem[<<"owner", g>>])'
  <2> DEFINE c == <<"owner", g>>
  <2>1. OwnerGood(g, mem[c]) /\ c \in Cached
    BY RecordsAre DEF OwnersGood
  <2>2. CASE h # Idle /\ c = u[1].cell
    <3>1. 1 \in 1..Len(u) /\ mem'[c] = u[1].val
      BY <1>1, <2>1, <2>2, StepHead
    <3>2. u[1].val # None =>
             /\ DOMAIN u[1].val = OwnerFields
             /\ u[1].val.exc = "set" => Excepted(g)' \/ \E j \in 1..(1 - 1) : u[j].cell = OwnerEntry(g)
      BY <2>2, <3>1 DEF OwnerSound
    <3>3. 1..(1 - 1) = {}
      OBVIOUS
    <3>4. PICK x : x = mem'[c]
      OBVIOUS
    <3>5. x # None => DOMAIN x = OwnerFields /\ (x.exc = "set" => Excepted(g)')
      BY <3>1, <3>2, <3>3, <3>4
    <3> QED
      BY <3>4, <3>5 DEF OwnerGood
  <2>3. CASE ~(h # Idle /\ c = u[1].cell)
    <3>1. PICK x : x = mem[c]
      OBVIOUS
    <3>2. mem'[c] = x
      BY <1>1, <2>1, <2>3, <3>1
    <3> QED
      BY <1>2, <2>1, <3>1, <3>2 DEF OwnerGood
  <2> QED
    BY <2>2, <2>3
<1>5. ASSUME NEW g \in Hosts PROVE OwnerGood(g, tab[<<"owner", g>>])'
  <2> DEFINE c == <<"owner", g>>
  <2>1. OwnerGood(g, tab[c]) /\ c \in Cached /\ c[1] = "owner"
    BY RecordsAre DEF OwnersGood
  <2>2. CASE Busy(w) /\ TabWritten(w) /\ c = Due(w).cell
    <3>1. PICK val : val = op[w].todo[1].val
      OBVIOUS
    <3>2. tab'[c] = Stored(c, val)
      BY <2>1, <2>2, <3>1, DueIs DEF TabWritten
    <3>3. OwnerSound(op[w].todo) /\ op[w].todo[1].cell = c /\ 1 \in 1..Len(op[w].todo)
      BY <2>2, DueIs DEF HandsOwned
    <3>4. val # None =>
             /\ DOMAIN val = OwnerFields
             /\ val.exc = "set" => Excepted(g) \/ \E j \in 1..(1 - 1) : op[w].todo[j].cell = OwnerEntry(g)
      BY <3>1, <3>3 DEF OwnerSound
    <3>5. 1..(1 - 1) = {}
      OBVIOUS
    <3>6. CASE val = None
      BY <3>2, <3>6, StoredIs DEF OwnerGood
    <3>7. CASE val # None
      <4>1. Stored(c, val) = [val EXCEPT !.tags = {}]
        BY <2>1, <3>7 DEF Stored, StoredOwner
      <4>2. DOMAIN val = OwnerFields /\ (val.exc = "set" => Excepted(g))
        BY <3>4, <3>5, <3>7
      <4>3. PICK x : x = [val EXCEPT !.tags = {}]
        OBVIOUS
      <4>4. DOMAIN x = OwnerFields /\ x.exc = val.exc
        BY <4>2, <4>3 DEF OwnerFields
      <4>5. tab'[c] = x
        BY <3>2, <4>1, <4>3
      <4> QED
        BY <1>2, <4>2, <4>4, <4>5 DEF OwnerGood
    <3> QED
      BY <3>6, <3>7
  <2>3. CASE ~(Busy(w) /\ TabWritten(w) /\ c = Due(w).cell)
    <3>1. PICK x : x = tab[c]
      OBVIOUS
    <3>2. tab'[c] = x
      BY <2>1, <2>3, <3>1 DEF TabWritten
    <3> QED
      BY <1>2, <2>1, <3>1, <3>2 DEF OwnerGood
  <2> QED
    BY <2>2, <2>3
<1> QED
  BY <1>3, <1>4, <1>5 DEF OwnersGood, HandsOwned

LEMMA OwnerContinues ==
    ASSUME Shape, HandsAudit, HandsOwned, NEW w \in Workers, NEW h,
           Saved(w, h) \/ Failed(w, h), NEW u, u = h.todo
    PROVE  OwnerSound(u)'
<1>1. Busy(w) /\ (UNCHANGED tab \/ TabWritten(w))
  BY DEF Saved, Failed
<1>2. OwnerSound(u) => OwnerSound(u)'
  BY <1>1, ExceptedStays
<1>3. CASE h = Idle
  <2>1. Len(u) = 0
    BY <1>3, IdleLen
  <2> QED
    BY <2>1 DEF OwnerSound
<1>4. CASE ForOwner(u)
  BY <1>2, <1>4 DEF ForOwner, Listed
<1>5. CASE h # Idle /\ Rest(u, op[w].todo)
  <2>1. PICK t : t = op[w].todo
    OBVIOUS
  <2>2. OwnerSound(t) /\ AuditSound(t) /\ Rest(u, t)
    BY <1>5, <2>1, Zenon DEF HandsOwned, HandsAudit
  <2>3. \A g \in Hosts : Excepted(g) => Excepted(g)'
    BY <1>1, ExceptedStays
  <2>4. ASSUME NEW g \in Hosts, t[1].cell = OwnerEntry(g) PROVE Excepted(g)'
    <3>1. OwnerEntry(g) \in Cached /\ OwnerEntry(g)[1] = "audit"
      BY RecordsAre DEF OwnerEntry
    <3>2. Due(w) = t[1] /\ 1 \in 1..Len(t)
      BY <1>1, <2>1, DueIs
    <3>3. CASE Saved(w, h)
      <4>1. TabWritten(w)
        BY <3>3 DEF Saved
      <4>2. tab'[OwnerEntry(g)] = TRUE
        BY <1>1, <2>4, <3>1, <3>2, <4>1, SavedEntry, Zenon
      <4> QED
        BY <4>2, Zenon DEF Excepted, OwnerEntry
    <3>4. CASE Failed(w, h)
      <4>1. Due(w).guarded
        BY <1>5, <3>4 DEF Failed
      <4>2. ~t[1].guarded
        BY <2>2, <2>4, <3>1, <3>2, Zenon DEF AuditSound
      <4> QED
        BY <3>2, <4>1, <4>2, Zenon
    <3> QED
      BY <3>3, <3>4
  <2> SUFFICES ASSUME NEW g \in Hosts, NEW i \in 1..Len(u),
                      u[i].cell = <<"owner", g>>, u[i].val # None
               PROVE  /\ DOMAIN u[i].val = OwnerFields
                      /\ u[i].val.exc = "set" =>
                            Excepted(g)' \/ \E j \in 1..(i - 1) : u[j].cell = OwnerEntry(g)
    BY DEF OwnerSound
  <2>5. i + 1 \in 1..Len(t) /\ t[i + 1].cell = <<"owner", g>> /\ Len(u) = Len(t) - 1
    BY <2>2 DEF Rest
  <2>6. t[i + 1].cell[1] # "zabbix"
    BY <2>5
  <2>7. u[i] = t[i + 1]
    BY <2>2, <2>6 DEF Rest
  <2>8. /\ DOMAIN u[i].val = OwnerFields
        /\ u[i].val.exc = "set" =>
              Excepted(g) \/ \E j \in 1..((i + 1) - 1) : t[j].cell = OwnerEntry(g)
    BY <2>2, <2>5, <2>7 DEF OwnerSound
  <2>9. ASSUME NEW j \in 1..((i + 1) - 1), t[j].cell = OwnerEntry(g), j # 1
        PROVE  \E k \in 1..(i - 1) : u[k].cell = OwnerEntry(g)
    <3>1. j - 1 \in 1..(i - 1) /\ j - 1 \in 1..Len(u) /\ (j - 1) + 1 = j
      BY <2>9
    <3>2. u[j - 1].cell = t[(j - 1) + 1].cell
      BY <2>2, <3>1 DEF Rest
    <3> QED
      BY <2>9, <3>1, <3>2
  <2> QED
    BY <2>3, <2>4, <2>8, <2>9
<1> QED
  BY <1>3, <1>4, <1>5 DEF Saved, Failed, Continues

LEMMA OwnerKept ==
    ASSUME Shape, HandsAudit, OwnersGood, HandsOwned, NEW w \in Workers, NEW h,
           \/ \E ids, given : Begun(w, h, ids, given)
           \/ Saved(w, h) \/ Failed(w, h)
    PROVE  OwnersGood' /\ HandsOwned'
<1>1. Step(w, h) /\ (UNCHANGED tab \/ (Busy(w) /\ TabWritten(w)))
  BY DEF Begun, Saved, Failed
<1>2. PICK u : u = h.todo
  OBVIOUS
<1>3. OwnerSound(u)'
  <2>1. ASSUME NEW ids, NEW given, Begun(w, h, ids, given) PROVE OwnerSound(u)'
    <3>1. OwnerSound(u)
      BY <1>2, <2>1 DEF Begun, Listed
    <3> QED
      BY <1>1, <3>1, ExceptedStays
  <2>2. CASE Saved(w, h) \/ Failed(w, h)
    BY <1>2, <2>2, OwnerContinues
  <2> QED
    BY <2>1, <2>2
<1> QED
  BY <1>1, <1>2, <1>3, OwnerStep

(* An exception of a vulnerability is audited, or on the way there.        *)
HandsVuln == \A w \in Workers : VulnSound(op[w].todo)

LEMMA AuditedStays ==
    ASSUME Shape, HandsAudit, HandsVuln, NEW w \in Workers, NEW h,
           \/ \E ids, given : Begun(w, h, ids, given)
           \/ Saved(w, h) \/ Failed(w, h),
           NEW v \in Vulns, Audited(v)
    PROVE  Audited(v)'
<1> DEFINE c == VulnEntry(v)
<1>1. /\ Step(w, h) /\ (UNCHANGED tab \/ (Busy(w) /\ TabWritten(w)))
      /\ Saved(w, h) \/ Failed(w, h) \/ ~Busy(w)
  BY DEF Begun, Saved, Failed
<1>2. c \in Cached /\ c[1] = "audit"
  BY RecordsAre DEF VulnEntry
<1> HIDE DEF c
<1>3. CASE tab[c] = TRUE
  <2>1. tab'[c] = TRUE
    BY <1>1, <1>2, <1>3, EntryStays, Zenon
  <2> QED
    BY <2>1, Zenon DEF Audited, c, VulnEntry
<1>4. CASE {c, <<"vuln", v>>} \cap doubt # {}
  <2>1. {c, <<"vuln", v>>} \cap doubt' # {}
    BY <1>1, <1>4 DEF Step
  <2> QED
    BY <2>1 DEF Audited, c, VulnEntry
<1>5. CASE \E x \in Workers : Pending(op[x].todo, c)
  <2>0. PICK x \in Workers : Pending(op[x].todo, c)
    BY <1>5
  <2>1. PICK i \in 1..Len(op[x].todo) : op[x].todo[i].cell = c
    BY <2>0 DEF Pending
  <2>2. CASE x # w
    <3>1. op'[x] = op[x]
      BY <1>1, <2>2 DEF Step
    <3>2. Pending(op'[x].todo, c)
      BY <2>1, <3>1 DEF Pending
    <3> QED
      BY <3>2 DEF Audited, c, VulnEntry
  <2>3. CASE x = w
    <3> DEFINE t == op[w].todo
    <3>1. VulnSound(t) /\ i \in 1..Len(t) /\ t[i].cell = c
      BY <2>1, <2>3 DEF HandsVuln
    <3>2. i = 1 \/ (i = 2 /\ t[1].cell = <<"vuln", v>>)
      BY <3>1 DEF VulnSound, c
    <3>3. Busy(w)
      <4>1. op[w] # Idle
        BY <3>1, IdleLen
      <4> QED
        BY <4>1 DEF Busy
    <3>4. Due(w) = t[1]
      BY <3>3, DueIs
    <3> HIDE DEF t
    <3>5. CASE Failed(w, h)
      <4>1. t[1].cell \in doubt'
        BY <3>4, <3>5 DEF Failed
      <4>2. t[1].cell \in {c, <<"vuln", v>>}
        BY <3>1, <3>2
      <4> QED
        BY <4>1, <4>2 DEF Audited, c, VulnEntry
    <3>6. CASE Saved(w, h) /\ i = 1
      <4>1. TabWritten(w) /\ c = Due(w).cell
        BY <3>1, <3>4, <3>6 DEF Saved
      <4>2. tab'[c] = TRUE
        BY <1>2, <3>3, <4>1, SavedEntry, Zenon
      <4> QED
        BY <4>2, Zenon DEF Audited, c, VulnEntry
    <3>7. CASE Saved(w, h) /\ i = 2
      <4>1. Continues(w, h) /\ op'[w] = h
        BY <1>1, <3>7 DEF Saved, Step
      <4>2. Len(t) \in Nat
        BY <3>3, DueIs DEF t
      <4>3. Len(t) # 1
        BY <3>1, <3>7, <4>2
      <4>4. Rest(h.todo, t)
        BY <4>1, <4>3 DEF Continues, t
      <4>5. 1 \in 1..Len(h.todo) /\ h.todo[1].cell = t[2].cell
        <5>1. Len(h.todo) = Len(t) - 1
          BY <4>4 DEF Rest
        <5>2. 1 \in 1..Len(h.todo)
          BY <3>1, <3>7, <4>2, <5>1
        <5>3. 1 + 1 = 2
          OBVIOUS
        <5> QED
          BY <4>4, <5>2, <5>3 DEF Rest
      <4>6. Pending(op'[w].todo, c)
        BY <3>1, <3>7, <4>1, <4>5 DEF Pending
      <4> QED
        BY <4>6 DEF Audited, c, VulnEntry
    <3> QED
      BY <1>1, <3>2, <3>3, <3>5, <3>6, <3>7
  <2> QED
    BY <2>2, <2>3
<1>7. CASE v \in Nameless
  BY <1>7, Zenon DEF Audited
<1>6. v \in Nameless \/ tab[c] = TRUE \/ {c, <<"vuln", v>>} \cap doubt # {} \/ \E x \in Workers : Pending(op[x].todo, c)
  BY Zenon DEF Audited, c
<1> QED
  BY <1>3, <1>4, <1>5, <1>6, <1>7, Zenon

LEMMA VulnContinues ==
    ASSUME HandsVuln, NEW w \in Workers, NEW h, h = Idle \/ Continues(w, h)
    PROVE  \A v \in Vulns : \A i \in 1..Len(h.todo) :
              /\ h.todo[i].cell = VulnEntry(v) => i = 1
              /\ h.todo[i].cell = <<"vuln", v>> /\ h.todo[i].val # None =>
                    /\ DOMAIN h.todo[i].val = VulnFields
                    /\ h.todo[i].val.exc = "set" => Audited(v)
<1>1. CASE h = Idle
  BY <1>1, IdleLen
<1>2. CASE ForOwner(h.todo)
  <2> DEFINE u == h.todo
  <2>1. VulnSound(u) /\ \A i \in 1..Len(u) : u[i].cell[1] \in {"audit", "owner"}
    BY <1>2 DEF ForOwner, Listed
  <2> HIDE DEF u
  <2>2. \A v : <<"vuln", v>>[1] = "vuln"
    OBVIOUS
  <2>3. \A i \in 1..Len(u) : u[i].cell[1] # "vuln"
    BY <2>1
  <2>4. \A v \in Vulns, i \in 1..Len(u) : u[i].cell # <<"vuln", v>>
    BY <2>2, <2>3
  <2>6. \A v \in Vulns, i \in 1..Len(u) : u[i].cell = VulnEntry(v) => i = 1
    <3> SUFFICES ASSUME NEW v \in Vulns, NEW i \in 1..Len(u), u[i].cell = VulnEntry(v)
                 PROVE  i = 1
      OBVIOUS
    <3>1. i = 1 \/ (i = 2 /\ u[1].cell = <<"vuln", v>>)
      BY <2>1 DEF VulnSound
    <3> QED
      BY <2>4, <3>1
  <2> QED
    BY <2>4, <2>6 DEF u
<1>3. CASE Rest(h.todo, op[w].todo)
  <2> DEFINE u == h.todo
             t == op[w].todo
  <2>1. VulnSound(t) /\ Rest(u, t)
    BY <1>3 DEF HandsVuln
  <2>2. \A c : Pending(t, VulnEntry(c)) => Audited(c)
    BY DEF Audited
  <2> HIDE DEF u, t
  <2> SUFFICES ASSUME NEW v \in Vulns, NEW i \in 1..Len(u)
      PROVE  /\ u[i].cell = VulnEntry(v) => i = 1
             /\ u[i].cell = <<"vuln", v>> /\ u[i].val # None =>
                    /\ DOMAIN u[i].val = VulnFields
                    /\ u[i].val.exc = "set" => Audited(v)
    BY DEF u
  <2>3. i + 1 \in 1..Len(t) /\ t[i + 1].cell = u[i].cell
    BY <2>1 DEF Rest
  <2>4. u[i].cell = VulnEntry(v) => i = 1
    BY <2>1, <2>3 DEF VulnSound
  <2>5. ASSUME u[i].cell = <<"vuln", v>>, u[i].val # None
        PROVE  DOMAIN u[i].val = VulnFields /\ (u[i].val.exc = "set" => Audited(v))
    <3>1. t[i + 1].cell[1] # "zabbix"
      BY <2>3, <2>5
    <3>2. u[i] = t[i + 1]
      BY <2>1, <3>1 DEF Rest
    <3> QED
      BY <2>1, <2>2, <2>3, <2>5, <3>2 DEF VulnSound
  <2> QED
    BY <2>4, <2>5
<1> QED
  BY <1>1, <1>2, <1>3 DEF Continues

LEMMA VulnStep ==
    ASSUME Shape, VulnsGood, HandsVuln, NEW w \in Workers, NEW h, Step(w, h),
           UNCHANGED tab \/ (Busy(w) /\ TabWritten(w)),
           \A v \in Vulns : Audited(v) => Audited(v)', NEW u, u = h.todo, VulnSound(u)'
    PROVE  VulnsGood' /\ HandsVuln'
<1>1. /\ op'[w] = h /\ \A v \in Workers \ {w} : op'[v] = op[v]
      /\ \A c \in Cached : mem'[c] = IF h # Idle /\ c = u[1].cell THEN u[1].val ELSE mem[c]
  BY DEF Step
<1>2. \A v : Pending(u, VulnEntry(v)) => Audited(v)'
  <2> SUFFICES ASSUME NEW v, Pending(u, VulnEntry(v)) PROVE Audited(v)'
    OBVIOUS
  <2>1. Pending(op'[w].todo, VulnEntry(v))
    BY <1>1
  <2> QED
    BY <2>1 DEF Audited, VulnEntry
<1>3. ASSUME NEW x \in Workers PROVE VulnSound(op[x].todo)'
  <2>1. PICK t : t = op[x].todo
    OBVIOUS
  <2>2. VulnSound(t)'
    <3>1. VulnSound(t)
      BY <2>1 DEF HandsVuln
    <3> QED
      BY <3>1 DEF VulnSound, VulnEntry, Pending
  <2>3. CASE x = w
    <3>1. op'[x].todo = u
      BY <1>1, <2>3
    <3> QED
      BY <3>1 DEF VulnSound
  <2>4. CASE x # w
    <3>1. op'[x].todo = t
      BY <1>1, <2>1, <2>4
    <3> QED
      BY <2>2, <3>1 DEF VulnSound
  <2> QED
    BY <2>3, <2>4
<1>4. ASSUME NEW v \in Vulns PROVE VulnGood(v, mem[<<"vuln", v>>])'
  <2> DEFINE c == <<"vuln", v>>
  <2>1. VulnGood(v, mem[c]) /\ c \in Cached
    BY RecordsAre DEF VulnsGood
  <2>2. CASE h # Idle /\ c = u[1].cell
    <3>1. 1 \in 1..Len(u) /\ mem'[c] = u[1].val
      BY <1>1, <2>1, <2>2, StepHead
    <3>2. u[1].val # None =>
             /\ DOMAIN u[1].val = VulnFields
             /\ u[1].val.exc = "set" => Audited(v)' \/ Pending(u, VulnEntry(v))
      BY <2>2, <3>1 DEF VulnSound
    <3>3. PICK x : x = mem'[c]
      OBVIOUS
    <3>4. x # None => DOMAIN x = VulnFields /\ (x.exc = "set" => Audited(v)')
      BY <1>2, <3>1, <3>2, <3>3
    <3> QED
      BY <3>3, <3>4 DEF VulnGood
  <2>3. CASE ~(h # Idle /\ c = u[1].cell)
    <3>1. PICK x : x = mem[c]
      OBVIOUS
    <3>2. mem'[c] = x
      BY <1>1, <2>1, <2>3, <3>1
    <3> QED
      BY <2>1, <3>1, <3>2 DEF VulnGood
  <2> QED
    BY <2>2, <2>3
<1>5. ASSUME NEW v \in Vulns PROVE VulnGood(v, tab[<<"vuln", v>>])'
  <2> DEFINE c == <<"vuln", v>>
  <2>1. VulnGood(v, tab[c]) /\ c \in Cached /\ c[1] = "vuln"
    BY RecordsAre DEF VulnsGood
  <2>2. CASE Busy(w) /\ TabWritten(w) /\ c = Due(w).cell
    <3>1. PICK val : val = op[w].todo[1].val
      OBVIOUS
    <3>2. tab'[c] = val
      BY <2>1, <2>2, <3>1, DueIs, StoredIs DEF TabWritten
    <3>3. VulnSound(op[w].todo) /\ op[w].todo[1].cell = c /\ 1 \in 1..Len(op[w].todo)
      BY <2>2, DueIs DEF HandsVuln
    <3>4. Pending(op[w].todo, VulnEntry(v)) => Audited(v)
      BY DEF Audited
    <3>5. val # None => DOMAIN val = VulnFields /\ (val.exc = "set" => Audited(v))
      BY <3>1, <3>3, <3>4 DEF VulnSound
    <3> QED
      BY <3>2, <3>5 DEF VulnGood
  <2>3. CASE ~(Busy(w) /\ TabWritten(w) /\ c = Due(w).cell)
    <3>1. PICK x : x = tab[c]
      OBVIOUS
    <3>2. tab'[c] = x
      BY <2>1, <2>3, <3>1 DEF TabWritten
    <3> QED
      BY <2>1, <3>1, <3>2 DEF VulnGood
  <2> QED
    BY <2>2, <2>3
<1> QED
  BY <1>3, <1>4, <1>5 DEF VulnsGood, HandsVuln

LEMMA VulnKept ==
    ASSUME Shape, HandsAudit, VulnsGood, HandsVuln, NEW w \in Workers, NEW h,
           \/ \E ids, given : Begun(w, h, ids, given)
           \/ Saved(w, h) \/ Failed(w, h)
    PROVE  VulnsGood' /\ HandsVuln'
<1>1. Step(w, h) /\ (UNCHANGED tab \/ (Busy(w) /\ TabWritten(w)))
  BY DEF Begun, Saved, Failed
<1>2. \A v \in Vulns : Audited(v) => Audited(v)'
  BY AuditedStays
<1>3. PICK u : u = h.todo
  OBVIOUS
<1>4. VulnSound(u)'
  <2>1. ASSUME NEW ids, NEW given, Begun(w, h, ids, given) PROVE VulnSound(u)'
    <3>1. VulnSound(u)
      BY <1>3, <2>1 DEF Begun, Listed
    <3> QED
      BY <1>2, <3>1 DEF VulnSound, VulnEntry, Pending
  <2>2. CASE Saved(w, h) \/ Failed(w, h)
    <3>1. h = Idle \/ Continues(w, h)
      BY <2>2 DEF Saved, Failed
    <3>2. \A v \in Vulns : \A i \in 1..Len(u) :
              /\ u[i].cell = VulnEntry(v) => i = 1
              /\ u[i].cell = <<"vuln", v>> /\ u[i].val # None =>
                    /\ DOMAIN u[i].val = VulnFields
                    /\ u[i].val.exc = "set" => Audited(v)
      BY <1>3, <3>1, VulnContinues
    <3> QED
      BY <1>2, <3>2 DEF VulnSound, VulnEntry
  <2> QED
    BY <2>1, <2>2
<1> QED
  BY <1>1, <1>2, <1>3, <1>4, VulnStep

(* What Zabbix is told is in the history that memory holds.                *)
Backs(a, s) == <<"triage", a>> \in doubt \/ Told(mem[<<"triage", a>>], s)

HandTriage(t) ==
    \A a \in Alerts : \A i \in 1..Len(t) :
        /\ t[i].cell = <<"triage", a>> =>
              i = 1 /\ t[i].val \in Triages /\ Told(t[i].val, t[i].val.status)
        /\ t[i].cell = <<"zabbix", a>> =>
              \/ i # 1 /\ mem[<<"triage", a>>] # None /\ t[i].val = "present"
              \/ i = 1 /\ Backs(a, t[i].val)

HandsTriage == \A w \in Workers : HandTriage(op[w].todo)

ToldBacked ==
    \A a \in Alerts : tab[<<"zabbix", a>>] # None => Backs(a, tab[<<"zabbix", a>>])

LEMMA TriageNext ==
    ASSUME HandsTriage, NEW w \in Workers, NEW h,
           Saved(w, h) \/ Failed(w, h), NEW a \in Alerts,
           h # Idle, h.todo[1].cell = <<"triage", a>>
    PROVE  FALSE
<1>1. Continues(w, h) /\ Step(w, h)
  BY DEF Saved, Failed
<1>2. 1 \in 1..Len(h.todo)
  BY <1>1, StepHead
<1>3. h.todo[1].cell[1] = "triage"
  OBVIOUS
<1>4. CASE ForOwner(h.todo)
  <2>1. h.todo[1].cell[1] \in {"audit", "owner"}
    BY <1>2, <1>4 DEF ForOwner
  <2> QED
    BY <1>3, <2>1
<1>5. CASE Rest(h.todo, op[w].todo)
  <2>1. 1 + 1 \in 1..Len(op[w].todo) /\ op[w].todo[1 + 1].cell = <<"triage", a>>
    BY <1>2, <1>5 DEF Rest
  <2>2. 1 + 1 = 1
    BY <2>1 DEF HandsTriage, HandTriage
  <2> QED
    BY <2>2
<1> QED
  BY <1>1, <1>4, <1>5 DEF Continues

LEMMA BacksStays ==
    ASSUME HandsTriage, NEW w \in Workers, NEW h,
           \/ \E ids, given : Begun(w, h, ids, given)
           \/ Saved(w, h) \/ Failed(w, h),
           NEW a \in Alerts, NEW s, Backs(a, s)
    PROVE  Backs(a, s)'
<1> DEFINE c == <<"triage", a>>
<1>1. Step(w, h)
  BY DEF Begun, Saved, Failed
<1>2. /\ \A e \in Cached : mem'[e] = IF h # Idle /\ e = h.todo[1].cell THEN h.todo[1].val ELSE mem[e]
      /\ doubt \subseteq doubt' /\ c \in Cached
  BY <1>1, RecordsAre DEF Step
<1>3. CASE c \in doubt
  BY <1>2, <1>3 DEF Backs
<1>4. CASE Told(mem[c], s) /\ ~(h # Idle /\ c = h.todo[1].cell)
  <2>1. mem'[c] = mem[c]
    BY <1>2, <1>4
  <2> QED
    BY <1>4, <2>1 DEF Backs, Told
<1>5. CASE Told(mem[c], s) /\ h # Idle /\ c = h.todo[1].cell
  <2>1. PICK ids, given : Begun(w, h, ids, given)
    BY <1>5, TriageNext
  <2>2. TriageSound(h.todo)
    BY <2>1 DEF Begun, Listed
  <2>3. 1 \in 1..Len(h.todo)
    BY <1>1, <1>5, StepHead
  <2>4. Told(h.todo[1].val, s)
    BY <1>5, <2>2, <2>3 DEF TriageSound
  <2>5. mem'[c] = h.todo[1].val
    BY <1>2, <1>5
  <2> QED
    BY <2>4, <2>5 DEF Backs, Told
<1> QED
  BY <1>3, <1>4, <1>5 DEF Backs

LEMMA TriageContinues ==
    ASSUME Shape, TriagesGood, HandsTriage, NEW w \in Workers, NEW h,
           Saved(w, h) \/ Failed(w, h), NEW u, u = h.todo
    PROVE  HandTriage(u)'
<1>1. Step(w, h) /\ Busy(w)
  BY DEF Saved, Failed
<1>2. CASE h = Idle
  <2>1. Len(u) = 0
    BY <1>2, IdleLen
  <2> QED
    BY <2>1 DEF HandTriage
<1>3. CASE ForOwner(u)
  <2>1. \A i \in 1..Len(u) : u[i].cell[1] \in {"audit", "owner"}
    BY <1>3 DEF ForOwner
  <2>2. \A i \in 1..Len(u) : u[i].cell[1] # "triage" /\ u[i].cell[1] # "zabbix"
    BY <2>1
  <2>3. ASSUME NEW a, NEW i \in 1..Len(u)
        PROVE  u[i].cell # <<"triage", a>> /\ u[i].cell # <<"zabbix", a>>
    <3>1. <<"triage", a>>[1] = "triage" /\ <<"zabbix", a>>[1] = "zabbix"
      OBVIOUS
    <3> QED
      BY <2>2, <3>1
  <2> QED
    BY <2>3 DEF HandTriage
<1>4. CASE /\ Len(op[w].todo) > 1 /\ h # Idle
           /\ h.todo = At(mem, Tail(op[w].todo)) /\ Rest(h.todo, op[w].todo)
  <2>1. PICK t : t = op[w].todo
    OBVIOUS
  <2>2. /\ HandTriage(t) /\ Rest(u, t) /\ IsList(t) /\ t # <<>> /\ Due(w) = t[1]
        /\ 1 \in 1..Len(t)
    BY <1>1, <1>4, <2>1, DueIs, BusyIs DEF HandsTriage, Shape, IsHand, Busy
  <2> SUFFICES ASSUME NEW a \in Alerts, NEW i \in 1..Len(u)
      PROVE  /\ u[i].cell # <<"triage", a>>
             /\ u[i].cell = <<"zabbix", a>> =>
                   \/ i # 1 /\ mem'[<<"triage", a>>] # None /\ u[i].val = "present"
                   \/ i = 1 /\ Backs(a, u[i].val)'
    BY DEF HandTriage
  <2> DEFINE c == <<"triage", a>>
  <2>3. i + 1 \in 1..Len(t) /\ t[i + 1].cell = u[i].cell /\ i \in Nat /\ i + 1 # 1
    BY <2>2 DEF Rest
  <2>4. ASSUME NEW j \in 1..Len(u) PROVE u[j].cell # c
    <3>1. j + 1 \in 1..Len(t) /\ t[j + 1].cell = u[j].cell /\ j + 1 # 1
      BY <2>2 DEF Rest
    <3> QED
      BY <2>2, <3>1 DEF HandTriage
  <2>5. ASSUME u[i].cell = <<"zabbix", a>>
        PROVE  \/ i # 1 /\ mem'[c] # None /\ u[i].val = "present"
               \/ i = 1 /\ Backs(a, u[i].val)'
    <3>1. mem[c] # None /\ t[i + 1].val = "present"
      BY <2>2, <2>3, <2>5 DEF HandTriage
    <3>2. mem'[c] = mem[c]
      <4>1. 1 \in 1..Len(u)
        BY <2>3
      <4>2. c # h.todo[1].cell
        BY <2>4, <4>1
      <4> QED
        BY <1>1, <4>2, RecordsAre DEF Step
    <3>3. CASE i # 1
      <4>1. u[i] = t[i + 1]
        BY <2>2, <3>3 DEF Rest
      <4> QED
        BY <3>1, <3>2, <3>3, <4>1
    <3>4. CASE i = 1
      <4>1. t[2].cell = <<"zabbix", a>> /\ t[2].val = "present"
        BY <2>3, <2>5, <3>1, <3>4
      <4>2. PICK r : r = Tail(t)
        OBVIOUS
      <4>3. IsList(r) /\ r # <<>> /\ r[1] = t[2]
        <5>1. /\ IsList(r) /\ Len(r) = Len(t) - 1
              /\ \A j \in 1..Len(r) : j + 1 \in 1..Len(t) /\ r[j] = t[j + 1]
          BY <2>2, <4>2, RestIs
        <5>2. Len(t) \in Nat /\ 2 \in 1..Len(t)
          BY <2>2, <2>3, <3>4, ListIs
        <5>3. Len(r) # 0 /\ 1 \in 1..Len(r)
          BY <5>1, <5>2
        <5>4. r[1] = t[1 + 1]
          BY <5>1, <5>3
        <5> QED
          BY <5>1, <5>3, <5>4, ListIs
      <4>4. u = At(mem, r)
        BY <1>4, <2>1, <4>2
      <4>5. /\ r[1].cell = <<"zabbix", a>> /\ r[1].val = "present"
            /\ r[1].cell[1] = "zabbix" /\ r[1].cell[2] = a
        BY <4>1, <4>3
      <4>6. u[1].val = mem[c].status
        <5>1. At(mem, r)[1].val = mem[<<"triage", r[1].cell[2]>>].status
          BY <4>3, <4>5, AtIs
        <5>2. PICK k : k = r[1].cell[2]
          OBVIOUS
        <5>3. k = a
          BY <4>5, <5>2
        <5> QED
          BY <4>4, <5>1, <5>2, <5>3
      <4>7. Told(mem[c], mem[c].status)
        BY <3>1 DEF TriagesGood, TriageGood
      <4>8. PICK s : s = u[i].val
        OBVIOUS
      <4>9. Told(mem'[c], s)
        BY <3>2, <3>4, <4>6, <4>7, <4>8 DEF Told
      <4> QED
        BY <3>4, <4>8, <4>9 DEF Backs, Told
    <3> QED
      BY <3>3, <3>4
  <2> QED
    BY <2>4, <2>5
<1> QED
  BY <1>2, <1>3, <1>4 DEF Saved, Failed, Continues

LEMMA TriageKept ==
    ASSUME Shape, HandsTriage, TriagesGood, ToldBacked, NEW w \in Workers, NEW h,
           \/ \E ids, given : Begun(w, h, ids, given)
           \/ Saved(w, h) \/ Failed(w, h)
    PROVE  HandsTriage' /\ TriagesGood' /\ ToldBacked'
<1>1. Step(w, h) /\ (UNCHANGED tab \/ (Busy(w) /\ TabWritten(w)))
  BY DEF Begun, Saved, Failed
<1>2. /\ op'[w] = h /\ \A v \in Workers \ {w} : op'[v] = op[v]
      /\ \A c \in Cached : mem'[c] = IF h # Idle /\ c = h.todo[1].cell THEN h.todo[1].val ELSE mem[c]
  BY <1>1 DEF Step
<1>3. \A a \in Alerts : \A s : Backs(a, s) => Backs(a, s)'
  BY BacksStays
<1>4. PICK u : u = h.todo
  OBVIOUS
<1>5. HandTriage(u)'
  <2>1. ASSUME NEW ids, NEW given, Begun(w, h, ids, given) PROVE HandTriage(u)'
    <3>1. TriageSound(u) /\ h # Idle
      BY <1>4, <2>1 DEF Begun, Listed
    <3>2. ASSUME NEW a \in Alerts, u[1].cell = <<"triage", a>>
          PROVE  mem'[<<"triage", a>>] # None
      <4>1. 1 \in 1..Len(u) /\ mem'[<<"triage", a>>] = u[1].val
        BY <1>1, <1>2, <1>4, <3>1, <3>2, RecordsAre, StepHead
      <4>2. u[1].val \in Triages
        BY <3>1, <3>2, <4>1 DEF TriageSound
      <4> QED
        BY <4>1, <4>2, NoneAssumption
    <3> QED
      BY <3>1, <3>2 DEF TriageSound, HandTriage
  <2>2. CASE Saved(w, h) \/ Failed(w, h)
    BY <1>4, <2>2, TriageContinues
  <2> QED
    BY <2>1, <2>2
<1>12. ASSUME NEW a \in Alerts, mem[<<"triage", a>>] # None
       PROVE  mem'[<<"triage", a>>] # None
  <2> DEFINE c == <<"triage", a>>
  <2>1. c \in Cached
    BY RecordsAre
  <2>2. CASE h # Idle /\ c = h.todo[1].cell
    <3>1. 1 \in 1..Len(u) /\ mem'[c] = u[1].val /\ u[1].cell = c
      BY <1>1, <1>2, <1>4, <2>1, <2>2, StepHead
    <3>2. u[1].val \in Triages
      BY <1>5, <3>1 DEF HandTriage
    <3> QED
      BY <3>1, <3>2, NoneAssumption
  <2>3. CASE ~(h # Idle /\ c = h.todo[1].cell)
    BY <1>2, <1>12, <2>1, <2>3
  <2> QED
    BY <2>2, <2>3
<1>6. ASSUME NEW x \in Workers PROVE HandTriage(op[x].todo)'
  <2>1. PICK t : t = op[x].todo
    OBVIOUS
  <2>2. HandTriage(t)'
    <3>1. HandTriage(t)
      BY <2>1 DEF HandsTriage
    <3> QED
      BY <1>3, <1>12, <3>1 DEF HandTriage
  <2>3. CASE x = w
    <3>1. op'[x].todo = u
      BY <1>2, <1>4, <2>3
    <3> QED
      BY <1>5, <3>1 DEF HandTriage
  <2>4. CASE x # w
    <3>1. op'[x].todo = t
      BY <1>2, <2>1, <2>4
    <3> QED
      BY <2>2, <3>1 DEF HandTriage
  <2> QED
    BY <2>3, <2>4
<1>7. ASSUME NEW a \in Alerts
      PROVE  TriageGood(mem'[<<"triage", a>>]) /\ TriageGood(tab'[<<"triage", a>>])
  <2> DEFINE c == <<"triage", a>>
  <2>1. /\ TriageGood(mem[c]) /\ TriageGood(tab[c]) /\ c \in Cached
        /\ c[1] \notin {"accounts", "owner"}
    BY RecordsAre DEF TriagesGood
  <2>2. TriageGood(mem'[c])
    <3>1. CASE h # Idle /\ c = h.todo[1].cell
      <4>1. 1 \in 1..Len(u) /\ mem'[c] = u[1].val /\ u[1].cell = c
        BY <1>1, <1>2, <1>4, <2>1, <3>1, StepHead
      <4>2. u[1].val \in Triages /\ Told(u[1].val, u[1].val.status)
        BY <1>5, <4>1 DEF HandTriage
      <4> QED
        BY <4>1, <4>2 DEF TriageGood
    <3>2. CASE ~(h # Idle /\ c = h.todo[1].cell)
      <4>1. mem'[c] = mem[c]
        BY <1>2, <2>1, <3>2
      <4> QED
        BY <2>1, <4>1
    <3> QED
      BY <3>1, <3>2
  <2>3. TriageGood(tab'[c])
    <3>1. CASE Busy(w) /\ TabWritten(w) /\ c = Due(w).cell
      <4>1. /\ tab'[c] = op[w].todo[1].val /\ op[w].todo[1].cell = c
            /\ 1 \in 1..Len(op[w].todo)
        BY <2>1, <3>1, DueIs, StoredIs DEF TabWritten
      <4>2. HandTriage(op[w].todo)
        BY DEF HandsTriage
      <4> QED
        BY <4>1, <4>2 DEF HandTriage, TriageGood
    <3>2. CASE ~(Busy(w) /\ TabWritten(w) /\ c = Due(w).cell)
      <4>1. tab'[c] = tab[c]
        BY <1>1, <2>1, <3>2 DEF TabWritten
      <4> QED
        BY <2>1, <4>1
    <3> QED
      BY <3>1, <3>2
  <2> QED
    BY <2>2, <2>3
<1>8. ASSUME NEW a \in Alerts, tab'[<<"zabbix", a>>] # None
      PROVE  Backs(a, tab[<<"zabbix", a>>])'
  <2> DEFINE c == <<"zabbix", a>>
  <2>1. c \in External /\ c[1] \notin {"accounts", "owner"}
    BY RecordsAre
  <2>2. PICK s : s = tab'[c]
    OBVIOUS
  <2>3. Backs(a, s)
    <3>1. CASE Busy(w) /\ TabWritten(w) /\ c = Due(w).cell
      <4>1. /\ tab'[c] = op[w].todo[1].val /\ op[w].todo[1].cell = c
            /\ 1 \in 1..Len(op[w].todo)
        BY <2>1, <3>1, DueIs, StoredIs DEF TabWritten
      <4>2. HandTriage(op[w].todo)
        BY DEF HandsTriage
      <4> QED
        BY <2>2, <4>1, <4>2 DEF HandTriage
    <3>2. CASE ~(Busy(w) /\ TabWritten(w) /\ c = Due(w).cell)
      <4>1. tab'[c] = tab[c]
        BY <1>1, <2>1, <3>2 DEF TabWritten
      <4> QED
        BY <1>8, <2>2, <4>1 DEF ToldBacked
    <3> QED
      BY <3>1, <3>2
  <2>4. Backs(a, s)'
    BY <1>3, <2>3
  <2> QED
    BY <2>2, <2>4 DEF Backs, Told
<1>9. HandsTriage'
  BY <1>6 DEF HandsTriage
<1>10. TriagesGood'
  BY <1>7 DEF TriagesGood, TriageGood, Told, Triages
<1>11. ToldBacked'
  BY <1>8 DEF ToldBacked
<1> QED
  BY <1>9, <1>10, <1>11

-----------------------------------------------------------------------------
(* Fresh ids are new, and what is gone stays gone *)

InList(c, t) == \E i \in 1..Len(t) : t[i].cell = c
InHands(c) == \E v \in Workers : InList(c, op[v].todo)
Absents(c) == mem[c] = None /\ tab[c] = None

Unheard == \A c \in Unique : c[2] \notin used => Absents(c) /\ c \notin gone /\ ~InHands(c)

(* A record that is not written first is new, and written by no one else.  *)
Later ==
    \A w \in Workers : \A i \in 1..Len(op[w].todo) :
        i # 1 /\ op[w].todo[i].cell \in Unique =>
            /\ Absents(op[w].todo[i].cell) /\ op[w].todo[i].cell \notin gone
            /\ \A v \in Workers : \A j \in 1..Len(op[v].todo) :
                  op[v].todo[j].cell = op[w].todo[i].cell => v = w /\ j = i

Ended == \A c \in gone \ doubt : c \in Unique /\ Absents(c) /\ ~InHands(c)

LEMMA BegunUnique ==
    ASSUME Unheard, Later, Ended, NEW w \in Workers, NEW h, NEW ids, NEW given,
           Begun(w, h, ids, given)
    PROVE  Unheard' /\ Later' /\ Ended'
<1>1. /\ Step(w, h) /\ ~Busy(w) /\ h # Idle /\ UNCHANGED <<tab, gone>>
      /\ ids \cap used = {} /\ used' = used \cup ids /\ UniqueSound(h.todo, ids)
  BY DEF Begun
<1>2. /\ op'[w] = h /\ \A v \in Workers \ {w} : op'[v] = op[v]
      /\ \A c \in Cached : mem'[c] = IF h # Idle /\ c = h.todo[1].cell THEN h.todo[1].val ELSE mem[c]
      /\ doubt \subseteq doubt'
  BY <1>1 DEF Step
<1>3. PICK u : u = h.todo
  OBVIOUS
<1>4. 1 \in 1..Len(u)
  BY <1>1, <1>3, StepHead
<1>5. ASSUME NEW c \in Unique, ~InList(c, u) PROVE mem'[c] = mem[c]
  <2>1. c # u[1].cell
    BY <1>4, <1>5 DEF InList
  <2> QED
    BY <1>2, <1>3, <2>1, UniqueStores
<1>6. ASSUME NEW i \in 1..Len(u), u[i].cell \in Unique
      PROVE  /\ u[i].cell[2] \notin used \/ (i = 1 /\ mem[u[i].cell] # None)
             /\ \A j \in 1..Len(u) : u[j].cell = u[i].cell => j = i
  BY <1>1, <1>3, <1>6 DEF UniqueSound
<1>7. ASSUME NEW c, ~InHands(c), ~InList(c, u) PROVE ~InHands(c)'
  <2>1. \A v \in Workers : ~InList(c, op'[v].todo)
    BY <1>2, <1>3, <1>7 DEF InHands
  <2> QED
    BY <2>1 DEF InHands, InList
<1>8. ASSUME NEW c \in Unique, c[2] \notin used' PROVE (Absents(c) /\ c \notin gone /\ ~InHands(c))'
  <2>1. Absents(c) /\ c \notin gone /\ ~InHands(c)
    BY <1>1, <1>8 DEF Unheard
  <2>2. ~InList(c, u)
    <3> SUFFICES ASSUME NEW i \in 1..Len(u), u[i].cell = c PROVE FALSE
      BY DEF InList
    <3>1. u[i].cell[2] \in ids \/ mem[u[i].cell] # None
      BY <1>1, <1>3 DEF UniqueSound
    <3> QED
      BY <1>1, <1>8, <2>1, <3>1 DEF Absents
  <2> QED
    BY <1>1, <1>5, <1>7, <2>1, <2>2 DEF Absents
<1>9. ASSUME NEW v \in Workers, NEW i \in 1..Len(op'[v].todo), i # 1,
             NEW c, c = op'[v].todo[i].cell, c \in Unique
      PROVE  /\ Absents(c)' /\ c \notin gone'
             /\ \A x \in Workers : \A j \in 1..Len(op'[x].todo) : op'[x].todo[j].cell = c => x = v /\ j = i
  <2>1. CASE v = w
    <3>1. i \in 1..Len(u) /\ u[i].cell = c
      BY <1>2, <1>3, <1>9, <2>1
    <3>2. c[2] \notin used /\ \A j \in 1..Len(u) : u[j].cell = c => j = i
      BY <1>6, <1>9, <3>1
    <3>3. Absents(c) /\ c \notin gone /\ ~InHands(c)
      BY <1>9, <3>2 DEF Unheard
    <3>4. mem'[c] = mem[c]
      <4>1. c # u[1].cell
        BY <1>4, <1>9, <3>2
      <4> QED
        BY <1>2, <1>3, <1>9, <4>1, UniqueStores
    <3>5. ASSUME NEW x \in Workers, NEW j \in 1..Len(op'[x].todo), op'[x].todo[j].cell = c
          PROVE  x = v /\ j = i
      <4>1. x = w
        BY <1>2, <3>3, <3>5 DEF InHands, InList
      <4> QED
        BY <1>2, <1>3, <2>1, <3>2, <3>5, <4>1
    <3> QED
      BY <1>1, <3>3, <3>4, <3>5 DEF Absents
  <2>2. CASE v # w
    <3>1. i \in 1..Len(op[v].todo) /\ op[v].todo[i].cell = c
      BY <1>2, <1>9, <2>2
    <3>2. /\ Absents(c) /\ c \notin gone
          /\ \A x \in Workers : \A j \in 1..Len(op[x].todo) : op[x].todo[j].cell = c => x = v /\ j = i
      BY <1>9, <3>1 DEF Later
    <3>3. ~InList(c, u)
      <4> SUFFICES ASSUME NEW k \in 1..Len(u), u[k].cell = c PROVE FALSE
        BY DEF InList
      <4>1. c[2] \notin used
        BY <1>6, <1>9, <3>2 DEF Absents
      <4>2. InHands(c)
        BY <3>1 DEF InHands, InList
      <4> QED
        BY <1>9, <4>1, <4>2 DEF Unheard
    <3>4. mem'[c] = mem[c]
      BY <1>5, <1>9, <3>3
    <3>5. ASSUME NEW x \in Workers, NEW j \in 1..Len(op'[x].todo), op'[x].todo[j].cell = c
          PROVE  x = v /\ j = i
      <4>1. x # w
        BY <1>2, <1>3, <3>3, <3>5 DEF InList
      <4> QED
        BY <1>2, <3>2, <3>5, <4>1
    <3> QED
      BY <1>1, <3>2, <3>4, <3>5 DEF Absents
  <2> QED
    BY <2>1, <2>2
<1>10. ASSUME NEW c \in gone' \ doubt' PROVE (c \in Unique /\ Absents(c) /\ ~InHands(c))'
  <2>1. c \in gone /\ c \in Unique /\ Absents(c) /\ ~InHands(c)
    BY <1>1, <1>2 DEF Ended
  <2>2. ~InList(c, u)
    <3> SUFFICES ASSUME NEW k \in 1..Len(u), u[k].cell = c PROVE FALSE
      BY DEF InList
    <3>1. c[2] \notin used
      BY <1>6, <2>1 DEF Absents
    <3> QED
      BY <2>1, <3>1 DEF Unheard
  <2> QED
    BY <1>1, <1>5, <1>7, <2>1, <2>2 DEF Absents
<1>11. Unheard'
  BY <1>8 DEF Unheard
<1>12. Later'
  BY <1>9 DEF Later
<1>13. Ended'
  BY <1>10 DEF Ended
<1> QED
  BY <1>11, <1>12, <1>13

LEMMA WroteUnique ==
    ASSUME Shape, Written, Unheard, Later, Ended, NEW w \in Workers, NEW h,
           Saved(w, h) \/ Failed(w, h)
    PROVE  Unheard' /\ Later' /\ Ended'
<1>1. /\ Step(w, h) /\ Busy(w) /\ used' = used /\ (h = Idle \/ Continues(w, h))
      /\ UNCHANGED tab \/ TabWritten(w)
      /\ gone' = gone \/ (/\ Saved(w, h) /\ Due(w).cell \in Unique /\ Due(w).val = None
                          /\ gone' = gone \cup {Due(w).cell})
  BY DEF Saved, Failed
<1>2. /\ op'[w] = h /\ \A v \in Workers \ {w} : op'[v] = op[v]
      /\ \A c \in Cached : mem'[c] = IF h # Idle /\ c = h.todo[1].cell THEN h.todo[1].val ELSE mem[c]
      /\ doubt \subseteq doubt'
  BY <1>1 DEF Step
<1>3. PICK u, t : u = h.todo /\ t = op[w].todo
  OBVIOUS
<1>4. Due(w) = t[1] /\ 1 \in 1..Len(t)
  BY <1>1, <1>3, DueIs
<1>5. h # Idle => 1 \in 1..Len(u)
  BY <1>1, <1>3, StepHead
(* What the next hand has of unique records, the present one has.          *)
<1>6. ASSUME NEW i \in 1..Len(u), u[i].cell \in Unique
      PROVE  i + 1 \in 1..Len(t) /\ t[i + 1].cell = u[i].cell
  <2>1. CASE h = Idle
    BY <1>3, <2>1, IdleLen
  <2>2. CASE Rest(u, t)
    BY <2>2 DEF Rest
  <2>3. CASE ForOwner(u)
    BY <1>6, <2>3 DEF ForOwner
  <2> QED
    BY <1>1, <1>3, <2>1, <2>2, <2>3 DEF Continues
<1>7. ASSUME NEW c \in Unique, c # t[1].cell PROVE tab'[c] = tab[c] /\ (c \in gone' => c \in gone)
  <2>1. c \in Cached
    BY DEF Cached
  <2> QED
    BY <1>1, <1>4, <1>7, <2>1 DEF TabWritten
<1>8. ASSUME NEW c \in Unique, ~(1 \in 1..Len(u) /\ c = u[1].cell) PROVE mem'[c] = mem[c]
  <2>1. c \in Cached
    BY DEF Cached
  <2> QED
    BY <1>2, <1>3, <1>5, <1>8, <2>1
<1>9. InHands(t[1].cell)
  BY <1>3, <1>4 DEF InHands, InList
<1>10. ASSUME NEW c \in Unique, ~InList(c, u), \A v \in Workers \ {w} : ~InList(c, op[v].todo)
       PROVE  ~InHands(c)'
  <2>1. \A v \in Workers : ~InList(c, op'[v].todo)
    BY <1>2, <1>3, <1>10
  <2> QED
    BY <2>1 DEF InHands, InList
<1>11. ASSUME NEW c \in Unique, ~InHands(c) PROVE ~InList(c, u)
  BY <1>3, <1>6, <1>11 DEF InHands, InList
(* What no hand has stays as it is.                                        *)
<1>12. ASSUME NEW c \in Unique, Absents(c), ~InHands(c)
       PROVE  Absents(c)' /\ ~InHands(c)' /\ (c \in gone' => c \in gone)
  <2>1. c # t[1].cell /\ ~InList(c, u)
    BY <1>9, <1>11, <1>12
  <2>2. mem'[c] = mem[c]
    BY <1>8, <2>1 DEF InList
  <2>3. ~InHands(c)'
    BY <1>10, <1>12, <2>1 DEF InHands
  <2> QED
    BY <1>7, <1>12, <2>1, <2>2, <2>3 DEF Absents
<1>13. ASSUME NEW c \in Unique, c[2] \notin used' PROVE (Absents(c) /\ c \notin gone /\ ~InHands(c))'
  <2>1. Absents(c) /\ c \notin gone /\ ~InHands(c)
    BY <1>1, <1>13 DEF Unheard
  <2> QED
    BY <1>12, <2>1
<1>14. ASSUME NEW v \in Workers, NEW i \in 1..Len(op'[v].todo), i # 1,
              NEW c, c = op'[v].todo[i].cell, c \in Unique
       PROVE  /\ Absents(c)' /\ c \notin gone'
              /\ \A x \in Workers : \A j \in 1..Len(op'[x].todo) : op'[x].todo[j].cell = c => x = v /\ j = i
  <2>1. PICK k : k = IF v = w THEN i + 1 ELSE i
    OBVIOUS
  <2>2. k \in 1..Len(op[v].todo) /\ op[v].todo[k].cell = c /\ k # 1
    <3>1. CASE v = w
      <4>1. i \in 1..Len(u) /\ u[i].cell = c
        BY <1>2, <1>3, <1>14, <3>1
      <4> QED
        BY <1>3, <1>6, <1>14, <2>1, <3>1, <4>1
    <3>2. CASE v # w
      BY <1>2, <1>14, <2>1, <3>2
    <3> QED
      BY <3>1, <3>2
  <2>3. /\ Absents(c) /\ c \notin gone
        /\ \A x \in Workers : \A j \in 1..Len(op[x].todo) : op[x].todo[j].cell = c => x = v /\ j = k
    BY <1>14, <2>2 DEF Later
  <2>4. c # t[1].cell
    BY <1>3, <1>4, <2>2, <2>3
  <2>5. ASSUME NEW j \in 1..Len(u), u[j].cell = c PROVE v = w /\ j = i
    <3>1. j + 1 \in 1..Len(op[w].todo) /\ op[w].todo[j + 1].cell = c
      BY <1>3, <1>6, <1>14, <2>5
    <3>2. v = w /\ j + 1 = k
      BY <2>3, <3>1
    <3> QED
      BY <1>14, <2>1, <3>2
  <2>6. mem'[c] = mem[c]
    BY <1>8, <1>14, <2>5
  <2>7. ASSUME NEW x \in Workers, NEW j \in 1..Len(op'[x].todo), op'[x].todo[j].cell = c
        PROVE  x = v /\ j = i
    <3>1. CASE x = w
      BY <1>2, <1>3, <2>5, <2>7, <3>1
    <3>2. CASE x # w
      BY <1>2, <2>1, <2>3, <2>7, <3>2
    <3> QED
      BY <3>1, <3>2
  <2> QED
    BY <1>7, <1>14, <2>3, <2>4, <2>6, <2>7 DEF Absents
<1>15. ASSUME NEW c \in gone' \ doubt' PROVE (c \in Unique /\ Absents(c) /\ ~InHands(c))'
  <2>1. CASE c \in gone
    <3>1. c \in Unique /\ Absents(c) /\ ~InHands(c)
      BY <1>2, <1>15, <2>1 DEF Ended
    <3> QED
      BY <1>12, <3>1
  <2>2. CASE c \notin gone
    <3>1. c = t[1].cell /\ c \in Unique /\ t[1].val = None /\ TabWritten(w)
      BY <1>1, <1>4, <1>15, <2>2 DEF Saved
    <3>2. c \in Cached \ stale
      BY <1>2, <1>15, <3>1 DEF Written, Cached
    <3>3. mem[c] = None /\ \A v \in Workers \ {w} : Busy(v) => Due(v).cell # c
      BY <1>1, <1>4, <3>1, <3>2 DEF Written, InHand
    <3>4. tab'[c] = None
      BY <1>4, <3>1, <3>2, StoredIs DEF TabWritten
    <3>5. ASSUME NEW v \in Workers, NEW i \in 1..Len(op[v].todo), i # 1 PROVE op[v].todo[i].cell # c
      <4> SUFFICES ASSUME op[v].todo[i].cell = c PROVE FALSE
        OBVIOUS
      <4>1. 1 = i
        BY <1>3, <1>4, <3>1, <3>5 DEF Later
      <4> QED
        BY <3>5, <4>1
    <3>6. ~InList(c, u)
      <4> SUFFICES ASSUME NEW i \in 1..Len(u), u[i].cell = c PROVE FALSE
        BY DEF InList
      <4>1. i + 1 \in 1..Len(op[w].todo) /\ op[w].todo[i + 1].cell = c
        BY <1>3, <1>6, <3>1
      <4> QED
        BY <3>5, <4>1
    <3>7. ASSUME NEW v \in Workers \ {w} PROVE ~InList(c, op[v].todo)
      <4> SUFFICES ASSUME NEW i \in 1..Len(op[v].todo), op[v].todo[i].cell = c PROVE FALSE
        BY DEF InList
      <4>1. i = 1
        BY <3>5
      <4>2. Busy(v)
        BY <4>1, IdleLen DEF Busy
      <4>3. Due(v).cell = c
        BY <4>1, <4>2, DueIs
      <4> QED
        BY <3>3, <4>2, <4>3
    <3>8. mem'[c] = None
      BY <1>8, <3>1, <3>3, <3>6 DEF InList
    <3> QED
      BY <1>10, <3>1, <3>4, <3>6, <3>7, <3>8 DEF Absents
  <2> QED
    BY <2>1, <2>2
<1>16. Unheard'
  BY <1>13 DEF Unheard
<1>17. Later'
  BY <1>14 DEF Later
<1>18. Ended'
  BY <1>15 DEF Ended
<1> QED
  BY <1>16, <1>17, <1>18

-----------------------------------------------------------------------------
(* A restart leaves the tables, and doubt about what was under way         *)

LEMMA RestartAudits ==
    ASSUME Shape, HandsVuln, Restart, NEW v \in Vulns, Audited(v)
    PROVE  Audited(v)'
<1>1. UNCHANGED tab /\ doubt \subseteq doubt'
  BY RestartIs
<1>2. CASE tab[VulnEntry(v)] = TRUE
  BY <1>1, <1>2, Zenon DEF Audited, VulnEntry
<1>3. CASE {VulnEntry(v), <<"vuln", v>>} \cap doubt # {}
  <2>1. {VulnEntry(v), <<"vuln", v>>} \cap doubt' # {}
    BY <1>1, <1>3
  <2> QED
    BY <2>1 DEF Audited, VulnEntry
<1>4. CASE \E w \in Workers : Pending(op[w].todo, VulnEntry(v))
  <2>1. PICK w \in Workers : Pending(op[w].todo, VulnEntry(v))
    BY <1>4
  <2>2. PICK i \in 1..Len(op[w].todo) : op[w].todo[i].cell = VulnEntry(v)
    BY <2>1 DEF Pending
  <2>3. i = 1 \/ op[w].todo[1].cell = <<"vuln", v>>
    BY <2>2 DEF HandsVuln, VulnSound
  <2>4. Busy(w)
    BY <2>2, IdleLen DEF Busy
  <2>5. op[w].todo[1].cell \in doubt'
    BY <2>4, DueIs, RestartIs
  <2>6. {VulnEntry(v), <<"vuln", v>>} \cap doubt' # {}
    BY <2>2, <2>3, <2>5
  <2> QED
    BY <2>6 DEF Audited, VulnEntry
<1>5. CASE v \in Nameless
  BY <1>5, Zenon DEF Audited
<1> QED
  BY <1>2, <1>3, <1>4, <1>5 DEF Audited

LEMMA RestartBacks ==
    ASSUME Shape, Written, Restart, NEW a \in Alerts, NEW s, Backs(a, s)
    PROVE  Backs(a, s)'
<1> DEFINE c == <<"triage", a>>
<1>1. c \in Cached /\ c[1] \notin {"accounts", "owner"} /\ doubt \subseteq doubt'
      /\ mem'[c] = tab[c]
  BY RestartIs, RecordsAre
<1> HIDE DEF c
<1>2. CASE c \in doubt'
  BY <1>2 DEF Backs, c
<1>3. CASE c \notin doubt'
  <2>1. c \notin doubt /\ c \notin stale /\ c \notin polled /\ ~InFlight(c)
    BY <1>1, <1>3, RestartIs DEF Written, OnlyAccounts, InFlight
  <2>2. Shows(c, mem[c], tab[c])
    BY <1>1, <2>1, ShownIs DEF Written
  <2>3. mem'[c] = mem[c]
    BY <1>1, <2>2 DEF Shows
  <2> QED
    BY <2>1, <2>3 DEF Backs, Told, c
<1> QED
  BY <1>2, <1>3

-----------------------------------------------------------------------------
(* All of it holds at the start, and every step keeps it                   *)

Records == GivenGood /\ OwnersGood /\ VulnsGood /\ TriagesGood /\ ToldBacked
Hands == HandsAudit /\ HandsOwned /\ HandsVuln /\ HandsTriage
Ids == Unheard /\ Later /\ Ended
Sound == Shape /\ Written /\ Records /\ Hands /\ Ids

LEMMA IdleHands ==
    ASSUME \A w \in Workers : op[w] = Idle
    PROVE  Hands /\ Later /\ (\A w \in Workers : GivenSound(op[w].todo, granted))
           /\ \A c : ~InHands(c)
<1>1. \A w \in Workers : Len(op[w].todo) = 0
  BY IdleLen
<1>2. HandsAudit
  BY <1>1 DEF HandsAudit, AuditSound
<1>3. HandsOwned
  BY <1>1 DEF HandsOwned, OwnerSound
<1>4. HandsVuln
  BY <1>1 DEF HandsVuln, VulnSound
<1>5. HandsTriage
  BY <1>1 DEF HandsTriage, HandTriage
<1>6. Later
  BY <1>1 DEF Later
<1>7. \A w \in Workers : GivenSound(op[w].todo, granted)
  BY <1>1 DEF GivenSound
<1>8. \A c : ~InHands(c)
  BY <1>1 DEF InHands, InList
<1> QED
  BY <1>2, <1>3, <1>4, <1>5, <1>6, <1>7, <1>8 DEF Hands

LEMMA SoundInit == Init => Sound
<1> SUFFICES ASSUME Init PROVE Sound
  OBVIOUS
<1>1. \A w \in Workers : op[w] = Idle
  BY DEF Init
<1>2. /\ \A c \in Cached : mem[c] = None /\ tab[c] = None
      /\ \A c \in External : tab[c] = None
      /\ gone = {}
  BY DEF Init
<1>3. \A c \in Unique : c \in Cached
  BY UniqueStores
<1>4. GivenGood
  BY <1>1, <1>2, IdleHands, RecordsAre DEF GivenGood, Given
<1>5. OwnersGood
  BY <1>2, RecordsAre DEF OwnersGood, OwnerGood
<1>6. VulnsGood
  BY <1>2, RecordsAre DEF VulnsGood, VulnGood
<1>7. TriagesGood
  BY <1>2, RecordsAre DEF TriagesGood, TriageGood
<1>8. ToldBacked
  BY <1>2, RecordsAre DEF ToldBacked
<1>9. Unheard
  BY <1>1, <1>2, <1>3, IdleHands DEF Unheard, Absents
<1>10. Ended
  BY <1>2 DEF Ended
<1> QED
  BY <1>1, <1>4, <1>5, <1>6, <1>7, <1>8, <1>9, <1>10, IdleHands, WrittenInit
     DEF Sound, Records, Ids

LEMMA SoundRestart ==
    ASSUME Sound, Restart
    PROVE  Sound'
<1>1. /\ \A w \in Workers : op'[w] = Idle
      /\ \A c \in Cached : mem'[c] = tab[c]
      /\ UNCHANGED <<tab, gone, used, granted>> /\ doubt \subseteq doubt'
  BY RestartIs DEF Sound
<1>2. Shape' /\ Written'
  BY RestartWritten DEF Sound
<1>3. /\ Hands' /\ Later' /\ (\A w \in Workers : GivenSound(op'[w].todo, granted'))
      /\ \A c : ~InHands(c)'
  <2>1. \A w \in Workers : Len(op'[w].todo) = 0
    BY <1>1, IdleLen
  <2>2. HandsAudit' /\ HandsOwned'
    BY <2>1 DEF HandsAudit, AuditSound, HandsOwned, OwnerSound
  <2>3. HandsVuln' /\ HandsTriage'
    BY <2>1 DEF HandsVuln, VulnSound, HandsTriage, HandTriage
  <2>4. Later' /\ \A w \in Workers : GivenSound(op'[w].todo, granted')
    BY <2>1 DEF Later, GivenSound
  <2>5. \A c : ~InHands(c)'
    BY <2>1 DEF InHands, InList
  <2> QED
    BY <2>2, <2>3, <2>4, <2>5 DEF Hands
<1>4. GivenGood'
  BY <1>1, <1>3, RecordsAre DEF Sound, Records, GivenGood, Given
<1>5. OwnersGood'
  BY <1>1, RecordsAre DEF Sound, Records, OwnersGood, OwnerGood, Excepted
<1>6. VulnsGood'
  <2> SUFFICES ASSUME NEW v \in Vulns
               PROVE  VulnGood(v, tab[<<"vuln", v>>])' /\ VulnGood(v, mem[<<"vuln", v>>])'
    BY DEF VulnsGood
  <2>1. mem'[<<"vuln", v>>] = tab[<<"vuln", v>>] /\ VulnGood(v, tab[<<"vuln", v>>])
    BY <1>1, RecordsAre DEF Sound, Records, VulnsGood
  <2>2. Audited(v) => Audited(v)'
    BY RestartAudits DEF Sound, Hands
  <2>3. VulnGood(v, tab[<<"vuln", v>>])'
    BY <1>1, <2>1, <2>2 DEF VulnGood
  <2>4. VulnGood(v, mem[<<"vuln", v>>])'
    BY <2>1, <2>2 DEF VulnGood
  <2> QED
    BY <2>3, <2>4
<1>7. TriagesGood'
  BY <1>1, RecordsAre DEF Sound, Records, TriagesGood, TriageGood, Told, Triages
<1>8. ToldBacked'
  <2> SUFFICES ASSUME NEW a \in Alerts, tab'[<<"zabbix", a>>] # None
               PROVE  Backs(a, tab[<<"zabbix", a>>])'
    BY DEF ToldBacked
  <2>1. PICK s : s = tab[<<"zabbix", a>>]
    OBVIOUS
  <2>2. Backs(a, s)
    BY <1>1, <2>1 DEF Sound, Records, ToldBacked
  <2>3. Backs(a, s)'
    BY <2>2, RestartBacks DEF Sound
  <2> QED
    BY <1>1, <2>1, <2>3 DEF Backs, Told
<1>9. Unheard'
  BY <1>1, <1>3, UniqueStores DEF Sound, Ids, Unheard, Absents
<1>10. Ended'
  BY <1>1, <1>3, UniqueStores DEF Sound, Ids, Ended, Absents
<1> QED
  BY <1>2, <1>3, <1>4, <1>5, <1>6, <1>7, <1>8, <1>9, <1>10 DEF Sound, Records, Ids

LEMMA SoundKept ==
    ASSUME Sound, NEW w \in Workers, NEW h,
           \/ \E ids, given : Begun(w, h, ids, given)
           \/ Saved(w, h) \/ Failed(w, h),
           Shape', Written'
    PROVE  Sound'
<1>1. GivenGood'
  BY GivenKept DEF Sound, Records
<1>2. HandsAudit'
  BY AuditKept DEF Sound, Hands
<1>3. OwnersGood' /\ HandsOwned'
  BY OwnerKept DEF Sound, Records, Hands
<1>4. VulnsGood' /\ HandsVuln'
  BY VulnKept DEF Sound, Records, Hands
<1>5. HandsTriage' /\ TriagesGood' /\ ToldBacked'
  BY TriageKept DEF Sound, Records, Hands
<1>6. Ids'
  BY BegunUnique, WroteUnique DEF Sound, Ids
<1> QED
  BY <1>1, <1>2, <1>3, <1>4, <1>5, <1>6 DEF Sound, Records, Hands

(* A step that changes neither memory nor hands, and of the tables nothing *)
(* but accounts.                                                           *)
LEMMA SoundQuiet ==
    ASSUME Sound, UNCHANGED <<mem, op, used, gone, granted>>, doubt \subseteq doubt',
           \A c \in Cached \cup External : c[1] # "accounts" => tab'[c] = tab[c],
           Shape', Written'
    PROVE  Sound'
<1>1. /\ \A p \in Approvals : tab'[<<"approval", p>>] = tab[<<"approval", p>>]
      /\ \A h \in Hosts : tab'[<<"owner", h>>] = tab[<<"owner", h>>]
      /\ \A h \in Hosts : tab'[OwnerEntry(h)] = tab[OwnerEntry(h)]
  BY RecordsAre DEF OwnerEntry
<1>2. /\ \A v \in Vulns : tab'[<<"vuln", v>>] = tab[<<"vuln", v>>]
      /\ \A v \in Vulns : tab'[VulnEntry(v)] = tab[VulnEntry(v)]
  BY RecordsAre DEF VulnEntry
<1>3. /\ \A a \in Alerts : tab'[<<"triage", a>>] = tab[<<"triage", a>>]
      /\ \A a \in Alerts : tab'[<<"zabbix", a>>] = tab[<<"zabbix", a>>]
  BY RecordsAre
<1>4. \A c \in Unique : Absents(c) => Absents(c)'
  BY UniqueStores DEF Absents
<1>5. GivenGood'
  BY <1>1 DEF Sound, Records, GivenGood, Given, GivenSound
<1>6. HandsAudit'
  BY Zenon DEF Sound, Hands, HandsAudit, AuditSound
<1>7. OwnersGood'
  <2>1. ASSUME NEW h \in Hosts, NEW x, OwnerGood(h, x) PROVE OwnerGood(h, x)'
    BY <1>1, <2>1 DEF OwnerGood, Excepted, OwnerEntry
  <2> SUFFICES ASSUME NEW h \in Hosts
               PROVE  OwnerGood(h, mem[<<"owner", h>>])' /\ OwnerGood(h, tab[<<"owner", h>>])'
    BY DEF OwnersGood
  <2>2. PICK x, y : x = mem[<<"owner", h>>] /\ y = tab[<<"owner", h>>]
    OBVIOUS
  <2>3. OwnerGood(h, x)' /\ OwnerGood(h, y)'
    BY <2>1, <2>2 DEF Sound, Records, OwnersGood
  <2>4. x = mem'[<<"owner", h>>] /\ y = tab'[<<"owner", h>>]
    BY <1>1, <2>2
  <2> QED
    BY <2>3, <2>4 DEF OwnerGood
<1>8. HandsOwned'
  <2>1. \A h \in Hosts : Excepted(h) => Excepted(h)'
    BY <1>1, Zenon DEF Excepted, OwnerEntry
  <2> SUFFICES ASSUME NEW w \in Workers PROVE OwnerSound(op[w].todo)'
    BY DEF HandsOwned
  <2>2. PICK t : t = op[w].todo
    OBVIOUS
  <2>3. OwnerSound(t)
    BY <2>2 DEF Sound, Hands, HandsOwned
  <2>4. OwnerSound(t)'
    BY <2>1, <2>3 DEF OwnerSound, OwnerEntry
  <2> QED
    BY <2>2, <2>4 DEF OwnerSound
<1>9. \A v \in Vulns : Audited(v) => Audited(v)'
  <2> SUFFICES ASSUME NEW v \in Vulns, Audited(v) PROVE Audited(v)'
    OBVIOUS
  <2>1. {VulnEntry(v), <<"vuln", v>>} \cap doubt # {} => {VulnEntry(v), <<"vuln", v>>} \cap doubt' # {}
    OBVIOUS
  <2>2. tab[VulnEntry(v)] = TRUE => tab'[VulnEntry(v)] = TRUE
    BY <1>2, Zenon
  <2> QED
    BY <2>1, <2>2, Zenon DEF Audited, VulnEntry
<1>10. VulnsGood' /\ HandsVuln'
  <2>1. ASSUME NEW v \in Vulns PROVE VulnGood(v, mem[<<"vuln", v>>])' /\ VulnGood(v, tab[<<"vuln", v>>])'
    <3>1. PICK x, y : x = mem[<<"vuln", v>>] /\ y = tab[<<"vuln", v>>]
      OBVIOUS
    <3>2. VulnGood(v, x) /\ VulnGood(v, y)
      BY <3>1 DEF Sound, Records, VulnsGood
    <3>3. x = mem'[<<"vuln", v>>] /\ y = tab'[<<"vuln", v>>]
      BY <1>2, <3>1
    <3> QED
      BY <1>9, <3>2, <3>3 DEF VulnGood
  <2>2. HandsVuln'
    <3> SUFFICES ASSUME NEW w \in Workers PROVE VulnSound(op[w].todo)'
      BY DEF HandsVuln
    <3>1. PICK t : t = op[w].todo
      OBVIOUS
    <3>2. VulnSound(t)
      BY <3>1 DEF Sound, Hands, HandsVuln
    <3>3. VulnSound(t)'
      BY <1>9, <3>2 DEF VulnSound, VulnEntry, Pending
    <3> QED
      BY <3>1, <3>3 DEF VulnSound, VulnEntry, Pending
  <2> QED
    BY <2>1, <2>2 DEF VulnsGood
<1>11. \A a \in Alerts : \A s : Backs(a, s) => Backs(a, s)'
  BY DEF Backs, Told
<1>12. TriagesGood'
  BY <1>3 DEF Sound, Records, TriagesGood, TriageGood, Told, Triages
<1>13. ToldBacked'
  <2> SUFFICES ASSUME NEW a \in Alerts, tab'[<<"zabbix", a>>] # None
               PROVE  Backs(a, tab[<<"zabbix", a>>])'
    BY DEF ToldBacked
  <2>1. PICK s : s = tab[<<"zabbix", a>>]
    OBVIOUS
  <2>2. Backs(a, s)' /\ s = tab'[<<"zabbix", a>>]
    BY <1>3, <1>11, <2>1 DEF Sound, Records, ToldBacked
  <2> QED
    BY <2>2 DEF Backs, Told
<1>14. HandsTriage'
  <2> SUFFICES ASSUME NEW x \in Workers PROVE HandTriage(op[x].todo)'
    BY DEF HandsTriage
  <2>1. PICK t : t = op[x].todo
    OBVIOUS
  <2>2. HandTriage(t)
    BY <2>1 DEF Sound, Hands, HandsTriage
  <2>3. HandTriage(t)'
    BY <1>11, <2>2 DEF HandTriage
  <2> QED
    BY <2>1, <2>3 DEF HandTriage
<1>15. Ids'
  <2>1. Unheard'
    BY <1>4 DEF Sound, Ids, Unheard, InHands, InList
  <2>2. Later'
    BY <1>4 DEF Sound, Ids, Later
  <2>3. Ended'
    BY <1>4 DEF Sound, Ids, Ended, InHands, InList
  <2> QED
    BY <2>1, <2>2, <2>3 DEF Ids
<1> QED
  BY <1>5, <1>6, <1>7, <1>8, <1>10, <1>12, <1>13, <1>14, <1>15 DEF Sound, Records, Hands

LEMMA SoundStep == Sound /\ [Next]_vars => Sound'
<1> SUFFICES ASSUME Sound, [Next]_vars PROVE Sound'
  OBVIOUS
<1>1. ASSUME NEW w \in Workers, Starts(w) PROVE Sound'
  <2>1. Started(w)
    BY <1>1, EveryStart DEF Sound, Records
  <2>2. PICK h, ids, given : Begun(w, h, ids, given)
    BY <2>1, StartSteps DEF Sound
  <2>3. PICK t, rows : IsList(t) /\ rows \in Seq(Rows) /\ Begin(w, t, rows)
    BY <2>1 DEF Started
  <2>4. Shape' /\ Written'
    BY <2>3, BeginWritten DEF Sound
  <2> QED
    BY <2>2, <2>4, SoundKept
<1>2. ASSUME NEW w \in Workers, Save(w) PROVE Sound'
  <2>1. Saved(w, After(w))
    BY <1>2, SaveSteps DEF Sound, Records
  <2>2. Shape' /\ Written'
    BY <1>2, SaveWritten DEF Sound
  <2> QED
    BY <2>1, <2>2, SoundKept
<1>3. ASSUME NEW w \in Workers, SaveFails(w) PROVE Sound'
  <2>1. PICK h : Failed(w, h)
    BY <1>3, FailSteps DEF Sound, Records
  <2>2. Shape' /\ Written'
    BY <1>3, FailWritten DEF Sound
  <2> QED
    BY <2>1, <2>2, SoundKept
<1>4. CASE Restart
  BY <1>4, SoundRestart
<1>5. CASE UNCHANGED vars
  <2>1. UNCHANGED <<tab, mem, op, used, stale, doubt, polled, gone, granted>>
    BY <1>5 DEF vars
  <2>2. Shape' /\ Written'
    BY <2>1 DEF Sound, Shape, Written, OnlyAccounts, InHand, ShownIsStored, InFlight, Busy, Due
  <2> QED
    BY <2>1, <2>2, SoundQuiet
<1>6. ASSUME NEW q \in Pollers, Polls(q) PROVE Sound'
  BY <1>6, PollIs, PollWritten, SoundQuiet DEF Sound
<1>7. CASE Next
  BY <1>1, <1>2, <1>3, <1>4, <1>6, <1>7, Zenon DEF Next, Starts, Polls
<1> QED
  BY <1>5, <1>7

LEMMA Soundness == Spec => []Sound
<1>1. Init => Sound
  BY SoundInit
<1>2. Sound /\ [Next]_vars => Sound'
  BY SoundStep
<1> QED
  BY <1>1, <1>2, PTL DEF Spec

-----------------------------------------------------------------------------
(* What pages show is what the table holds and a restart will give back:   *)
(* every persist hook of api/server.py writes what the handler put in the  *)
(* dictionary, whatever the other threads and the pollers do meanwhile.    *)
(* Excepted are a record whose write failed or crossed another, accounts   *)
(* that a poller stored past the dictionary, and what a table has no place *)
(* for: scope tags, an inventory without accounts or with a name twice.    *)
THEOREM PagesShowTheTables == Spec => []ShownIsStored
<1>1. Sound => ShownIsStored
  BY DEF Sound, Written
<1> QED
  BY <1>1, Soundness, PTL

(* A record that was deleted, a session that was ended, an approval that   *)
(* was rejected or withdrawn, does not come back, with no restart either,  *)
(* unless a write of it failed, was cut short or crossed another: ids are  *)
(* drawn fresh (uuid4), and a handler writes such a record first of all or *)
(* makes it new.                                                           *)
THEOREM DeletedStaysDeleted == Spec => []GoneIsGone
<1>1. Sound => GoneIsGone
  BY DEF Sound, Ids, Ended, Absents, GoneIsGone
<1> QED
  BY <1>1, Soundness, PTL

(* An exception on a host has its entry in the change history, always,     *)
(* since _upsert_owner stores the history first and gives up when it       *)
(* cannot; one on a vulnerability too, unless its handler is on the way    *)
(* there, a write on that way failed or its host has no name.              *)
THEOREM ExceptionsAreAudited == Spec => []ExceptionIsAudited
<1>1. ASSUME Sound PROVE ExceptionIsAudited
  <2>1. ASSUME NEW h \in Hosts, NEW rec \in {mem[<<"owner", h>>], tab[<<"owner", h>>]} \ {None},
               rec.exc = "set"
        PROVE  tab[<<"audit", [of |-> <<"exc", h>>, new |-> "set"]>>] = TRUE
    <3>1. Excepted(h)
      BY <1>1, <2>1 DEF Sound, Records, OwnersGood, OwnerGood
    <3> QED
      BY <3>1, Zenon DEF Excepted, OwnerEntry
  <2>2. ASSUME NEW v \in Vulns \ Nameless, NEW rec \in {mem[<<"vuln", v>>], tab[<<"vuln", v>>]} \ {None},
               rec.exc = "set"
        PROVE  LET entry == <<"audit", [of |-> <<"vuln_exc", v>>, new |-> "set"]>>
               IN  \/ tab[entry] = TRUE
                   \/ {entry, <<"vuln", v>>} \cap doubt # {}
                   \/ \E w \in Workers : Busy(w) /\ \E i \in 1..Len(op[w].todo) : op[w].todo[i].cell = entry
    <3>1. Audited(v)
      BY <1>1, <2>2 DEF Sound, Records, VulnsGood, VulnGood
    <3>2. ASSUME NEW w \in Workers, Pending(op[w].todo, VulnEntry(v))
          PROVE  Busy(w) /\ \E i \in 1..Len(op[w].todo) : op[w].todo[i].cell = VulnEntry(v)
      <4>1. Len(op[w].todo) # 0
        BY <3>2 DEF Pending
      <4> QED
        BY <3>2, <4>1, IdleLen DEF Pending, Busy
    <3> QED
      BY <3>1, <3>2, Zenon DEF Audited, VulnEntry
  <2> QED
    BY <2>1, <2>2, Zenon DEF ExceptionIsAudited
<1> QED
  BY <1>1, Soundness, PTL

(* A sudo account that is not reported as unapproved has an approval that  *)
(* an officer gave and that was not withdrawn: _overview takes approved    *)
(* entries for the baseline, and only an officer makes one.                *)
THEOREM SuppressionsAreGranted == Spec => []SuppressedIsGranted
<1>1. ASSUME Sound PROVE SuppressedIsGranted
  <2> SUFFICES ASSUME NEW h \in Hosts, NEW a, a.sudo, "unapproved_sudo" \notin Findings(h, a)
               PROVE  \E p \in granted :
                         /\ <<"approval", p>> \notin gone \ doubt
                         /\ mem[<<"approval", p>>] # None
                         /\ Covers(mem[<<"approval", p>>].grant, a.user, h, "sudo")
    BY Zenon DEF SuppressedIsGranted
  <2>1. Approved(a.user, h, "sudo")
    BY DEF Findings
  <2>2. PICK p \in Baseline : Covers(mem[<<"approval", p>>].grant, a.user, h, "sudo")
    BY <2>1 DEF Approved
  <2>3. /\ p \in Approvals /\ mem[<<"approval", p>>] # None
        /\ mem[<<"approval", p>>].status = "approved"
    BY <2>2 DEF Baseline
  <2>4. p \in granted
    BY <1>1, <2>3 DEF Sound, Records, GivenGood, Given
  <2>5. <<"approval", p>> \notin gone \ doubt
    BY <1>1, <2>3 DEF Sound, Ids, Ended, Absents
  <2> QED
    BY <2>2, <2>3, <2>4, <2>5
<1> QED
  BY <1>1, Soundness, PTL

(* A status that Zabbix was told is in the stored history of the alert,    *)
(* unless writing that history failed, was cut short or is under way:      *)
(* alert_triage_update stores the record before it calls Zabbix, and sends *)
(* the status that memory has by then.                                     *)
THEOREM ZabbixHearsWhatIsStored == Spec => []ZabbixIsBacked
<1>1. ASSUME Sound PROVE ZabbixIsBacked
  <2> SUFFICES ASSUME NEW a \in Alerts, tab[<<"zabbix", a>>] # None,
                      <<"triage", a>> \notin doubt, ~InFlight(<<"triage", a>>)
               PROVE  /\ tab[<<"triage", a>>] # None
                      /\ \E i \in 1..Len(tab[<<"triage", a>>].history) :
                            tab[<<"triage", a>>].history[i][2] = tab[<<"zabbix", a>>]
    BY DEF ZabbixIsBacked
  <2> DEFINE c == <<"triage", a>>
  <2>1. Told(mem[c], tab[<<"zabbix", a>>])
    BY <1>1 DEF Sound, Records, ToldBacked, Backs
  <2>2. c \in Cached \ stale /\ c[1] \notin {"accounts", "owner"}
    BY <1>1, RecordsAre DEF Sound, Written
  <2> HIDE DEF c
  <2>3. Shows(c, mem[c], tab[c])
    BY <1>1, <2>2, ShownIs DEF Sound, Written, OnlyAccounts, c
  <2>4. tab[c] = mem[c]
    BY <2>2, <2>3 DEF Shows
  <2> QED
    BY <2>1, <2>4 DEF Told, c
<1> QED
  BY <1>1, Soundness, PTL

=============================================================================
