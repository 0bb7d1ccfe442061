--------------------------- MODULE TimeoutsProofs ---------------------------
(***************************************************************************)
(* No timer is ever lost to an empty pool: in every configuration of the   *)
(* stack each cyclic timer has exactly one entry of the list, and an open  *)
(* transfer has its own.                                                   *)
(***************************************************************************)
EXTENDS Timeouts, TLAPS, FiniteSetTheorems, SequenceTheorems, WellFoundedInduction

(***************************************************************************)
(* The inductive invariant.  The times of the entries play no part in it.  *)
(***************************************************************************)
IsList(l) ==
  /\ l \in Seq({l[i] : i \in 1..Len(l)})
  /\ \A i \in 1..Len(l) : l[i] = [h |-> l[i].h, time |-> l[i].time, age |-> l[i].age]

Armed(l) == {l[i].h : i \in 1..Len(l)}

\* No handler has two entries.
Once(l) == \A i, j \in 1..Len(l) : l[i].h = l[j].h => i = j

\* The cyclic timers leave one entry of the pool, which only tftp_tmr takes.
OneSpare(l) ==
  /\ IsList(l) /\ Once(l)
  /\ Len(l) \in {PoolSize - 1, PoolSize}
  /\ Armed(l) = IF Len(l) = PoolSize THEN Cyclic \cup {Tftp} ELSE Cyclic

PoolInv ==
  /\ OneSpare(next_timeout)
  /\ session => Len(next_timeout) = PoolSize

(***************************************************************************)
(* Lists.                                                                  *)
(***************************************************************************)
LEMMA Least ==
  ASSUME NEW T, T \subseteq Nat, T # {}
  PROVE  \E x \in T : \A y \in T : x <= y
<1> DEFINE R == {ss \in Nat \X Nat : ss[1] < ss[2]}
<1>1. IsWellFoundedOn(R, Nat)
  BY NatLessThanWellFounded, Zenon DEF OpToRel
<1>2. \A x, y \in Nat : y < x => <<y, x>> \in R
  OBVIOUS
<1> HIDE DEF R
<1>3. PICK x \in T : \A y \in T : ~(<<y, x>> \in R)
  BY <1>1, WFMin
<1>4. ASSUME NEW y \in T PROVE x <= y
  <2>1. x \in Nat /\ y \in Nat /\ <<y, x>> \notin R
    BY <1>3, <1>4
  <2>2. ~(y < x)
    BY <1>2, <2>1
  <2> QED
    BY <2>1, <2>2
<1> QED
  BY <1>4

LEMMA SeqSelf ==
  ASSUME NEW S, NEW r \in Seq(S)
  PROVE  r \in Seq({r[i] : i \in 1..Len(r)})
<1> DEFINE T == {r[i] : i \in 1..Len(r)}
<1>1. r = [i \in 1..Len(r) |-> r[i]] /\ Len(r) \in Nat
  OBVIOUS
<1>2. \A i \in 1..Len(r) : r[i] \in T
  OBVIOUS
<1> HIDE DEF T
<1>3. [i \in 1..Len(r) |-> r[i]] \in Seq(T)
  BY <1>1, <1>2
<1> QED
  BY <1>1, <1>3 DEF T

\* A list with an entry put between two parts.
LEMMA Splice ==
  ASSUME NEW S, NEW a \in Seq(S), NEW b \in Seq(S), NEW m \in Seq(S), Len(m) = 1
  PROVE  /\ a \o m \o b \in Seq(S)
         /\ Len(a \o m \o b) = Len(a) + 1 + Len(b)
         /\ \A i \in 1..(Len(a) + 1 + Len(b)) : (a \o m \o b)[i] =
              IF i <= Len(a) THEN a[i] ELSE IF i = Len(a) + 1 THEN m[1] ELSE b[i - Len(a) - 1]
<1> DEFINE c == a \o m
<1>1. /\ a \o m \in Seq(S) /\ Len(a \o m) = Len(a) + Len(m)
      /\ \A i \in 1..(Len(a) + Len(m)) :
           (a \o m)[i] = IF i <= Len(a) THEN a[i] ELSE m[i - Len(a)]
  BY ConcatProperties
<1> HIDE DEF c
<1>2. /\ c \in Seq(S) /\ Len(c) = Len(a) + 1
      /\ \A i \in 1..(Len(a) + 1) : c[i] = IF i <= Len(a) THEN a[i] ELSE m[1]
  <2>1. c = a \o m
    BY DEF c
  <2>2. Len(a) \in Nat /\ \A i \in 1..(Len(a) + 1) : i <= Len(a) \/ i - Len(a) = 1
    OBVIOUS
  <2>3. /\ c \in Seq(S) /\ Len(c) = Len(a) + 1
        /\ \A i \in 1..(Len(a) + 1) : c[i] = IF i <= Len(a) THEN a[i] ELSE m[i - Len(a)]
    BY <1>1, <2>1
  <2> QED
    BY <2>2, <2>3
<1>3. /\ c \o b \in Seq(S) /\ Len(c \o b) = Len(c) + Len(b)
      /\ \A i \in 1..(Len(c) + Len(b)) :
           (c \o b)[i] = IF i <= Len(c) THEN c[i] ELSE b[i - Len(c)]
  BY <1>2, ConcatProperties
<1>4. ASSUME NEW i \in 1..(Len(a) + 1 + Len(b))
      PROVE  (c \o b)[i] =
               IF i <= Len(a) THEN a[i] ELSE IF i = Len(a) + 1 THEN m[1] ELSE b[i - Len(a) - 1]
  BY <1>2, <1>3, <1>4
<1> QED
  BY <1>2, <1>3, <1>4 DEF c

\* Shift keeps the handlers.
LEMMA ShiftKeeps ==
  ASSUME NEW l, IsList(l), NEW k \in 1..Len(l), NEW d
  PROVE  /\ IsList(Shift(l, k, d)) /\ Len(Shift(l, k, d)) = Len(l)
         /\ \A i \in 1..Len(l) : Shift(l, k, d)[i].h = l[i].h
<1> DEFINE S == {l[i] : i \in 1..Len(l)}
           e == [l[k] EXCEPT !.time = Plus(@, d)]
           r == Shift(l, k, d)
<1>1. l \in Seq(S) /\ Len(l) \in Nat
  BY DEF IsList
<1>2. l[k] = [h |-> l[k].h, time |-> l[k].time, age |-> l[k].age]
  BY DEF IsList
<1>3. e = [h |-> l[k].h, time |-> Plus(l[k].time, d), age |-> l[k].age]
  BY <1>2
<1>4. r = [l EXCEPT ![k] = e]
  BY DEF Shift
<1> HIDE DEF S, e, r
<1>5. l \in Seq(S \cup {e}) /\ e \in S \cup {e}
  BY <1>1
<1>6. r \in Seq(S \cup {e}) /\ Len(r) = Len(l)
      /\ \A i \in 1..Len(l) : r[i] = IF i = k THEN e ELSE l[i]
  BY <1>4, <1>5
<1>7. r \in Seq({r[i] : i \in 1..Len(r)})
  BY <1>6, SeqSelf
<1>8. e.h = l[k].h /\ e = [h |-> e.h, time |-> e.time, age |-> e.age]
  BY <1>3
<1>9. \A i \in 1..Len(r) : r[i] = [h |-> r[i].h, time |-> r[i].time, age |-> r[i].age]
  BY <1>6, <1>8 DEF IsList
<1> QED
  BY <1>6, <1>7, <1>8, <1>9 DEF IsList, r

\* The list r is l with an entry for h put in at place q.
PutAt(r, l, h, q) ==
  /\ Len(r) = Len(l) + 1 /\ r[q].h = h
  /\ \A i \in 1..(q - 1) : r[i].h = l[i].h
  /\ \A i \in (q + 1)..Len(r) : r[i].h = l[i - 1].h

LEMMA PutList ==
  ASSUME NEW l, NEW l2, IsList(l2), Len(l2) = Len(l),
         \A i \in 1..Len(l) : l2[i].h = l[i].h,
         NEW V, NEW r \in Seq(V), NEW q \in 1..(Len(l) + 1), NEW h, NEW e,
         e.h = h, e = [h |-> e.h, time |-> e.time, age |-> e.age],
         Len(r) = Len(l) + 1, r[q] = e,
         \A i \in 1..(q - 1) : r[i] = l2[i],
         \A i \in (q + 1)..(Len(l) + 1) : r[i] = l2[i - 1]
  PROVE  IsList(r) /\ PutAt(r, l, h, q)
<1>1. r \in Seq({r[i] : i \in 1..Len(r)})
  BY SeqSelf
<1>2. Len(l) \in Nat
  BY DEF IsList
<1>3. \A i \in 1..Len(r) : \/ i = q
                           \/ i \in 1..(q - 1) /\ i \in 1..Len(l)
                           \/ i \in (q + 1)..(Len(l) + 1) /\ i - 1 \in 1..Len(l)
  BY <1>2
<1>4. \A i \in 1..Len(r) : r[i] = [h |-> r[i].h, time |-> r[i].time, age |-> r[i].age]
  BY <1>2, <1>3, ZenonT(60) DEF IsList
<1>5. PutAt(r, l, h, q)
  <2>1. \A i \in 1..(q - 1) : i \in 1..Len(l) /\ r[i].h = l[i].h
    BY <1>2
  <2>2. \A i \in (q + 1)..Len(r) : i - 1 \in 1..Len(l) /\ r[i].h = l[i - 1].h
    BY <1>2
  <2> QED
    BY <2>1, <2>2 DEF PutAt
<1> QED
  BY <1>1, <1>4, <1>5 DEF IsList

\* Insert puts one entry somewhere, whatever the times in the list.
LEMMA InsertPuts ==
  ASSUME NEW l, IsList(l), NEW h, NEW d
  PROVE  /\ IsList(Insert(l, h, d))
         /\ \E q \in 1..(Len(l) + 1) : PutAt(Insert(l, h, d), l, h, q)
<1> DEFINE S == {l[i] : i \in 1..Len(l)}
           m == Msecs[h]
           entry(t) == [h |-> h, time |-> t, age |-> 0]
           rest(k) == Sub(Plus(m, d), DueAt(l, k))
           n == Len(l)
           stops(k) == k = n \/ l[k + 1].time > rest(k)
           first == CHOOSE j \in 1..n : stops(j) /\ \A jj \in 1..(j - 1) : ~stops(jj)
           r == Insert(l, h, d)
<1>1. r = IF n = 0 THEN <<entry(m)>>
          ELSE IF l[1].time > m THEN <<entry(Plus(m, d))>> \o Shift(l, 1, -m)
          ELSE IF first < n
            THEN SubSeq(l, 1, first) \o <<entry(rest(first))>>
                   \o SubSeq(Shift(l, first + 1, -rest(first)), first + 1, n)
          ELSE Append(l, entry(IF rest(n) > m THEN Plus(m, l[1].time) ELSE rest(n)))
  BY DEF Insert
<1>2. l \in Seq(S) /\ n \in Nat
  BY DEF IsList
<1>3. \A t : entry(t).h = h /\
             entry(t) = [h |-> entry(t).h, time |-> entry(t).time, age |-> entry(t).age]
  OBVIOUS
<1>4. n # 0 => first \in 1..n
  <2> SUFFICES ASSUME n # 0 PROVE first \in 1..n
    OBVIOUS
  <2> DEFINE T == {j \in 1..n : stops(j)}
  <2>1. n \in T /\ T \subseteq Nat
    BY <1>2
  <2> HIDE DEF T
  <2>2. PICK x \in T : \A y \in T : x <= y
    BY <2>1, Least
  <2>3. x \in 1..n /\ stops(x) /\ \A jj \in 1..(x - 1) : ~stops(jj)
    <3>1. x \in 1..n /\ stops(x)
      BY DEF T
    <3>2. ASSUME NEW jj \in 1..(x - 1), stops(jj) PROVE FALSE
      <4>1. jj \in T
        BY <1>2, <3>1, <3>2 DEF T
      <4> QED
        BY <2>2, <3>1, <4>1
    <3> QED
      BY <3>1, <3>2
  <2> HIDE DEF stops
  <2> QED
    BY <2>3
<1> HIDE DEF S, m, entry, rest, first, r
<1>5. CASE n = 0
  <2> DEFINE e == entry(m)
  <2>1. r = <<e>> /\ e \in {e} /\ <<e>> \in Seq({e})
    BY <1>1, <1>5
  <2>2. e.h = h /\ e = [h |-> e.h, time |-> e.time, age |-> e.age]
    BY <1>3
  <2> HIDE DEF e
  <2>3. r \in Seq({e}) /\ Len(r) = 1 /\ r[1] = e
    BY <2>1
  <2>4. 1 \in 1..(n + 1) /\ IsList(r) /\ PutAt(r, l, h, 1)
    BY <1>5, <2>2, <2>3, PutList
  <2> QED
    BY <2>4 DEF r
<1>6. CASE n # 0 /\ l[1].time > m
  <2> DEFINE l2 == Shift(l, 1, -m)
             e == entry(Plus(m, d))
             V == {l2[i] : i \in 1..Len(l2)} \cup {e}
  <2>1. r = <<e>> \o l2
    BY <1>1, <1>6
  <2>2. e.h = h /\ e = [h |-> e.h, time |-> e.time, age |-> e.age]
    BY <1>3
  <2>3. IsList(l2) /\ Len(l2) = n /\ \A i \in 1..n : l2[i].h = l[i].h
    BY <1>2, <1>6, ShiftKeeps
  <2>4. l2 \in Seq(V) /\ <<e>> \in Seq(V)
    <3> DEFINE W == {l2[i] : i \in 1..Len(l2)}
    <3>1. l2 \in Seq(W)
      BY <2>3 DEF IsList
    <3> HIDE DEF e, l2, W
    <3>2. l2 \in Seq(W \cup {e}) /\ <<e>> \in Seq(W \cup {e})
      BY <3>1
    <3> QED
      BY <3>2 DEF W
  <2> HIDE DEF e, l2, V
  <2>5. Len(<<e>>) = 1 /\ <<e>>[1] = e
    OBVIOUS
  <2>6. /\ r \in Seq(V) /\ Len(r) = n + 1
        /\ \A i \in 1..(1 + n) : r[i] = IF i <= 1 THEN <<e>>[i] ELSE l2[i - 1]
    BY <2>1, <2>3, <2>4, <2>5, ConcatProperties
  <2>7. /\ r[1] = e /\ 1 \in 1..(n + 1)
        /\ \A i \in 1..(1 - 1) : r[i] = l2[i]
        /\ \A i \in (1 + 1)..(n + 1) : r[i] = l2[i - 1]
    BY <1>2, <2>5, <2>6
  <2>8. IsList(r) /\ PutAt(r, l, h, 1)
    BY <2>2, <2>3, <2>6, <2>7, PutList
  <2> QED
    BY <2>7, <2>8 DEF r
<1>7. CASE n # 0 /\ ~(l[1].time > m) /\ first < n
  <2> DEFINE l2 == Shift(l, first + 1, -rest(first))
             e == entry(rest(first))
             V == {l2[i] : i \in 1..Len(l2)} \cup {e} \cup S
             a == SubSeq(l, 1, first)
             b == SubSeq(l2, first + 1, n)
  <2>1. r = a \o <<e>> \o b
    BY <1>1, <1>7
  <2>2. e.h = h /\ e = [h |-> e.h, time |-> e.time, age |-> e.age]
    BY <1>3
  <2>3. first + 1 \in 1..n /\ first \in 1..n
    BY <1>2, <1>4, <1>7
  <2>4. IsList(l2) /\ Len(l2) = n /\ \A i \in 1..n : l2[i].h = l[i].h
    BY <2>3, ShiftKeeps
  <2>5. \A i \in 1..n : l2[i] = IF i = first + 1 THEN l2[i] ELSE l[i]
    BY <1>2, <2>3 DEF Shift
  <2>6. (\A i \in 1..n : l2[i] \in V /\ l[i] \in V) /\ e \in V
    BY <2>4 DEF S
  <2> HIDE DEF e, l2, V
  <2>7. a \in Seq(V) /\ Len(a) = first /\ \A i \in 1..first : a[i] = l[i]
    <3>1. 1 \in Int /\ first \in Int /\ \A i \in 1..first : l[i] \in V
      BY <1>2, <2>3, <2>6
    <3>2. /\ SubSeq(l, 1, first) \in Seq(V)
          /\ Len(SubSeq(l, 1, first)) = IF 1 <= first THEN first - 1 + 1 ELSE 0
          /\ \A i \in 1..(first - 1 + 1) : SubSeq(l, 1, first)[i] = l[1 + i - 1]
      BY <3>1, SubSeqProperties
    <3> QED
      BY <2>3, <3>2
  <2>8. b \in Seq(V) /\ Len(b) = n - first /\ \A i \in 1..(n - first) : b[i] = l2[first + i]
    <3>1. first + 1 \in Int /\ n \in Int /\ \A i \in (first + 1)..n : l2[i] \in V
      BY <1>2, <2>3, <2>6
    <3>2. /\ SubSeq(l2, first + 1, n) \in Seq(V)
          /\ Len(SubSeq(l2, first + 1, n)) =
               IF first + 1 <= n THEN n - (first + 1) + 1 ELSE 0
          /\ \A i \in 1..(n - (first + 1) + 1) :
               SubSeq(l2, first + 1, n)[i] = l2[(first + 1) + i - 1]
      BY <3>1, SubSeqProperties
    <3> QED
      BY <1>2, <2>3, <3>2
  <2> HIDE DEF a, b
  <2>9. /\ r \in Seq(V) /\ Len(r) = n + 1
        /\ \A i \in 1..(n + 1) : r[i] =
             IF i <= first THEN a[i] ELSE IF i = first + 1 THEN e ELSE b[i - first - 1]
    <3> DEFINE x == <<e>>
    <3>1. a \in Seq(V) /\ b \in Seq(V) /\ x \in Seq(V) /\ Len(x) = 1 /\ x[1] = e
      BY <2>6, <2>7, <2>8
    <3>2. r = a \o x \o b
      BY <2>1
    <3> HIDE DEF x
    <3>3. /\ r \in Seq(V) /\ Len(r) = Len(a) + 1 + Len(b)
          /\ \A i \in 1..(Len(a) + 1 + Len(b)) : r[i] =
               IF i <= Len(a) THEN a[i] ELSE IF i = Len(a) + 1 THEN x[1] ELSE b[i - Len(a) - 1]
      <4>1. Len(x) = 1
        BY <3>1
      <4>2. /\ a \o x \o b \in Seq(V) /\ Len(a \o x \o b) = Len(a) + 1 + Len(b)
            /\ \A i \in 1..(Len(a) + 1 + Len(b)) : (a \o x \o b)[i] =
                 IF i <= Len(a) THEN a[i] ELSE IF i = Len(a) + 1 THEN x[1] ELSE b[i - Len(a) - 1]
        BY <3>1, <4>1, Splice, SMTT(30)
      <4> QED
        BY <3>2, <4>2, Zenon
    <3>4. Len(a) + 1 + Len(b) = n + 1 /\ Len(a) = first
      BY <1>2, <2>3, <2>7, <2>8
    <3> QED
      BY <3>1, <3>3, <3>4
  <2>10. /\ r[first + 1] = e /\ first + 1 \in 1..(n + 1)
         /\ \A i \in 1..((first + 1) - 1) : r[i] = l2[i]
         /\ \A i \in ((first + 1) + 1)..(n + 1) : r[i] = l2[i - 1]
    <3>1. r[first + 1] = e /\ first + 1 \in 1..(n + 1)
      BY <1>2, <2>3, <2>9
    <3>2. ASSUME NEW i \in 1..((first + 1) - 1) PROVE r[i] = l2[i]
      BY <1>2, <2>3, <2>5, <2>7, <2>9
    <3>3. ASSUME NEW i \in ((first + 1) + 1)..(n + 1) PROVE r[i] = l2[i - 1]
      <4>1. r[i] = b[i - first - 1] /\ i - first - 1 \in 1..(n - first)
        BY <1>2, <2>3, <2>9
      <4>2. first + (i - first - 1) = i - 1
        BY <1>2, <2>3
      <4> QED
        BY <2>8, <4>1, <4>2
    <3> QED
      BY <3>1, <3>2, <3>3
  <2>11. IsList(r) /\ PutAt(r, l, h, first + 1)
    BY <2>2, <2>4, <2>9, <2>10, PutList
  <2> QED
    BY <2>10, <2>11 DEF r
<1>8. CASE n # 0 /\ ~(l[1].time > m) /\ ~(first < n)
  <2> DEFINE e == entry(IF rest(n) > m THEN Plus(m, l[1].time) ELSE rest(n))
             V == S \cup {e}
  <2>1. r = Append(l, e)
    BY <1>1, <1>8
  <2>2. e.h = h /\ e = [h |-> e.h, time |-> e.time, age |-> e.age]
    BY <1>3
  <2> HIDE DEF e
  <2>3. l \in Seq(V) /\ e \in V
    BY <1>2
  <2> HIDE DEF V
  <2>4. /\ r \in Seq(V) /\ Len(r) = n + 1 /\ r[n + 1] = e /\ n + 1 \in 1..(n + 1)
        /\ \A i \in 1..((n + 1) - 1) : r[i] = l[i]
        /\ \A i \in ((n + 1) + 1)..(n + 1) : r[i] = l[i - 1]
    BY <1>2, <2>1, <2>3
  <2>5. IsList(r) /\ PutAt(r, l, h, n + 1)
    BY <2>2, <2>4, PutList
  <2> QED
    BY <2>4, <2>5 DEF r
<1> QED
  BY <1>5, <1>6, <1>7, <1>8

\* What an entry more or less means for the handlers of a list.
LEMMA PutOnce ==
  ASSUME NEW l, NEW r, Len(l) \in Nat, NEW h, NEW q \in 1..(Len(l) + 1), PutAt(r, l, h, q)
  PROVE  /\ Armed(r) = Armed(l) \cup {h}
         /\ Once(l) /\ h \notin Armed(l) => Once(r)
         /\ Once(r) => Once(l) /\ h \notin Armed(l)
<1> DEFINE n == Len(l)
           to(i) == IF i < q THEN i ELSE i + 1
<1>1. Len(r) = n + 1 /\ r[q].h = h /\ n \in Nat /\ q \in 1..Len(r)
  BY DEF PutAt
<1>2. \A i \in 1..n : to(i) \in 1..Len(r) /\ to(i) # q /\ r[to(i)].h = l[i].h
  <2> SUFFICES ASSUME NEW i \in 1..n
               PROVE  to(i) \in 1..Len(r) /\ to(i) # q /\ r[to(i)].h = l[i].h
    OBVIOUS
  <2>1. CASE i < q
    <3>1. i \in 1..(q - 1) /\ to(i) = i /\ i \in 1..Len(r)
      BY <1>1, <2>1
    <3> QED
      BY <1>1, <2>1, <3>1 DEF PutAt
  <2>2. CASE ~(i < q)
    <3>1. i + 1 \in (q + 1)..Len(r) /\ to(i) = i + 1 /\ i + 1 \in 1..Len(r) /\ (i + 1) - 1 = i
      BY <1>1, <2>2
    <3>2. r[i + 1].h = l[(i + 1) - 1].h
      BY <3>1 DEF PutAt
    <3>3. i + 1 # q
      BY <1>1, <2>2
    <3> QED
      BY <3>1, <3>2, <3>3
  <2> QED
    BY <2>1, <2>2
<1>3. \A j \in 1..Len(r) : j # q => \E i \in 1..n : j = to(i)
  <2> SUFFICES ASSUME NEW j \in 1..Len(r), j # q PROVE \E i \in 1..n : j = to(i)
    OBVIOUS
  <2>1. CASE j < q
    <3>1. j \in 1..n /\ j = to(j)
      BY <1>1, <2>1
    <3> QED
      BY <3>1
  <2>2. CASE j > q
    <3>1. j - 1 \in 1..n /\ j = to(j - 1)
      BY <1>1, <2>2
    <3> QED
      BY <3>1
  <2> QED
    BY <1>1, <2>1, <2>2
<1>4. \A i, j \in 1..n : to(i) = to(j) => i = j
  BY <1>1
<1> HIDE DEF to, n
<1>5. Armed(r) = Armed(l) \cup {h}
  <2>1. ASSUME NEW x \in Armed(r) PROVE x \in Armed(l) \cup {h}
    <3>1. PICK j \in 1..Len(r) : x = r[j].h
      BY <2>1 DEF Armed
    <3> QED
      BY <1>1, <1>2, <1>3, <3>1 DEF Armed, n
  <2>2. ASSUME NEW x \in Armed(l) PROVE x \in Armed(r)
    BY <1>2, <2>2 DEF Armed, n
  <2>3. h \in Armed(r)
    BY <1>1 DEF Armed
  <2> QED
    BY <2>1, <2>2, <2>3
<1>6. ASSUME Once(l), h \notin Armed(l) PROVE Once(r)
  <2> SUFFICES ASSUME NEW i \in 1..Len(r), NEW j \in 1..Len(r), r[i].h = r[j].h
               PROVE  i = j
    BY DEF Once
  <2>1. ASSUME NEW k \in 1..n PROVE l[k].h # h
    BY <1>6, <2>1 DEF Armed, n
  <2>0. \A p \in 1..Len(r) : p # q => r[p].h # h
    <3> SUFFICES ASSUME NEW p \in 1..Len(r), p # q PROVE r[p].h # h
      OBVIOUS
    <3>1. PICK k \in 1..n : p = to(k)
      BY <1>3
    <3> QED
      BY <1>2, <2>1, <3>1
  <2>2. CASE i = q
    BY <1>1, <2>0, <2>2
  <2>3. CASE j = q
    BY <1>1, <2>0, <2>3
  <2>4. CASE i # q /\ j # q
    <3>1. PICK k \in 1..n : i = to(k)
      BY <1>3, <2>4
    <3>2. PICK kk \in 1..n : j = to(kk)
      BY <1>3, <2>4
    <3>3. l[k].h = l[kk].h
      BY <1>2, <3>1, <3>2
    <3> QED
      BY <1>6, <3>1, <3>2, <3>3 DEF Once, n
  <2> QED
    BY <2>2, <2>3, <2>4
<1>7. ASSUME Once(r) PROVE Once(l) /\ h \notin Armed(l)
  <2>1. Once(l)
    <3> SUFFICES ASSUME NEW i \in 1..n, NEW j \in 1..n, l[i].h = l[j].h PROVE i = j
      BY DEF Once, n
    <3>1. to(i) = to(j)
      BY <1>2, <1>7 DEF Once
    <3> QED
      BY <1>4, <3>1
  <2>2. h \notin Armed(l)
    <3> SUFFICES ASSUME NEW i \in 1..n, l[i].h = h PROVE FALSE
      BY DEF Armed, n
    <3> QED
      BY <1>1, <1>2, <1>7 DEF Once
  <2> QED
    BY <2>1, <2>2
<1> QED
  BY <1>5, <1>6, <1>7

\* sys_untimeout takes one entry of h out, if there is one.
LEMMA UntimeoutTakes ==
  ASSUME NEW l, IsList(l), NEW h
  PROVE  /\ h \notin Armed(l) => sys_untimeout(l, h) = l
         /\ h \in Armed(l) =>
              /\ IsList(sys_untimeout(l, h))
              /\ \E q \in 1..(Len(sys_untimeout(l, h)) + 1) : PutAt(l, sys_untimeout(l, h), h, q)
<1> DEFINE n == Len(l)
           at == {i \in 1..n : l[i].h = h}
           k == CHOOSE i \in at : \A j \in at : i <= j
           u == IF k < n THEN Shift(l, k + 1, l[k].time) ELSE l
           a == SubSeq(u, 1, k - 1)
           b == SubSeq(u, k + 1, n)
           r == sys_untimeout(l, h)
<1>1. r = IF at = {} THEN l ELSE a \o b
  BY DEF sys_untimeout
<1>2. h \in Armed(l) <=> at # {}
  BY DEF Armed
<1>3. n \in Nat
  BY DEF IsList
<1>4. CASE at = {}
  BY <1>1, <1>2, <1>4 DEF r
<1>5. CASE at # {}
  <2>1. k \in at
    <3>1. \E x \in at : \A y \in at : x <= y
      <4>1. at \subseteq Nat
        BY <1>3
      <4> HIDE DEF at
      <4> QED
        BY <1>5, <4>1, Least
    <3> HIDE DEF at
    <3> QED
      BY <3>1
  <2>2. k \in 1..n /\ l[k].h = h
    BY <2>1
  <2> HIDE DEF k, at
  <2>3. IsList(u) /\ Len(u) = n /\ \A i \in 1..n : u[i].h = l[i].h
    <3>1. CASE k < n
      <4>1. k + 1 \in 1..n
        BY <1>3, <2>2, <3>1
      <4>2. IsList(Shift(l, k + 1, l[k].time)) /\ Len(Shift(l, k + 1, l[k].time)) = n
            /\ \A i \in 1..n : Shift(l, k + 1, l[k].time)[i].h = l[i].h
        BY <4>1, ShiftKeeps
      <4> QED
        BY <3>1, <4>2
    <3> QED
      BY <3>1
  <2> HIDE DEF u
  <2> DEFINE V == {u[i] : i \in 1..n}
  <2>4. \A i \in 1..n : u[i] \in V
    OBVIOUS
  <2> HIDE DEF V
  <2>5. a \in Seq(V) /\ Len(a) = k - 1 /\ \A i \in 1..(k - 1) : a[i] = u[i]
    <3>1. 1 \in Int /\ k - 1 \in Int /\ \A i \in 1..(k - 1) : u[i] \in V
      BY <1>3, <2>2, <2>4
    <3>2. /\ SubSeq(u, 1, k - 1) \in Seq(V)
          /\ Len(SubSeq(u, 1, k - 1)) = IF 1 <= k - 1 THEN (k - 1) - 1 + 1 ELSE 0
          /\ \A i \in 1..((k - 1) - 1 + 1) : SubSeq(u, 1, k - 1)[i] = u[1 + i - 1]
      BY <3>1, SubSeqProperties
    <3> QED
      BY <1>3, <2>2, <3>2
  <2>6. b \in Seq(V) /\ Len(b) = n - k /\ \A i \in 1..(n - k) : b[i] = u[k + i]
    <3>1. k + 1 \in Int /\ n \in Int /\ \A i \in (k + 1)..n : u[i] \in V
      BY <1>3, <2>2, <2>4
    <3>2. /\ SubSeq(u, k + 1, n) \in Seq(V)
          /\ Len(SubSeq(u, k + 1, n)) = IF k + 1 <= n THEN n - (k + 1) + 1 ELSE 0
          /\ \A i \in 1..(n - (k + 1) + 1) : SubSeq(u, k + 1, n)[i] = u[(k + 1) + i - 1]
      BY <3>1, SubSeqProperties
    <3> QED
      BY <1>3, <2>2, <3>2
  <2> HIDE DEF a, b
  <2>7. /\ r \in Seq(V) /\ Len(r) = n - 1
        /\ \A i \in 1..(n - 1) : r[i] = IF i <= k - 1 THEN a[i] ELSE b[i - (k - 1)]
    <3>1. r = a \o b
      BY <1>1, <1>5
    <3>2. a \in Seq(V) /\ b \in Seq(V)
      BY <2>5, <2>6
    <3>3. /\ a \o b \in Seq(V) /\ Len(a \o b) = Len(a) + Len(b)
          /\ \A i \in 1..(Len(a) + Len(b)) : (a \o b)[i] =
               IF i <= Len(a) THEN a[i] ELSE b[i - Len(a)]
      BY <3>2, ConcatProperties
    <3>4. Len(a) = k - 1 /\ Len(a) + Len(b) = n - 1
      BY <1>3, <2>2, <2>5, <2>6
    <3> QED
      BY <3>1, <3>3, <3>4
  <2>8. \A i \in 1..(n - 1) : /\ i < k => r[i] = u[i]
                              /\ i >= k => r[i] = u[i + 1]
    <3> SUFFICES ASSUME NEW i \in 1..(n - 1)
                 PROVE  (i < k => r[i] = u[i]) /\ (i >= k => r[i] = u[i + 1])
      OBVIOUS
    <3>1. CASE i < k
      BY <1>3, <2>2, <2>5, <2>7, <3>1
    <3>2. CASE i >= k
      <4>1. r[i] = b[i - (k - 1)] /\ i - (k - 1) \in 1..(n - k) /\ k + (i - (k - 1)) = i + 1
        BY <1>3, <2>2, <2>7, <3>2
      <4> QED
        BY <1>3, <2>2, <2>6, <3>2, <4>1
    <3> QED
      BY <1>3, <2>2, <3>1, <3>2
  <2> HIDE DEF r
  <2>9. r \in Seq({r[i] : i \in 1..Len(r)})
    BY <2>7, SeqSelf
  <2>10. \A i \in 1..n : u[i] = [h |-> u[i].h, time |-> u[i].time, age |-> u[i].age]
    BY <2>3 DEF IsList
  <2>11. \A i \in 1..Len(r) : r[i] = [h |-> r[i].h, time |-> r[i].time, age |-> r[i].age]
    <3> SUFFICES ASSUME NEW i \in 1..Len(r)
                 PROVE  r[i] = [h |-> r[i].h, time |-> r[i].time, age |-> r[i].age]
      OBVIOUS
    <3>1. PICK j \in 1..n : r[i] = u[j]
      <4>1. i \in 1..(n - 1) /\ i \in 1..n /\ i + 1 \in 1..n /\ (i < k \/ i >= k)
        BY <1>3, <2>2, <2>7
      <4> QED
        BY <2>8, <4>1
    <3> QED
      BY <2>10, <3>1
  <2>12. PutAt(l, r, h, k)
    <3>1. Len(l) = Len(r) + 1
      BY <1>3, <2>7
    <3>2. \A i \in 1..(k - 1) : i \in 1..(n - 1) /\ i \in 1..n /\ i < k
      BY <1>3, <2>2
    <3>3. \A i \in 1..(k - 1) : l[i].h = r[i].h
      BY <2>3, <2>8, <3>2
    <3>4. \A i \in (k + 1)..n : i - 1 \in 1..(n - 1) /\ i - 1 >= k /\ (i - 1) + 1 = i /\ i \in 1..n
      BY <1>3, <2>2
    <3>5. \A i \in (k + 1)..n : l[i].h = r[i - 1].h
      BY <2>3, <2>8, <3>4
    <3> QED
      BY <2>2, <3>1, <3>3, <3>5 DEF PutAt
  <2>13. k \in 1..(Len(r) + 1)
    BY <1>3, <2>2, <2>7
  <2> QED
    BY <1>2, <1>5, <2>9, <2>11, <2>12, <2>13 DEF IsList, r
<1> QED
  BY <1>4, <1>5

(***************************************************************************)
(* The operations on the list keep one entry spare.                        *)
(***************************************************************************)
LEMMA Pool ==
  PoolSize \in Nat /\ PoolSize > 1 /\ Tftp \notin Cyclic
  BY TimeoutsAssumption DEF PoolSize, Cyclic

LEMMA Apart ==
  ASSUME NEW A, NEW B, NEW x, x \notin A, x \notin B, A \cup {x} = B \cup {x}
  PROVE  A = B
  OBVIOUS

\* sys_timeout puts one entry in, or does nothing without a free one.
LEMMA TimeoutArms ==
  ASSUME NEW l, IsList(l), NEW last, NEW h, NEW r, r = sys_timeout(l, last, h)[1]
  PROVE  /\ Len(l) >= PoolSize => r = l
         /\ Len(l) < PoolSize =>
              /\ IsList(r) /\ Len(r) = Len(l) + 1
              /\ Armed(r) = Armed(l) \cup {h}
              /\ Once(l) /\ h \notin Armed(l) => Once(r)
<1>1. Len(l) \in Nat /\ PoolSize \in Nat
  BY Pool DEF IsList
<1>2. CASE Len(l) >= PoolSize
  BY <1>1, <1>2 DEF sys_timeout
<1>3. CASE Len(l) < PoolSize
  <2>1. \E d : r = Insert(l, h, d)
    <3>1. CASE l = <<>>
      <4>1. r = Insert(l, h, 0)
        BY <1>1, <1>3, <3>1 DEF sys_timeout
      <4> QED
        BY <4>1
    <3>2. CASE l # <<>>
      <4>1. r = Insert(l, h, Sub(sys_now, last))
        BY <1>1, <1>3, <3>2 DEF sys_timeout
      <4> QED
        BY <4>1
    <3> QED
      BY <3>1, <3>2
  <2>2. PICK d : r = Insert(l, h, d)
    BY <2>1
  <2>3. IsList(r) /\ \E q \in 1..(Len(l) + 1) : PutAt(r, l, h, q)
    BY <2>2, InsertPuts
  <2>4. PICK q \in 1..(Len(l) + 1) : PutAt(r, l, h, q)
    BY <2>3
  <2>5. Len(r) = Len(l) + 1
    BY <2>4 DEF PutAt
  <2>6. Armed(r) = Armed(l) \cup {h} /\ (Once(l) /\ h \notin Armed(l) => Once(r))
    BY <1>1, <2>4, PutOnce
  <2> QED
    BY <1>1, <1>3, <2>3, <2>5, <2>6
<1> QED
  BY <1>1, <1>2, <1>3

\* Taking the first entry off the list.
LEMMA TailTakes ==
  ASSUME NEW l, IsList(l), l # <<>>, Once(l)
  PROVE  /\ IsList(Tail(l)) /\ Len(Tail(l)) = Len(l) - 1 /\ Len(l) > 0 /\ Once(Tail(l))
         /\ Head(l).h \notin Armed(Tail(l))
         /\ Armed(l) = Armed(Tail(l)) \cup {Head(l).h}
<1> DEFINE S == {l[i] : i \in 1..Len(l)}
           t == Tail(l)
<1>1. l \in Seq(S) /\ Len(l) \in Nat /\ Len(l) > 0
  <2>1. l \in Seq(S)
    BY DEF IsList
  <2> HIDE DEF S
  <2> QED
    BY <2>1, EmptySeq
<1> HIDE DEF S
<1>2. /\ t \in Seq(S) /\ Len(t) = Len(l) - 1 /\ Head(l) = l[1]
      /\ \A i \in 1..Len(t) : t[i] = l[i + 1]
  BY <1>1
<1> HIDE DEF t
<1>3. t \in Seq({t[i] : i \in 1..Len(t)})
  BY <1>2, SeqSelf
<1>4. \A i \in 1..Len(t) : i + 1 \in 1..Len(l)
  BY <1>1, <1>2
<1>5. IsList(t)
  BY <1>2, <1>3, <1>4 DEF IsList
<1>6. PutAt(l, t, Head(l).h, 1) /\ 1 \in 1..(Len(t) + 1) /\ Len(t) \in Nat
  <2>1. \A i \in 2..Len(l) : i - 1 \in 1..Len(t) /\ (i - 1) + 1 = i
    BY <1>1, <1>2
  <2>2. \A i \in 2..Len(l) : l[i].h = t[i - 1].h
    BY <1>2, <2>1
  <2> QED
    BY <1>1, <1>2, <2>2 DEF PutAt
<1>7. Armed(l) = Armed(t) \cup {Head(l).h} /\ Once(t) /\ Head(l).h \notin Armed(t)
  BY <1>6, PutOnce
<1> QED
  BY <1>1, <1>2, <1>5, <1>7 DEF t

\* Arming tftp_tmr takes the spare entry, unless it is armed already.
LEMMA ArmSpare ==
  ASSUME NEW l, OneSpare(l), NEW last, NEW r, r = sys_timeout(l, last, Tftp)[1]
  PROVE  OneSpare(r) /\ Len(r) = PoolSize
<1>1. CASE Len(l) = PoolSize
  <2>1. r = l
    BY <1>1, Pool, TimeoutArms DEF OneSpare
  <2> QED
    BY <1>1, <2>1
<1>2. CASE Len(l) # PoolSize
  <2>1. Len(l) = PoolSize - 1 /\ Armed(l) = Cyclic /\ IsList(l) /\ Once(l)
    BY <1>2 DEF OneSpare
  <2>2. Len(l) < PoolSize /\ Len(l) + 1 = PoolSize
    BY <2>1, Pool
  <2>3. IsList(r) /\ Len(r) = Len(l) + 1 /\ Armed(r) = Armed(l) \cup {Tftp} /\ Once(r)
    BY <2>1, <2>2, Pool, TimeoutArms
  <2> QED
    BY <2>1, <2>2, <2>3 DEF OneSpare
<1> QED
  BY <1>1, <1>2

\* Cancelling it gives the entry back.
LEMMA CancelSpare ==
  ASSUME NEW l, OneSpare(l)
  PROVE  OneSpare(sys_untimeout(l, Tftp))
<1> DEFINE r == sys_untimeout(l, Tftp)
<1>1. IsList(l) /\ Once(l) /\ Len(l) \in Nat
  BY DEF OneSpare, IsList
<1>2. CASE Len(l) # PoolSize
  <2>1. Tftp \notin Armed(l)
    BY <1>2, Pool DEF OneSpare
  <2>2. r = l
    BY <1>1, <2>1, UntimeoutTakes
  <2> QED
    BY <2>2
<1>3. CASE Len(l) = PoolSize
  <2>1. Armed(l) = Cyclic \cup {Tftp}
    BY <1>3 DEF OneSpare
  <2>2. IsList(r) /\ \E q \in 1..(Len(r) + 1) : PutAt(l, r, Tftp, q)
    BY <1>1, <2>1, UntimeoutTakes
  <2> HIDE DEF r
  <2>3. PICK q \in 1..(Len(r) + 1) : PutAt(l, r, Tftp, q)
    BY <2>2
  <2>4. Len(r) \in Nat
    BY <2>2 DEF IsList
  <2>5. Armed(l) = Armed(r) \cup {Tftp} /\ Once(r) /\ Tftp \notin Armed(r)
    BY <1>1, <2>3, <2>4, PutOnce
  <2>6. Len(r) = PoolSize - 1 /\ Len(r) # PoolSize
    BY <1>3, <2>3, <2>4, Pool DEF PutAt
  <2>7. Armed(r) = Cyclic
    BY <2>1, <2>5, Pool
  <2>8. OneSpare(r)
    BY <2>2, <2>5, <2>6, <2>7 DEF OneSpare
  <2> QED
    BY <2>8 DEF r
<1> QED
  BY <1>2, <1>3

\* A cyclic timer taken off the list finds the entry it leaves.
LEMMA CyclicSpare ==
  ASSUME NEW l, OneSpare(l), l # <<>>, NEW last, NEW r,
         r = sys_timeout(Tail(l), last, Head(l).h)[1]
  PROVE  OneSpare(r) /\ Len(r) = Len(l)
<1> DEFINE t == Tail(l)
<1>1. IsList(l) /\ Once(l) /\ Len(l) \in Nat /\ Len(l) <= PoolSize
  BY Pool DEF OneSpare, IsList
<1>2. /\ IsList(t) /\ Len(t) = Len(l) - 1 /\ Len(l) > 0 /\ Once(t)
      /\ Head(l).h \notin Armed(t) /\ Armed(l) = Armed(t) \cup {Head(l).h}
  BY <1>1, TailTakes
<1>3. Len(t) < PoolSize
  BY <1>1, <1>2, Pool
<1>4. r = sys_timeout(t, last, Head(l).h)[1]
  OBVIOUS
<1> HIDE DEF t
<1>5. IsList(r) /\ Len(r) = Len(t) + 1 /\ Armed(r) = Armed(t) \cup {Head(l).h} /\ Once(r)
  BY <1>2, <1>3, <1>4, TimeoutArms
<1>6. Len(r) = Len(l) /\ Armed(r) = Armed(l)
  BY <1>1, <1>2, <1>5
<1> QED
  BY <1>5, <1>6 DEF OneSpare

\* tftp_tmr taken off the list leaves the spare entry.
LEMMA TftpSpare ==
  ASSUME NEW l, OneSpare(l), l # <<>>, Head(l).h = Tftp
  PROVE  OneSpare(Tail(l)) /\ Len(l) = PoolSize
<1>1. IsList(l) /\ Once(l) /\ Len(l) \in Nat
  BY DEF OneSpare, IsList
<1>2. /\ IsList(Tail(l)) /\ Len(Tail(l)) = Len(l) - 1 /\ Once(Tail(l))
      /\ Tftp \notin Armed(Tail(l)) /\ Armed(l) = Armed(Tail(l)) \cup {Tftp}
  BY <1>1, TailTakes
<1>3. Len(l) = PoolSize /\ Armed(l) = Cyclic \cup {Tftp}
  BY <1>2, Pool DEF OneSpare
<1>4. Len(Tail(l)) = PoolSize - 1 /\ Len(Tail(l)) # PoolSize /\ Armed(Tail(l)) = Cyclic
  <2>1. Len(Tail(l)) = PoolSize - 1 /\ Len(Tail(l)) # PoolSize
    BY <1>2, <1>3, Pool
  <2>2. Armed(Tail(l)) = Cyclic
    BY <1>2, <1>3, Pool, Apart
  <2> QED
    BY <2>1, <2>2
<1> QED
  BY <1>2, <1>3, <1>4 DEF OneSpare

(***************************************************************************)
(* sys_timeouts_init fills all entries but one.                            *)
(***************************************************************************)
LEMMA CyclicCount ==
  IsFiniteSet(Cyclic) /\ Cardinality(Cyclic) = PoolSize - 1
<1> DEFINE D == 2..PoolSize
           f == [k \in D |-> lwip_cyclic_timers[k]]
<1>1. IsFiniteSet(D) /\ Cardinality(D) = PoolSize - 1
  <2>1. 2 \in Int /\ PoolSize \in Int /\ PoolSize >= 2
    BY Pool
  <2>2. IsFiniteSet(2..PoolSize) /\ Cardinality(2..PoolSize) = IF 2 > PoolSize THEN 0 ELSE PoolSize - 2 + 1
    BY <2>1, FS_Interval
  <2> QED
    BY <2>1, <2>2
<1>2. f \in Bijection(D, Cyclic)
  <2>1. f \in [D -> Cyclic]
    BY DEF Cyclic, PoolSize
  <2>2. \A a, b \in D : f[a] = f[b] => a = b
    BY Pool, TimeoutsAssumption DEF PoolSize
  <2>3. \A t \in Cyclic : \E k \in D : f[k] = t
    BY DEF Cyclic, PoolSize
  <2> HIDE DEF D, f
  <2> QED
    BY <2>1, <2>2, <2>3 DEF Bijection, Injection, IsInjective, Surjection
<1> HIDE DEF D, f
<1>3. ExistsBijection(D, Cyclic)
  BY <1>2 DEF ExistsBijection
<1> QED
  BY <1>1, <1>3, FS_Bijection

LEMMA PoolInit ==
  Init => PoolInv
<1> SUFFICES ASSUME Init PROVE PoolInv
  OBVIOUS
<1> DEFINE n == PoolSize - 1
<1>1. n \in Nat /\ Cardinality(Cyclic) = n /\ IsFiniteSet(Cyclic) /\ n # PoolSize
  BY Pool, CyclicCount
<1>2. PICK s \in [1..n -> Cyclic] :
        /\ \A i, j \in DOMAIN s : i < j => s[i] # s[j] /\ Msecs[s[i]] <= Msecs[s[j]]
        /\ next_timeout = [i \in DOMAIN s |->
             [h |-> s[i], age |-> 0,
              time |-> Msecs[s[i]] - (IF i = 1 THEN 0 ELSE Msecs[s[i - 1]])]]
  BY <1>1 DEF Init
<1> DEFINE e(i) == [h |-> s[i], age |-> 0,
                    time |-> Msecs[s[i]] - (IF i = 1 THEN 0 ELSE Msecs[s[i - 1]])]
           S == {e(i) : i \in 1..n}
<1>3. next_timeout = [i \in 1..n |-> e(i)]
  BY <1>2
<1>4. \A i \in 1..n : /\ e(i) \in S /\ e(i).h = s[i]
                      /\ e(i) = [h |-> e(i).h, time |-> e(i).time, age |-> e(i).age]
  OBVIOUS
<1> HIDE DEF n, e, S
<1>5. next_timeout \in Seq(S) /\ Len(next_timeout) = n
  BY <1>1, <1>3, <1>4
<1>6. \A i \in 1..n : next_timeout[i] = e(i)
  BY <1>3
<1>7. IsList(next_timeout)
  <2>1. next_timeout \in Seq({next_timeout[i] : i \in 1..Len(next_timeout)})
    BY <1>5, SeqSelf
  <2> QED
    BY <1>4, <1>5, <1>6, <2>1 DEF IsList
<1>8. \A i, j \in 1..n : s[i] = s[j] => i = j
  <2> SUFFICES ASSUME NEW i \in 1..n, NEW j \in 1..n, i # j PROVE s[i] # s[j]
    OBVIOUS
  <2>1. DOMAIN s = 1..n /\ (i < j \/ j < i)
    BY <1>1, <1>2
  <2> QED
    BY <1>2, <2>1
<1>9. Once(next_timeout)
  BY <1>4, <1>5, <1>6, <1>8 DEF Once
<1>10. \A t \in Cyclic : \E i \in 1..n : s[i] = t
  <2>1. s \in Injection(1..n, Cyclic)
    BY <1>2, <1>8 DEF Injection, IsInjective
  <2>2. Cardinality(1..n) = n
    <3>1. 1 \in Int /\ n \in Int
      BY <1>1
    <3>2. Cardinality(1..n) = IF 1 > n THEN 0 ELSE n - 1 + 1
      BY <3>1, FS_Interval
    <3> QED
      BY <1>1, <3>2
  <2>3. s \in Surjection(1..n, Cyclic)
    BY <1>1, <2>1, <2>2, FS_Injection
  <2> QED
    BY <2>3 DEF Surjection
<1>11. Armed(next_timeout) = Cyclic
  <2>1. ASSUME NEW x \in Armed(next_timeout) PROVE x \in Cyclic
    BY <1>2, <1>4, <1>5, <1>6, <2>1 DEF Armed
  <2>2. ASSUME NEW x \in Cyclic PROVE x \in Armed(next_timeout)
    BY <1>4, <1>5, <1>6, <1>10, <2>2 DEF Armed
  <2> QED
    BY <2>1, <2>2
<1>12. ~session
  BY DEF Init
<1> QED
  BY <1>1, <1>5, <1>7, <1>9, <1>11, <1>12 DEF PoolInv, OneSpare, n

(***************************************************************************)
(* Every step keeps the invariant.                                         *)
(***************************************************************************)
LEMMA TickKeeps ==
  PoolInv /\ Tick => PoolInv'
<1> SUFFICES ASSUME PoolInv, Tick PROVE PoolInv'
  OBVIOUS
<1> DEFINE l == next_timeout
           late(i) == sys_now # ms_tmrctr(ticks') /\ l[i].age < AgeCap
           e(i) == IF late(i) THEN [l[i] EXCEPT !.age = @ + 1] ELSE l[i]
           S == {e(i) : i \in 1..Len(l)}
           r == next_timeout'
<1>1. r = [i \in 1..Len(l) |-> e(i)] /\ session' = session
  BY DEF Tick
<1>2. IsList(l) /\ Len(l) \in Nat
  BY DEF PoolInv, OneSpare, IsList
<1>3. \A i \in 1..Len(l) : /\ e(i) \in S /\ e(i).h = l[i].h
                           /\ e(i) = [h |-> e(i).h, time |-> e(i).time, age |-> e(i).age]
  <2> SUFFICES ASSUME NEW i \in 1..Len(l)
               PROVE  /\ e(i) \in S /\ e(i).h = l[i].h
                      /\ e(i) = [h |-> e(i).h, time |-> e(i).time, age |-> e(i).age]
    OBVIOUS
  <2>1. l[i] = [h |-> l[i].h, time |-> l[i].time, age |-> l[i].age]
    BY <1>2 DEF IsList
  <2> HIDE DEF late
  <2>2. e(i) \in S
    OBVIOUS
  <2>3. e(i) = [h |-> l[i].h, time |-> l[i].time,
                age |-> IF late(i) THEN l[i].age + 1 ELSE l[i].age]
    BY <2>1
  <2> QED
    BY <2>2, <2>3
<1> HIDE DEF e, S, late
<1>4. r \in Seq(S) /\ Len(r) = Len(l)
  BY <1>1, <1>2, <1>3
<1>5. \A i \in 1..Len(l) : r[i] = e(i)
  BY <1>1
<1> HIDE DEF r
<1>6. IsList(r)
  <2>1. r \in Seq({r[i] : i \in 1..Len(r)})
    BY <1>4, SeqSelf
  <2> QED
    BY <1>3, <1>4, <1>5, <2>1 DEF IsList
<1>7. Armed(r) = Armed(l) /\ (Once(l) => Once(r))
  BY <1>3, <1>4, <1>5 DEF Armed, Once
<1>8. OneSpare(l) /\ (session => Len(l) = PoolSize)
  BY DEF PoolInv
<1>9. OneSpare(r) /\ (session' => Len(r) = PoolSize)
  <2>1. OneSpare(r)
    BY <1>4, <1>6, <1>7, <1>8 DEF OneSpare
  <2> QED
    BY <1>1, <1>4, <1>8, <2>1
<1> QED
  BY <1>9 DEF PoolInv, OneSpare, IsList, Once, Armed, PoolSize, Cyclic, r

LEMMA LoopKeeps ==
  PoolInv /\ Loop => PoolInv'
<1> SUFFICES ASSUME PoolInv, Loop PROVE PoolInv'
  OBVIOUS
<1> DEFINE l == next_timeout
           r == next_timeout'
<1>1. OneSpare(l) /\ (session => Len(l) = PoolSize)
  BY DEF PoolInv
<1>2. OneSpare(r) /\ (session' => Len(r) = PoolSize)
  <2>1. CASE UNCHANGED <<list, session>>
    BY <1>1, <2>1 DEF list
  <2>2. CASE casper_rx_packet
    <3>1. CASE RxNothing
      BY <2>1, <3>1 DEF RxNothing
    <3>2. CASE Arm
      <4>1. r = sys_timeout(l, timeouts_last_time, Tftp)[1]
        BY <3>2 DEF Arm, SetList
      <4> HIDE DEF l, r
      <4> QED
        BY <1>1, <4>1, ArmSpare
    <3>3. CASE RxClose
      <4>1. r = sys_untimeout(l, Tftp) /\ ~session'
        BY <3>3 DEF RxClose, Cancel, SetList
      <4> HIDE DEF l, r
      <4> QED
        BY <1>1, <4>1, CancelSpare
    <3> QED
      BY <2>2, <3>1, <3>2, <3>3 DEF casper_rx_packet, RxOpen, RxRefused
  <2>3. CASE PollEarly \/ PollCheck \/ CheckDone
    BY <2>1, <2>3 DEF PollEarly, PollCheck, CheckDone
  <2>4. CASE Fire
    <3> DEFINE t == Tail(l)
               last == Plus(timeouts_last_time, Head(l).time)
    <3>1. l # <<>> /\ (FireCyclic(t, last) \/ FireTftp(t, last))
      BY <2>4 DEF Fire, Expired
    <3>2. CASE FireCyclic(t, last)
      <4>1. r = sys_timeout(Tail(l), last, Head(l).h)[1] /\ session' = session
        BY <3>2 DEF FireCyclic, SetList
      <4> HIDE DEF l, r, last
      <4>2. OneSpare(r) /\ Len(r) = Len(l)
        BY <1>1, <3>1, <4>1, CyclicSpare
      <4> QED
        BY <1>1, <4>1, <4>2
    <3>3. CASE FireTftp(t, last)
      <4> DEFINE armed == sys_timeout(t, last, Tftp)
      <4>1. Head(l).h = Tftp
        BY <3>3 DEF FireTftp
      <4>2. \/ r = t /\ ~session'
            \/ r = armed[1]
            \/ r = sys_untimeout(armed[1], Tftp) /\ ~session'
        BY <3>3 DEF FireTftp, SetList, Cancel
      <4> HIDE DEF l, r, last
      <4>3. OneSpare(t)
        BY <1>1, <3>1, <4>1, TftpSpare
      <4> HIDE DEF t
      <4>4. OneSpare(armed[1]) /\ Len(armed[1]) = PoolSize
        BY <4>3, ArmSpare
      <4> HIDE DEF armed
      <4>5. OneSpare(sys_untimeout(armed[1], Tftp))
        BY <4>4, CancelSpare
      <4> QED
        BY <4>2, <4>3, <4>4, <4>5
    <3> QED
      BY <3>1, <3>2, <3>3
  <2> QED
    BY <2>2, <2>3, <2>4 DEF Loop, sys_check_timeouts
<1> QED
  BY <1>2 DEF PoolInv, OneSpare, IsList, Once, Armed, PoolSize, Cyclic

LEMMA PoolGives ==
  PoolInv => TimersSurvive
<1> SUFFICES ASSUME PoolInv PROVE TimersSurvive
  OBVIOUS
<1> DEFINE l == next_timeout
<1>1. Once(l) /\ Cyclic \subseteq Armed(l) /\ (session => Tftp \in Armed(l))
  BY DEF PoolInv, OneSpare
<1>2. ASSUME NEW h \in Cyclic PROVE Cardinality(EntriesOf(h)) = 1
  <2>1. PICK i \in 1..Len(l) : l[i].h = h
    BY <1>1, <1>2 DEF Armed
  <2>2. EntriesOf(h) = {i}
    BY <1>1, <2>1 DEF EntriesOf, Once
  <2> QED
    BY <2>2, FS_Singleton
<1>3. session => EntriesOf(Tftp) # {}
  BY <1>1 DEF Armed, EntriesOf
<1> QED
  BY <1>2, <1>3 DEF TimersSurvive

\* In every configuration of the stack, sys_timeout finds a free entry of the
\* pool for each cyclic timer that arms itself again and for a transfer's
\* timer, however packets, expiries and the clock interleave: each cyclic timer
\* has exactly one entry of the list, and an open transfer has its own.
THEOREM TimersAlwaysArmed == Spec => []TimersSurvive
<1>1. PoolInv /\ [Next]_vars => PoolInv'
  <2> SUFFICES ASSUME PoolInv, [Next]_vars PROVE PoolInv'
    OBVIOUS
  <2>1. CASE Next
    BY <2>1, TickKeeps, LoopKeeps DEF Next
  <2>2. CASE UNCHANGED vars
    BY <2>2, SMTT(30) DEF vars, list, PoolInv, OneSpare, IsList, Once, Armed, PoolSize, Cyclic
  <2> QED
    BY <2>1, <2>2
<1> QED
  BY <1>1, PoolInit, PoolGives, PTL DEF Spec
=============================================================================
