-------------------------------- MODULE Csl --------------------------------
(***************************************************************************)
(* The compact sorted list: written by util/cit2csl.py, searched and       *)
(* iterated by csl.c.  A list is the sequence of bytes in memory; byte 0   *)
(* of the C array is csl[1].  Characters are numbers above 0, as a name    *)
(* ends with a NUL.  The fields of a payload are one byte each here        *)
(* instead of 4, 4 and 1.                                                  *)
(***************************************************************************)
EXTENDS Integers, Sequences, SequencesExt

PayloadLen == 3
Payload(e) == <<e.offset, e.length, e.typecode>>

\* Mutant: one field too early.
TypeIdxOff == 1

\* The plidx casper_find_dev_by_typecode passes, from 0.
TypeIdx == 2

\* The order of list.sort() in Python: by character, prefixes first.
Before(m, n) ==
  \/ IsStrictPrefix(m, n)
  \/ \E i \in 1..Len(m) : i <= Len(n) /\ m[i] < n[i] /\ \A j \in 1..(i - 1) : m[j] = n[j]

SortedEntries(entries) == SetToSortSeq(entries, LAMBDA d, e : Before(d.name, e.name))

\* The characters a name shares with the one before it.
Reuse(prev, name) ==
  CHOOSE n \in 0..Len(name) :
    /\ n <= Len(prev) /\ \A i \in 1..n : prev[i] = name[i]
    /\ n = Len(prev) \/ n = Len(name) \/ prev[n + 1] # name[n + 1]

\* cit2csl.py: the entries in order, each with its head size (the first with the
\* payload length in its place), tail size, tail and payload; two zeros.
Encode(entries) ==
  LET s == SortedEntries(entries)
      reuse(i) == IF i = 1 THEN 0 ELSE Reuse(s[i - 1].name, s[i].name)
      entry(i) == <<IF i = 1 THEN PayloadLen ELSE reuse(i), Len(s[i].name) - reuse(i)>>
                    \o SubSeq(s[i].name, reuse(i) + 1, Len(s[i].name))
                    \o Payload(s[i])
  IN FlattenSeq([i \in 1..Len(s) |-> entry(i)]) \o <<0, 0>>

-----------------------------------------------------------------------------
\* How many characters of key, after the first n, match the tail of the entry
\* whose tail size is at p.
Matched(csl, key, p, n) ==
  CHOOSE m \in 0..csl[p] :
    /\ m <= Len(key) - n /\ \A i \in 1..m : csl[p + i] = key[n + i]
    /\ m = csl[p] \/ m = Len(key) - n \/ csl[p + m + 1] # key[n + m + 1]

\* The next entry, from its head size at p on, whose head is at most n.
RECURSIVE SkipLonger(_, _, _)
SkipLonger(csl, p, n) ==
  IF csl[p] > n THEN SkipLonger(csl, p + 2 + csl[p + 1] + csl[1], n) ELSE p

\* Mutant: an entry that shares less than what has matched does not end the
\* search.
RECURSIVE SearchOn(_, _, _, _)
SearchOn(csl, key, p, n) ==
  IF csl[p] = 0 THEN 0 ELSE
  LET m == Matched(csl, key, p, n)
      next == SkipLonger(csl, p + 1 + csl[p] + csl[1], n + m)
  IN IF n + m = Len(key) THEN IF m = csl[p] THEN p + 1 + m ELSE 0
     ELSE SearchOn(csl, key, next + 1, n + m)

\* The loop of csl_find_key, at an entry whose tail size is at p, when n
\* characters of key have matched: the address of the payload, or 0.
RECURSIVE Search(_, _, _, _)
Search(csl, key, p, n) ==
  IF csl[p] = 0 THEN 0 ELSE
  LET m == Matched(csl, key, p, n)
      next == SkipLonger(csl, p + 1 + csl[p] + csl[1], n + m)
  IN IF n + m = Len(key) THEN IF m = csl[p] THEN p + 1 + m ELSE 0
     ELSE IF csl[next] < n + m THEN 0
     ELSE Search(csl, key, next + 1, n + m)

csl_find_key(csl, key) == Search(csl, key, 2, 0)

-----------------------------------------------------------------------------
\* The static variables of the iterator: csl_pcsl, csl_key, csl_pl_len, csl_nhead.
csl_iter_init(csl) == [pcsl |-> 2, key |-> <<>>, pl_len |-> csl[1], nhead |-> 0]

\* csl_iter_next: the iterator after the call, and the address of the payload or
\* 0.  The pointer moves on even at the end of the list.
csl_iter_next(csl, it) ==
  LET ntail == csl[it.pcsl]
      payload == it.pcsl + 1 + ntail
  IN IF ntail = 0
       THEN [it |-> [it EXCEPT !.pcsl = @ + 1], payload |-> 0]
       ELSE [it |-> [it EXCEPT
                       !.key = SubSeq(it.key, 1, it.nhead)
                                 \o SubSeq(csl, it.pcsl + 1, it.pcsl + ntail),
                       !.pcsl = payload + it.pl_len + 1,
                       !.nhead = csl[payload + it.pl_len]],
             payload |-> payload]

\* csl_find_by_payload for a new search, and its loop.
RECURSIVE NextByPayload(_, _, _, _)
NextByPayload(csl, it, plidx, plval) ==
  LET n == csl_iter_next(csl, it)
  IN IF n.payload = 0 \/ csl[n.payload + plidx] = plval THEN n
     ELSE NextByPayload(csl, n.it, plidx, plval)

csl_find_by_payload(csl, plidx, plval) ==
  LET it == csl_iter_init(csl)
  IN IF plidx > it.pl_len THEN [it |-> it, payload |-> 0]
     ELSE NextByPayload(csl, it, plidx, plval)
=============================================================================
