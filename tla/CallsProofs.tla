----------------------------- MODULE CallsProofs -----------------------------
(***************************************************************************)
(* Lemmas about module Calls that the proofs of the services share: what   *)
(* is left of a script when its first steps are over (Rest), short tuples  *)
(* as sequences, and the record of a call after the operators that change  *)
(* it.                                                                     *)
(***************************************************************************)
EXTENDS Calls, FiniteSetTheorems, WellFoundedInduction, TLAPS

-----------------------------------------------------------------------------
(* Sequences. *)

\* A set of numbers has a least one.
LEMMA Least ==
  ASSUME NEW T \in SUBSET Nat, T # {}
  PROVE  \E x \in T : \A y \in T : x <= y
<1> DEFINE R == {ss \in Nat \X Nat : ss[1] < ss[2]}
<1>1. IsWellFoundedOn(R, Nat)
  BY NatLessThanWellFounded DEF OpToRel
<1>2. \E x \in T : \A y \in T : ~ (<<y, x>> \in R)
  <2> HIDE DEF R
  <2> QED
    BY <1>1, WFMin
<1>3. \A x, y \in T : ~ (<<y, x>> \in R) => x <= y
  <2> SUFFICES ASSUME NEW x \in T, NEW y \in T, <<y, x>> \notin R PROVE x <= y
    OBVIOUS
  <2>1. x \in Nat /\ y \in Nat /\ <<y, x>> \in Nat \X Nat
    OBVIOUS
  <2>2. ~(y < x)
    BY <2>1
  <2> QED
    BY <2>1, <2>2
<1> QED
  BY <1>2, <1>3

\* The empty sequence.
LEMMA Empty == ASSUME NEW S, NEW q \in Seq(S) PROVE q = <<>> <=> Len(q) = 0
OBVIOUS

\* Two sequences, one behind the other.
LEMMA Concat ==
  ASSUME NEW S, NEW p \in Seq(S), NEW q \in Seq(S)
  PROVE  /\ p \o q \in Seq(S) /\ Len(p \o q) = Len(p) + Len(q)
         /\ \A k \in 1..(Len(p) + Len(q)) : (p \o q)[k] = IF k <= Len(p) THEN p[k] ELSE q[k - Len(p)]
OBVIOUS

\* A sequence with one more item.
LEMMA Appended ==
  ASSUME NEW S, NEW p \in Seq(S), NEW x \in S
  PROVE  /\ Append(p, x) \in Seq(S) /\ Len(Append(p, x)) = Len(p) + 1 /\ Append(p, x)[Len(p) + 1] = x
         /\ \A k \in 1..Len(p) : Append(p, x)[k] = p[k]
OBVIOUS

\* What is left of a script when its first n steps are over.
Rest(q, p, n) ==
  /\ n \in 1..Len(q) /\ Len(q) \in Nat /\ Len(p) = Len(q) - n
  /\ DOMAIN q = 1..Len(q) /\ DOMAIN p = 1..(Len(q) - n) /\ (p = <<>> <=> Len(q) = n)
  /\ \A k \in 1..(Len(q) - n) : p[k] = q[k + n]

\* A part of a sequence up to its end.
LEMMA SubSeqRest ==
  ASSUME NEW S, NEW q \in Seq(S), NEW n \in 1..(Len(q) - 1)
  PROVE  SubSeq(q, n + 1, Len(q)) \in Seq(S) /\ Rest(q, SubSeq(q, n + 1, Len(q)), n)
<1>0. \A l \in Nat : \A m \in 1..(l - 1) : l - m # 0 /\ m \in 1..l /\ l # m
  OBVIOUS
<1>1. Len(q) \in Nat /\ DOMAIN q = 1..Len(q)
  OBVIOUS
<1>2. SubSeq(q, n + 1, Len(q)) \in Seq(S) /\ Len(SubSeq(q, n + 1, Len(q))) = Len(q) - n
  BY <1>1
<1>3. \A k \in 1..(Len(q) - n) : SubSeq(q, n + 1, Len(q))[k] = q[k + n]
  BY <1>1
<1>4. DOMAIN SubSeq(q, n + 1, Len(q)) = 1..(Len(q) - n)
  BY <1>2
<1>5. SubSeq(q, n + 1, Len(q)) # <<>>
  BY <1>0, <1>1, <1>2, Empty
<1>6. n \in 1..Len(q) /\ Len(q) # n
  BY <1>0, <1>1
<1> QED
  BY <1>1, <1>2, <1>3, <1>4, <1>5, <1>6 DEF Rest

\* The first step is over.
LEMMA TailRest ==
  ASSUME NEW S, NEW q \in Seq(S), q # <<>>
  PROVE  Tail(q) \in Seq(S) /\ Rest(q, Tail(q), 1) /\ Head(q) = q[1] /\ q[1] \in S
<1>1. Len(q) \in Nat \ {0} /\ DOMAIN q = 1..Len(q) /\ Head(q) = q[1] /\ q[1] \in S
  OBVIOUS
<1>2. /\ Tail(q) \in Seq(S) /\ Len(Tail(q)) = Len(q) - 1 /\ DOMAIN Tail(q) = 1..(Len(q) - 1)
      /\ \A k \in 1..(Len(q) - 1) : Tail(q)[k] = q[k + 1]
  OBVIOUS
<1>3. Tail(q) = <<>> <=> Len(q) = 1
  <2>1. Len(q) - 1 = 0 <=> Len(q) = 1
    BY <1>1
  <2> QED
    BY <1>2, <2>1, Empty
<1>4. 1 \in 1..Len(q)
  BY <1>1
<1> QED
  BY <1>1, <1>2, <1>3, <1>4 DEF Rest

\* The block of the first step is given up.
LEMMA BehindRest ==
  ASSUME NEW S, NEW q \in Seq(S), q # <<>>
  PROVE  Behind(q) \in Seq(S) /\ \E n \in 1..Len(q) :
           /\ Rest(q, Behind(q), n)
           /\ \A k \in 1..n : q[k].err = q[1].err
           /\ n < Len(q) => q[n + 1].err # q[1].err
<1> DEFINE others == {k \in DOMAIN q : q[k].err # Head(q).err}
<1>1. Len(q) \in Nat \ {0} /\ DOMAIN q = 1..Len(q) /\ Head(q) = q[1] /\ 1 \in 1..Len(q)
  BY TailRest DEF Rest
<1>2. CASE others = {}
  <2>1. Behind(q) = <<>>
    BY <1>2 DEF Behind
  <2>2. Rest(q, <<>>, Len(q))
    <3>1. Len(<<>>) = 0 /\ DOMAIN <<>> = {}
      OBVIOUS
    <3>2. Len(q) - Len(q) = 0 /\ 1..0 = {} /\ Len(q) \in 1..Len(q) /\ Len(q) \in Nat
      BY <1>1
    <3> QED
      BY <1>1, <3>1, <3>2 DEF Rest
  <2>3. \A k \in 1..Len(q) : q[k].err = q[1].err
    BY <1>1, <1>2
  <2>4. <<>> \in Seq(S)
    OBVIOUS
  <2> QED
    BY <1>1, <2>1, <2>2, <2>3, <2>4
<1>3. CASE others # {}
  <2>1. others \in SUBSET Nat
    BY <1>1
  <2>2. PICK m \in others : \A k \in others : m <= k
    BY <1>3, <2>1, Least
  <2>3. Min(others) = m
    <3>1. Min(others) \in others /\ \A k \in others : Min(others) <= k
      BY <2>2 DEF Min
    <3>2. Min(others) <= m /\ m <= Min(others) /\ Min(others) \in Nat /\ m \in Nat
      BY <2>1, <2>2, <3>1
    <3> HIDE DEF others
    <3> QED
      BY <3>2
  <2>4. Behind(q) = SubSeq(q, m, Len(q))
    BY <1>3, <2>3 DEF Behind
  <2>5. m \in 1..Len(q) /\ q[m].err # q[1].err /\ m # 1
    BY <1>1, <2>2
  <2>6. m - 1 \in 1..(Len(q) - 1) /\ (m - 1) + 1 = m
    BY <1>1, <2>5
  <2>7. \A k \in 1..(m - 1) : q[k].err = q[1].err
    <3> SUFFICES ASSUME NEW k \in 1..(m - 1), q[k].err # q[1].err PROVE FALSE
      OBVIOUS
    <3>1. k \in others
      BY <1>1, <2>5
    <3> QED
      BY <2>2, <2>5, <3>1
  <2>8. SubSeq(q, m, Len(q)) \in Seq(S) /\ Rest(q, SubSeq(q, m, Len(q)), m - 1)
    BY <2>6, SubSeqRest
  <2>9. m - 1 \in 1..Len(q)
    BY <1>1, <2>6
  <2> HIDE DEF others
  <2> QED
    BY <2>4, <2>5, <2>6, <2>7, <2>8, <2>9
<1> QED
  BY <1>2, <1>3

\* Sequences of a few items.
LEMMA AppendedItem ==
  ASSUME NEW S, NEW p \in Seq(S), NEW x \in S
  PROVE  /\ p \o <<x>> \in Seq(S) /\ Len(p \o <<x>>) = Len(p) + 1 /\ (p \o <<x>>)[Len(p) + 1] = x
         /\ \A k \in 1..Len(p) : (p \o <<x>>)[k] = p[k]
  OBVIOUS

\* Tuples of one to six items, as sequences.
LEMMA OneItem == ASSUME NEW S, NEW a \in S PROVE <<a>> \in Seq(S) /\ Len(<<a>>) = 1 /\ <<a>>[1] = a
  OBVIOUS

\* Two items.
LEMMA TwoItems ==
  ASSUME NEW S, NEW a \in S, NEW b \in S
  PROVE  <<a, b>> \in Seq(S) /\ Len(<<a, b>>) = 2 /\ <<a, b>>[1] = a /\ <<a, b>>[2] = b
  OBVIOUS

\* Three items.
LEMMA ThreeItems ==
  ASSUME NEW S, NEW a \in S, NEW b \in S, NEW c \in S
  PROVE  LET q == <<a, b, c>> IN q \in Seq(S) /\ Len(q) = 3 /\ q[1] = a /\ q[2] = b /\ q[3] = c
  OBVIOUS

\* Four items.
LEMMA FourItems ==
  ASSUME NEW S, NEW a \in S, NEW b \in S, NEW c \in S, NEW d \in S
  PROVE  LET q == <<a, b, c, d>> IN
         q \in Seq(S) /\ Len(q) = 4 /\ q[1] = a /\ q[2] = b /\ q[3] = c /\ q[4] = d
  OBVIOUS

\* Five items.
LEMMA FiveItems ==
  ASSUME NEW S, NEW a \in S, NEW b \in S, NEW c \in S, NEW d \in S, NEW e \in S
  PROVE  LET q == <<a>> \o <<b, c, d, e>> IN
         q \in Seq(S) /\ Len(q) = 5 /\ q[1] = a /\ q[2] = b /\ q[3] = c /\ q[4] = d /\ q[5] = e
  OBVIOUS

\* Six items.
LEMMA SixItems ==
  ASSUME NEW S, NEW a \in S, NEW b \in S, NEW c \in S, NEW d \in S, NEW e \in S, NEW f \in S
  PROVE  LET q == <<a>> \o <<b, c, d, e>> \o <<f>> IN
         /\ q \in Seq(S) /\ Len(q) = 6 /\ q[1] = a /\ q[2] = b /\ q[3] = c /\ q[4] = d
         /\ q[5] = e /\ q[6] = f
<1> DEFINE p == <<a>> \o <<b, c, d, e>>
<1>1. p \in Seq(S) /\ Len(p) = 5 /\ p[1] = a /\ p[2] = b /\ p[3] = c /\ p[4] = d /\ p[5] = e
  OBVIOUS
<1> DEFINE q == p \o <<f>>
<1> HIDE DEF p
<1>2. p \in Seq(S)
  BY <1>1
<1>3. q \in Seq(S) /\ Len(q) = Len(p) + 1 /\ q[Len(p) + 1] = f /\ \A k \in 1..Len(p) : q[k] = p[k]
  BY <1>2, AppendedItem DEF q
<1> HIDE DEF q
<1>4. Len(q) = 6 /\ q[1] = p[1] /\ q[2] = p[2] /\ q[3] = p[3] /\ q[4] = p[4] /\ q[5] = p[5] /\ q[6] = f
  BY <1>1, <1>3
<1> QED
  BY <1>1, <1>3, <1>4 DEF p, q

-----------------------------------------------------------------------------
(* The record of a call. *)

\* A record of the fields of a call, and a field of it replaced.
LEMMA Replaced ==
  ASSUME NEW a, NEW b, NEW c, NEW d, NEW e, NEW f, NEW g, NEW x
  PROVE  LET r == [op |-> a, on |-> b, arg |-> c, todo |-> d, saw |-> e, did |-> f, reply |-> g] IN
         /\ [r EXCEPT !.todo = x] = [op |-> a, on |-> b, arg |-> c, todo |-> x, saw |-> e, did |-> f, reply |-> g]
         /\ [r EXCEPT !.saw = x] = [op |-> a, on |-> b, arg |-> c, todo |-> d, saw |-> x, did |-> f, reply |-> g]
         /\ [r EXCEPT !.reply = x] = [op |-> a, on |-> b, arg |-> c, todo |-> d, saw |-> e, did |-> f, reply |-> x]
<1>1. [[op |-> a, on |-> b, arg |-> c, todo |-> d, saw |-> e, did |-> f, reply |-> g] EXCEPT !.todo = x]
        = [op |-> a, on |-> b, arg |-> c, todo |-> x, saw |-> e, did |-> f, reply |-> g]
  OBVIOUS
<1>2. [[op |-> a, on |-> b, arg |-> c, todo |-> d, saw |-> e, did |-> f, reply |-> g] EXCEPT !.saw = x]
        = [op |-> a, on |-> b, arg |-> c, todo |-> d, saw |-> x, did |-> f, reply |-> g]
  OBVIOUS
<1>3. [[op |-> a, on |-> b, arg |-> c, todo |-> d, saw |-> e, did |-> f, reply |-> g] EXCEPT !.reply = x]
        = [op |-> a, on |-> b, arg |-> c, todo |-> d, saw |-> e, did |-> f, reply |-> x]
  OBVIOUS
<1> QED
  BY <1>1, <1>2, <1>3

\* The other fields replaced.
LEMMA Named ==
  ASSUME NEW a, NEW b, NEW c, NEW d, NEW e, NEW f, NEW g, NEW x
  PROVE  LET r == [op |-> a, on |-> b, arg |-> c, todo |-> d, saw |-> e, did |-> f, reply |-> g] IN
         /\ [r EXCEPT !.op = x] = [op |-> x, on |-> b, arg |-> c, todo |-> d, saw |-> e, did |-> f, reply |-> g]
         /\ [r EXCEPT !.on = x] = [op |-> a, on |-> x, arg |-> c, todo |-> d, saw |-> e, did |-> f, reply |-> g]
         /\ [r EXCEPT !.arg = x] = [op |-> a, on |-> b, arg |-> x, todo |-> d, saw |-> e, did |-> f, reply |-> g]
<1>1. [[op |-> a, on |-> b, arg |-> c, todo |-> d, saw |-> e, did |-> f, reply |-> g] EXCEPT !.op = x]
        = [op |-> x, on |-> b, arg |-> c, todo |-> d, saw |-> e, did |-> f, reply |-> g]
  OBVIOUS
<1>2. [[op |-> a, on |-> b, arg |-> c, todo |-> d, saw |-> e, did |-> f, reply |-> g] EXCEPT !.on = x]
        = [op |-> a, on |-> x, arg |-> c, todo |-> d, saw |-> e, did |-> f, reply |-> g]
  OBVIOUS
<1>3. [[op |-> a, on |-> b, arg |-> c, todo |-> d, saw |-> e, did |-> f, reply |-> g] EXCEPT !.arg = x]
        = [op |-> a, on |-> b, arg |-> x, todo |-> d, saw |-> e, did |-> f, reply |-> g]
  OBVIOUS
<1> QED
  BY <1>1, <1>2, <1>3

\* A call that ends, as a record.
LEMMA EndedRecord ==
  ASSUME NEW a, NEW b, NEW c, NEW d, NEW e, NEW f, NEW g, NEW x
  PROVE  Ended([op |-> a, on |-> b, arg |-> c, todo |-> d, saw |-> e, did |-> f, reply |-> g], x)
           = [op |-> a, on |-> b, arg |-> c, todo |-> <<>>, saw |-> {}, did |-> f, reply |-> x]
<1> DEFINE n == <<>>
           z == {}
<1> HIDE DEF n, z
<1>1. [[op |-> a, on |-> b, arg |-> c, todo |-> d, saw |-> e, did |-> f, reply |-> g] EXCEPT !.todo = n]
        = [op |-> a, on |-> b, arg |-> c, todo |-> n, saw |-> e, did |-> f, reply |-> g]
  BY Replaced
<1>2. [[op |-> a, on |-> b, arg |-> c, todo |-> n, saw |-> e, did |-> f, reply |-> g] EXCEPT !.saw = z]
        = [op |-> a, on |-> b, arg |-> c, todo |-> n, saw |-> z, did |-> f, reply |-> g]
  BY Replaced
<1>3. [[op |-> a, on |-> b, arg |-> c, todo |-> n, saw |-> z, did |-> f, reply |-> g] EXCEPT !.reply = x]
        = [op |-> a, on |-> b, arg |-> c, todo |-> n, saw |-> z, did |-> f, reply |-> x]
  BY Replaced
<1> QED
  BY <1>1, <1>2, <1>3, Zenon DEF Ended, n, z

\* Call r with what it has read and done.
With(r, saw, did) == [op |-> r.op, on |-> r.on, arg |-> r.arg, todo |-> r.todo, saw |-> saw, did |-> did,
                      reply |-> r.reply]

\* A call with its steps left, as a record.
LEMMA LeftShape ==
  ASSUME NEW r, NEW todo, NEW saw, NEW did
  PROVE  Left(With(r, saw, did), todo) =
           [op |-> r.op, on |-> r.on, arg |-> r.arg, todo |-> todo,
            saw |-> IF todo = <<>> THEN {} ELSE saw, did |-> did,
            reply |-> IF todo = <<>> THEN "Ok" ELSE r.reply]
<1>1. CASE todo = <<>>
  BY <1>1 DEF Left, Ended, With
<1>2. CASE todo # <<>>
  BY <1>2 DEF Left, Ended, With
<1> QED
  BY <1>1, <1>2

New(op, on, arg, q) == [op |-> op, on |-> on, arg |-> arg, todo |-> q, saw |-> {}, did |-> {}, reply |-> "none"]

\* A new call, as a record.
LEMMA BeginShape ==
  ASSUME NEW op, NEW on, NEW arg, NEW q, q # <<>>
  PROVE  Left([NoCall EXCEPT !.op = op, !.on = on, !.arg = arg], q) = New(op, on, arg, q)
<1> DEFINE n == <<>>
           z == {}
<1>1. NoCall = [op |-> "none", on |-> "none", arg |-> 0, todo |-> n, saw |-> z, did |-> z, reply |-> "none"]
  BY DEF NoCall
<1>2. New(op, on, arg, q) = [op |-> op, on |-> on, arg |-> arg, todo |-> q, saw |-> z, did |-> z, reply |-> "none"]
  BY DEF New
<1> HIDE DEF n, z
<1>3. [[op |-> "none", on |-> "none", arg |-> 0, todo |-> n, saw |-> z, did |-> z, reply |-> "none"] EXCEPT !.op = op]
        = [op |-> op, on |-> "none", arg |-> 0, todo |-> n, saw |-> z, did |-> z, reply |-> "none"]
  BY Named
<1>4. [[op |-> op, on |-> "none", arg |-> 0, todo |-> n, saw |-> z, did |-> z, reply |-> "none"] EXCEPT !.on = on]
        = [op |-> op, on |-> on, arg |-> 0, todo |-> n, saw |-> z, did |-> z, reply |-> "none"]
  BY Named
<1>5. [[op |-> op, on |-> on, arg |-> 0, todo |-> n, saw |-> z, did |-> z, reply |-> "none"] EXCEPT !.arg = arg]
        = [op |-> op, on |-> on, arg |-> arg, todo |-> n, saw |-> z, did |-> z, reply |-> "none"]
  BY Named
<1>6. [[op |-> op, on |-> on, arg |-> arg, todo |-> n, saw |-> z, did |-> z, reply |-> "none"] EXCEPT !.todo = q]
        = [op |-> op, on |-> on, arg |-> arg, todo |-> q, saw |-> z, did |-> z, reply |-> "none"]
  BY Replaced
<1>7. Left([NoCall EXCEPT !.op = op, !.on = on, !.arg = arg], q)
        = [[NoCall EXCEPT !.op = op, !.on = on, !.arg = arg] EXCEPT !.todo = q]
  BY Zenon DEF Left
<1> QED
  BY <1>1, <1>2, <1>3, <1>4, <1>5, <1>6, <1>7, Zenon
=============================================================================
