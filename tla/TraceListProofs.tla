--------------------------- MODULE TraceListProofs ---------------------------
(***************************************************************************)
(* Proofs about TraceList, for any records and any calls: the segments of  *)
(* a list are in order, cover what its entries say, and none that continue *)
(* one another are left in a list that heals; and the samples of segments  *)
(* and of records written out are those of the records added.              *)
(***************************************************************************)
EXTENDS TraceList, Numbers, FiniteSetTheorems, SequenceTheorems, TLAPS

Kinds == {SampleType(r) : r \in Records} \cup {r.type : r \in Records} \cup Numeric \cup {"none"}

Segment ==
  [start : Int, end : Int, period : Nat \ {0}, type : Kinds, count : Int,
   samples : Seq(Int), recs : Seq(Records) \ {<<>>}]
Entry ==
  [sid : Int, pubversion : Nat, earliest : Int, latest : Int, segs : Seq(Segment) \ {<<>>}]

-----------------------------------------------------------------------------
(* Sequences: an element that is taken out, put in, or moved.              *)
LEMMA Joined ==
  ASSUME NEW S, NEW a \in Seq(S), NEW b \in Seq(S)
  PROVE  /\ a \o b \in Seq(S)
         /\ Len(a \o b) = Len(a) + Len(b)
         /\ \A p \in 1..Len(a) : (a \o b)[p] = a[p]
         /\ \A p \in 1..Len(b) : (a \o b)[Len(a) + p] = b[p]
<1>1. Len(a) \in Nat /\ Len(b) \in Nat
  OBVIOUS
<1>2. /\ a \o b \in Seq(S)
      /\ Len(a \o b) = Len(a) + Len(b)
      /\ \A p \in 1..Len(a) + Len(b) : (a \o b)[p] = IF p <= Len(a) THEN a[p] ELSE b[p - Len(a)]
  BY ConcatProperties, Zenon
<1> DEFINE c == a \o b
<1> HIDE DEF c
<1>3. /\ \A p \in 1..Len(a) : c[p] = a[p]
      /\ \A p \in 1..Len(b) : c[Len(a) + p] = b[p]
  BY <1>1, <1>2 DEF c
<1> QED BY <1>2, <1>3 DEF c

LEMMA RangeIs ==
  ASSUME NEW S, NEW s \in Seq(S)
  PROVE  Range(s) \subseteq S /\ \A e : e \in Range(s) <=> \E p \in 1..Len(s) : e = s[p]
BY DEF Range

LEMMA RangeOne ==
  ASSUME NEW S, NEW e \in S
  PROVE  <<e>> \in Seq(S) /\ Range(<<e>>) = {e} /\ Head(<<e>>) = e /\ Len(<<e>>) = 1 /\ <<e>>[1] = e
BY DEF Range

LEMMA FirstOfJoined ==
  ASSUME NEW S, NEW a \in Seq(S), NEW b \in Seq(S), a # <<>>
  PROVE  a \o b # <<>> /\ Head(a \o b) = Head(a)
OBVIOUS

LEMMA TakenOut ==
  ASSUME NEW S, NEW s \in Seq(S), NEW i \in 1..Len(s)
  PROVE  /\ RemoveAt(s, i) \in Seq(S)
         /\ Len(RemoveAt(s, i)) = Len(s) - 1
         /\ \A p \in 1..(Len(s) - 1) : RemoveAt(s, i)[p] = s[IF p < i THEN p ELSE p + 1]
<1> DEFINE a == SubSeq(s, 1, i - 1)
           b == SubSeq(s, i + 1, Len(s))
           c == a \o b
<1>1. /\ Len(s) \in Nat /\ a \in Seq(S) /\ b \in Seq(S)
      /\ Len(a) = i - 1 /\ Len(b) = Len(s) - i
      /\ \A p \in 1..(i - 1) : a[p] = s[p]
      /\ \A p \in 1..(Len(s) - i) : b[p] = s[i + p]
  OBVIOUS
<1> HIDE DEF a, b
<1>2. /\ c \in Seq(S) /\ Len(c) = Len(a) + Len(b)
      /\ \A p \in 1..Len(a) : c[p] = a[p]
      /\ \A p \in 1..Len(b) : c[Len(a) + p] = b[p]
  <2>1. a \in Seq(S) /\ b \in Seq(S)
    BY <1>1
  <2> QED BY <2>1, Joined
<1> HIDE DEF c
<1>3. ASSUME NEW p \in 1..(Len(s) - 1) PROVE c[p] = s[IF p < i THEN p ELSE p + 1]
  <2>1. CASE p < i
    BY <1>1, <1>2, <2>1
  <2>2. CASE p >= i
    <3>1. p - i + 1 \in 1..Len(b) /\ p = Len(a) + (p - i + 1)
      BY <1>1, <2>2
    <3>2. c[Len(a) + (p - i + 1)] = b[p - i + 1]
      BY <1>2, <3>1
    <3> QED BY <1>1, <2>2, <3>1, <3>2
  <2> QED BY <2>1, <2>2
<1>4. RemoveAt(s, i) = c
  BY Zenon DEF RemoveAt, a, b, c
<1>5. Len(c) = Len(s) - 1
  BY <1>1, <1>2
<1> QED BY <1>2, <1>3, <1>4, <1>5, Zenon

LEMMA PutIn ==
  ASSUME NEW S, NEW s \in Seq(S), NEW e \in S, NEW i \in 1..(Len(s) + 1)
  PROVE  /\ InsertAt(s, i, e) \in Seq(S)
         /\ Len(InsertAt(s, i, e)) = Len(s) + 1
         /\ InsertAt(s, i, e)[i] = e
         /\ \A p \in 1..Len(s) : InsertAt(s, i, e)[IF p < i THEN p ELSE p + 1] = s[p]
<1> DEFINE a == SubSeq(s, 1, i - 1)
           b == SubSeq(s, i, Len(s))
           c == a \o <<e>>
           d == c \o b
<1>1. /\ Len(s) \in Nat /\ a \in Seq(S) /\ b \in Seq(S)
      /\ Len(a) = i - 1 /\ Len(b) = Len(s) - i + 1
      /\ \A p \in 1..(i - 1) : a[p] = s[p]
      /\ \A p \in 1..(Len(s) - i + 1) : b[p] = s[i + p - 1]
  OBVIOUS
<1> HIDE DEF a, b
<1>2. /\ c \in Seq(S) /\ Len(c) = i
      /\ \A p \in 1..(i - 1) : c[p] = a[p]
      /\ c[i] = e
  BY <1>1
<1> HIDE DEF c
<1>3. /\ d \in Seq(S) /\ Len(d) = Len(c) + Len(b)
      /\ \A p \in 1..Len(c) : d[p] = c[p]
      /\ \A p \in 1..Len(b) : d[Len(c) + p] = b[p]
  <2>1. b \in Seq(S) /\ c \in Seq(S)
    BY <1>1, <1>2
  <2> QED BY <2>1, Joined
<1> HIDE DEF d
<1>4. ASSUME NEW p \in 1..Len(s) PROVE d[IF p < i THEN p ELSE p + 1] = s[p]
  <2>1. CASE p < i
    BY <1>1, <1>2, <1>3, <2>1
  <2>2. CASE p >= i
    <3>1. p - i + 1 \in 1..Len(b) /\ p + 1 = Len(c) + (p - i + 1)
      BY <1>1, <1>2, <2>2
    <3>2. d[Len(c) + (p - i + 1)] = b[p - i + 1]
      BY <1>3, <3>1
    <3> QED BY <1>1, <2>2, <3>1, <3>2
  <2> QED BY <2>1, <2>2
<1>5. d[i] = e
  BY <1>1, <1>2, <1>3
<1>6. InsertAt(s, i, e) = d
  BY Zenon DEF InsertAt, a, b, c, d
<1> QED BY <1>1, <1>2, <1>3, <1>4, <1>5, <1>6
-----------------------------------------------------------------------------
(* Sorted: an element among others that are in order finds its place.      *)
LEMMA SegmentsOrder ==
  ASSUME NEW a \in Segment, NEW b \in Segment, NEW c \in Segment
  PROVE  /\ Precedes(a, b) => ~Precedes(b, a)
         /\ ~Precedes(b, a) /\ ~Precedes(c, b) => ~Precedes(c, a)
<1>1. /\ a.start \in Int /\ b.start \in Int /\ c.start \in Int
      /\ a.end \in Int /\ b.end \in Int /\ c.end \in Int
  BY DEF Segment
<1> QED BY <1>1 DEF Precedes

Ordered(segs) ==
  \A p, q \in 1..Len(segs) : p < q => ~Precedes(segs[q], segs[p])

OrderedBut(segs, i) ==
  \A p, q \in 1..Len(segs) : p < q /\ p # i /\ q # i => ~Precedes(segs[q], segs[p])

(* The place the element at i moves to: down, past all that precede it, or *)
(* else up, past all that it precedes.                                     *)
Down(m, i, to) ==
  /\ to \in (i + 1)..Len(m) /\ (\A k \in (i + 1)..to : Precedes(m[k], m[i]))
  /\ to < Len(m) => ~Precedes(m[to + 1], m[i])
Upward(m, i, to) ==
  /\ to \in 1..i /\ (i < Len(m) => ~Precedes(m[i + 1], m[i]))
  /\ \A k \in to..(i - 1) : Precedes(m[i], m[k])
  /\ to > 1 => ~Precedes(m[i], m[to - 1])

Moved(m, i, to) == InsertAt(RemoveAt(m, i), to, m[i])

LEMMA SortedMoves ==
  ASSUME NEW m \in Seq(Segment), NEW i \in 1..Len(m)
  PROVE  \E to \in 1..Len(m) : Sorted(m, i) = Moved(m, i, to) /\ (Down(m, i, to) \/ Upward(m, i, to))
<1> DEFINE down == {j \in i..Len(m) : \A k \in (i + 1)..j : Precedes(m[k], m[i])}
           up   == {j \in 1..i : \A k \in j..(i - 1) : Precedes(m[i], m[k])}
           lowest  == CHOOSE j \in down : \A k \in down : k <= j
           highest == CHOOSE j \in up : \A k \in up : k >= j
<1>1. Len(m) \in Nat /\ down \in SUBSET Nat /\ up \in SUBSET Nat
  OBVIOUS
<1>2. i \in down /\ i \in up
  OBVIOUS
<1>3. \A j \in down : j <= Len(m)
  OBVIOUS
<1>4. Sorted(m, i) = Moved(m, i, IF down # {i} THEN lowest ELSE highest)
  BY Zenon DEF Sorted, Moved
<1>5. \A j : j \in down <=> j \in i..Len(m) /\ \A k \in (i + 1)..j : Precedes(m[k], m[i])
  OBVIOUS
<1>6. \A j : j \in up <=> j \in 1..i /\ \A k \in j..(i - 1) : Precedes(m[i], m[k])
  OBVIOUS
<1> HIDE DEF down, up
<1>7. CASE down # {i}
  <2>1. lowest \in down /\ \A k \in down : k <= lowest
    <3>1. \E j \in down : \A k \in down : k <= j
      BY <1>1, <1>2, <1>3, GreatestNumber
    <3> QED BY <3>1
  <2> DEFINE to == lowest
  <2> HIDE DEF to
  <2>2. to \in down /\ \A k \in down : k <= to
    BY <2>1 DEF to
  <2>3. to # i
    BY <1>1, <1>5, <1>7, <2>2
  <2>4. to \in (i + 1)..Len(m) /\ \A k \in (i + 1)..to : Precedes(m[k], m[i])
    BY <1>1, <1>5, <2>2, <2>3
  <2>5. ASSUME to < Len(m), Precedes(m[to + 1], m[i]) PROVE FALSE
    <3>1. \A k \in (i + 1)..(to + 1) : k \in (i + 1)..to \/ k = to + 1
      BY <1>1, <2>4
    <3>2. to + 1 \in down
      BY <1>1, <1>5, <2>4, <2>5, <3>1
    <3> QED BY <1>1, <2>2, <2>4, <3>2
  <2>6. Down(m, i, to)
    BY <2>4, <2>5 DEF Down
  <2>7. Sorted(m, i) = Moved(m, i, to)
    BY <1>4, <1>7, Zenon DEF to
  <2>8. to \in 1..Len(m)
    BY <1>1, <2>4
  <2> QED BY <2>6, <2>7, <2>8, Zenon
<1>8. CASE down = {i}
  <2>1. highest \in up /\ \A k \in up : highest <= k
    <3>1. \E j \in up : \A k \in up : j <= k
      BY <1>1, <1>2, LeastNumber
    <3>2. \A j, k \in up : k >= j <=> j <= k
      BY <1>1
    <3> QED BY <3>1, <3>2
  <2> DEFINE to == highest
  <2> HIDE DEF to
  <2>2. to \in up /\ \A k \in up : to <= k
    BY <2>1 DEF to
  <2>3. to \in 1..i /\ \A k \in to..(i - 1) : Precedes(m[i], m[k])
    BY <1>6, <2>2
  <2>4. ASSUME i < Len(m), Precedes(m[i + 1], m[i]) PROVE FALSE
    <3>1. i + 1 \in down
      BY <1>1, <1>5, <2>4
    <3> QED BY <1>8, <3>1
  <2>5. ASSUME to > 1, Precedes(m[i], m[to - 1]) PROVE FALSE
    <3>1. \A k \in (to - 1)..(i - 1) : k \in to..(i - 1) \/ k = to - 1
      BY <2>3
    <3>2. to - 1 \in up
      BY <1>6, <2>3, <2>5, <3>1
    <3> QED BY <2>2, <2>3, <3>2
  <2>6. Upward(m, i, to)
    BY <2>3, <2>4, <2>5 DEF Upward
  <2>7. Sorted(m, i) = Moved(m, i, to)
    BY <1>4, <1>8, Zenon DEF to
  <2>8. to \in 1..Len(m)
    BY <1>1, <2>3
  <2> QED BY <2>6, <2>7, <2>8, Zenon
<1> QED BY <1>7, <1>8

(* What an element that is moved leaves as it is: the other elements, in   *)
(* their order.                                                            *)
At(q, i, to) == LET p == IF q < to THEN q ELSE q - 1 IN IF p < i THEN p ELSE p + 1

MovedTo(w, m, i, to) ==
  /\ Len(w) = Len(m) /\ w[to] = m[i]
  /\ \A q \in 1..Len(m) : q # to =>
       At(q, i, to) \in 1..Len(m) /\ At(q, i, to) # i /\ w[q] = m[At(q, i, to)]

LEMMA MovedElements ==
  ASSUME NEW S, NEW m \in Seq(S), NEW i \in 1..Len(m), NEW to \in 1..Len(m)
  PROVE  Moved(m, i, to) \in Seq(S) /\ MovedTo(Moved(m, i, to), m, i, to)
<1> DEFINE rest == RemoveAt(m, i)
           w == InsertAt(rest, to, m[i])
<1>1. Len(m) \in Nat /\ m[i] \in S
  OBVIOUS
<1>2. /\ rest \in Seq(S) /\ Len(rest) = Len(m) - 1
      /\ \A p \in 1..(Len(m) - 1) : rest[p] = m[IF p < i THEN p ELSE p + 1]
  BY TakenOut
<1> HIDE DEF rest
<1>3. to \in 1..(Len(rest) + 1)
  BY <1>1, <1>2
<1>4. /\ w \in Seq(S) /\ Len(w) = Len(rest) + 1 /\ w[to] = m[i]
      /\ \A p \in 1..Len(rest) : w[IF p < to THEN p ELSE p + 1] = rest[p]
  <2>1. rest \in Seq(S) /\ m[i] \in S
    BY <1>1, <1>2
  <2> QED BY <1>3, <2>1, PutIn
<1> HIDE DEF w
<1>5. ASSUME NEW q \in 1..Len(m), q # to
      PROVE  At(q, i, to) \in 1..Len(m) /\ At(q, i, to) # i /\ w[q] = m[At(q, i, to)]
  <2>1. PICK p \in 1..(Len(m) - 1) : p = IF q < to THEN q ELSE q - 1
    BY <1>1, <1>5
  <2>2. q = IF p < to THEN p ELSE p + 1
    BY <1>1, <1>5, <2>1
  <2>3. w[q] = rest[p]
    BY <1>2, <1>4, <2>2
  <2>4. At(q, i, to) = IF p < i THEN p ELSE p + 1
    BY <2>1 DEF At
  <2> QED BY <1>1, <1>2, <2>1, <2>3, <2>4
<1>6. Moved(m, i, to) = w
  BY Zenon DEF Moved, w, rest
<1>7. Len(w) = Len(m)
  BY <1>1, <1>2, <1>4
<1>8. MovedTo(w, m, i, to)
  BY <1>4, <1>5, <1>7, Zenon DEF MovedTo
<1> QED BY <1>4, <1>6, <1>8, Zenon

LEMMA AtReaches ==
  ASSUME NEW n \in Nat, NEW i \in 1..n, NEW to \in 1..n, NEW p \in 1..n, p # i
  PROVE  \E q \in 1..n : q # to /\ At(q, i, to) = p
<1>1. PICK r \in 1..(n - 1) : r = IF p < i THEN p ELSE p - 1
  OBVIOUS
<1>2. PICK q \in 1..n : q = IF r < to THEN r ELSE r + 1
  BY <1>1
<1>3. q # to /\ At(q, i, to) = p
  BY <1>1, <1>2 DEF At
<1> QED BY <1>3

LEMMA AtKeepsOrder ==
  ASSUME NEW n \in Nat, NEW i \in 1..n, NEW to \in 1..n,
         NEW p \in 1..n, NEW q \in 1..n, p < q, p # to, q # to
  PROVE  At(p, i, to) < At(q, i, to)
BY DEF At

LEMMA AtSides ==
  ASSUME NEW n \in Nat, NEW i \in 1..n, NEW to \in 1..n, NEW q \in 1..n, q # to
  PROVE  /\ to >= i => IF q < to THEN At(q, i, to) <= to ELSE At(q, i, to) = q
         /\ to <= i => IF q < to THEN At(q, i, to) = q ELSE At(q, i, to) >= to
BY DEF At

LEMMA SortedOrders ==
  ASSUME NEW m \in Seq(Segment), NEW i \in 1..Len(m), OrderedBut(m, i)
  PROVE  Ordered(Sorted(m, i))
<1>1. PICK to \in 1..Len(m) : Sorted(m, i) = Moved(m, i, to) /\ (Down(m, i, to) \/ Upward(m, i, to))
  BY SortedMoves
<1> DEFINE w == Moved(m, i, to)
<1>2. /\ Len(w) = Len(m) /\ w[to] = m[i]
      /\ \A q \in 1..Len(m) : q # to =>
              At(q, i, to) \in 1..Len(m) /\ At(q, i, to) # i /\ w[q] = m[At(q, i, to)]
  <2>1. MovedTo(w, m, i, to)
    BY MovedElements, Zenon
  <2> QED BY <2>1, Zenon DEF MovedTo
<1>3. Len(m) \in Nat /\ \A k \in 1..Len(m) : m[k] \in Segment
  OBVIOUS
<1> HIDE DEF w
(* all others against the element, by those beside its place *)
<1>4. ASSUME NEW p \in 1..Len(m), p # i, p <= to, to >= i, Down(m, i, to) PROVE ~Precedes(m[i], m[p])
  <2>1. CASE p > i
    <3>1. Precedes(m[p], m[i])
      BY <1>4, <2>1 DEF Down
    <3> QED BY <1>3, <3>1, SegmentsOrder
  <2>2. CASE p < i
    <3>1. Precedes(m[to], m[i]) /\ to # i /\ p < to
      BY <1>4, <2>2 DEF Down
    <3>2. ~Precedes(m[to], m[p]) /\ ~Precedes(m[i], m[to])
      BY <1>3, <1>4, <3>1, SegmentsOrder DEF OrderedBut
    <3> QED BY <1>3, <3>2, SegmentsOrder
  <2> QED BY <1>4, <2>1, <2>2
<1>5. ASSUME NEW p \in 1..Len(m), p > to, to >= i, Down(m, i, to) PROVE ~Precedes(m[p], m[i])
  <2>1. to + 1 \in 1..Len(m) /\ to + 1 # i /\ ~Precedes(m[to + 1], m[i])
    BY <1>3, <1>5 DEF Down
  <2>2. p = to + 1 \/ ~Precedes(m[p], m[to + 1])
    BY <1>3, <1>5, <2>1 DEF OrderedBut
  <2> QED BY <1>3, <2>1, <2>2, SegmentsOrder
<1>6. ASSUME NEW p \in 1..Len(m), p < to, Upward(m, i, to) PROVE ~Precedes(m[i], m[p])
  <2>1. to - 1 \in 1..Len(m) /\ to - 1 # i /\ ~Precedes(m[i], m[to - 1]) /\ p # i /\ p <= to - 1
    BY <1>3, <1>6 DEF Upward
  <2>2. p = to - 1 \/ ~Precedes(m[to - 1], m[p])
    BY <1>3, <1>6, <2>1 DEF OrderedBut
  <2> QED BY <1>3, <2>1, <2>2, SegmentsOrder
<1>7. ASSUME NEW p \in 1..Len(m), p # i, p >= to, Upward(m, i, to) PROVE ~Precedes(m[p], m[i])
  <2>1. CASE p < i
    <3>1. Precedes(m[i], m[p])
      BY <1>7, <2>1 DEF Upward
    <3> QED BY <1>3, <3>1, SegmentsOrder
  <2>2. CASE p > i
    <3>1. i + 1 \in 1..Len(m) /\ ~Precedes(m[i + 1], m[i])
      BY <1>3, <1>7, <2>2 DEF Upward
    <3>2. p = i + 1 \/ ~Precedes(m[p], m[i + 1])
      BY <1>3, <2>2, <3>1 DEF OrderedBut
    <3> QED BY <1>3, <3>1, <3>2, SegmentsOrder
  <2> QED BY <1>7, <2>1, <2>2
<1>8. ASSUME NEW p \in 1..Len(m), NEW q \in 1..Len(m), p < q PROVE ~Precedes(w[q], w[p])
  <2>1. CASE p # to /\ q # to
    <3>1. /\ At(p, i, to) \in 1..Len(m) /\ At(q, i, to) \in 1..Len(m) /\ At(p, i, to) # i
          /\ At(q, i, to) # i /\ w[p] = m[At(p, i, to)] /\ w[q] = m[At(q, i, to)]
      BY <1>2, <2>1
    <3>2. At(p, i, to) < At(q, i, to)
      BY <1>3, <1>8, <2>1, AtKeepsOrder
    <3> QED BY <3>1, <3>2 DEF OrderedBut
  <2>2. CASE q = to
    <3>1. /\ At(p, i, to) \in 1..Len(m) /\ At(p, i, to) # i /\ w[p] = m[At(p, i, to)] /\ w[q] = m[i]
      BY <1>2, <1>8, <2>2
    <3>2. CASE Down(m, i, to)
      <4>1. to >= i /\ At(p, i, to) <= to
        BY <1>3, <1>8, <2>2, <3>2, AtSides DEF Down
      <4> QED BY <1>4, <3>1, <3>2, <4>1
    <3>3. CASE Upward(m, i, to)
      <4>1. At(p, i, to) = p
        BY <1>3, <1>8, <2>2, <3>3, AtSides DEF Upward
      <4> QED BY <1>6, <1>8, <2>2, <3>1, <3>3, <4>1
    <3> QED BY <1>1, <3>2, <3>3
  <2>3. CASE p = to
    <3>1. /\ At(q, i, to) \in 1..Len(m) /\ At(q, i, to) # i /\ w[q] = m[At(q, i, to)] /\ w[p] = m[i]
      BY <1>2, <1>8, <2>3
    <3>2. CASE Down(m, i, to)
      <4>1. to >= i /\ At(q, i, to) = q
        BY <1>3, <1>8, <2>3, <3>2, AtSides DEF Down
      <4> QED BY <1>5, <1>8, <2>3, <3>1, <3>2, <4>1
    <3>3. CASE Upward(m, i, to)
      <4>1. At(q, i, to) >= to
        <5>1. to <= i /\ q # to /\ ~(q < to)
          BY <1>3, <1>8, <2>3, <3>3 DEF Upward
        <5> QED BY <1>3, <5>1, AtSides
      <4> QED BY <1>7, <3>1, <3>3, <4>1
    <3> QED BY <1>1, <3>2, <3>3
  <2> QED BY <2>1, <2>2, <2>3
<1> QED BY <1>1, <1>2, <1>8 DEF Ordered, w

-----------------------------------------------------------------------------
(* An entry as the set of its segments.  Continues() says of two segments  *)
(* what the code asks of a segment and a record.                           *)
Whole(s) ==
  /\ s.recs # <<>> /\ s.start = Head(s.recs).start /\ s.start <= s.end
  /\ \A r \in Range(s.recs) :
       r.period = s.period /\ (r.data => r.type = s.type /\ s.samples # <<>>)

Continues(x, y) ==
  /\ x.period = y.period
  /\ y.start - x.end - x.period \in -(x.period \div 2)..(x.period \div 2)

Healed(R) == \A x, y \in R : ~Continues(x, y)

AlikeSet(R) ==
  /\ \A x, y \in R : \A r \in Range(x.recs), s \in Range(y.recs) :
       r.period = s.period /\ SampleType(r) = SampleType(s)
  /\ \/ \A x \in R : \A r \in Range(x.recs) : r.data
     \/ \A x \in R : x.samples = <<>>

Covers(t) ==
  /\ \A s \in Range(t.segs) : Whole(s) /\ t.earliest <= s.start /\ s.end <= t.latest
  /\ \E s \in Range(t.segs) : t.earliest = s.start
  /\ \E s \in Range(t.segs) : t.latest = s.end

EntryInv(t, h) ==
  /\ Covers(t)
  /\ AlikeSet(Range(t.segs)) => Ordered(t.segs) /\ (h => Healed(Range(t.segs)))

LEMMA RecordsAre ==
  ASSUME NEW r \in Records
  PROVE  /\ r.sid \in Int /\ r.version \in Nat /\ r.start \in Int /\ r.n \in Nat \ {0}
         /\ r.period \in Nat \ {0} /\ r.type \in Kinds /\ r.data \in BOOLEAN
         /\ EndTime(r) \in Int /\ r.start <= EndTime(r)
         /\ Decoded(r) \in Seq(Int) /\ (r.data => Decoded(r) # <<>>)
         /\ Times(r) \in Seq(Int) /\ SampleType(r) \in Kinds
<1>1. /\ r.sid \in Int /\ r.version \in Nat /\ r.start \in Int /\ r.n \in Nat \ {0}
      /\ r.period \in Nat \ {0} /\ r.type \in Kinds /\ r.data \in BOOLEAN
  BY TraceAssumption, Zenon DEF Kinds
<1>2. PICK m \in Nat : m = r.n - 1
  BY <1>1
<1>3. m * r.period \in Nat
  BY <1>1
<1>4. EndTime(r) \in Int /\ r.start <= EndTime(r)
  BY <1>1, <1>2, <1>3 DEF EndTime
<1>5. \A i \in 1..r.n : r.start + (i - 1) * r.period \in Int
  BY <1>1
<1>6. Times(r) \in Seq(Int) /\ Len(Times(r)) = r.n
  <2>1. r.n \in Nat
    BY <1>1
  <2> QED BY <1>5, <2>1, SMTT(30) DEF Times
<1>7. Decoded(r) \in Seq(Int) /\ (r.data => Decoded(r) # <<>>)
  BY <1>1, <1>6 DEF Decoded
<1>8. SampleType(r) \in Kinds
  BY Zenon DEF Kinds
<1> QED BY <1>1, <1>4, <1>6, <1>7, <1>8

LEMMA SegmentsAre ==
  ASSUME NEW x \in Segment
  PROVE  /\ x.start \in Int /\ x.end \in Int /\ x.period \in Nat \ {0} /\ x.type \in Kinds
         /\ x.count \in Int /\ x.samples \in Seq(Int) /\ x.recs \in Seq(Records) /\ x.recs # <<>>
BY DEF Segment

(* The segment of one record.                                              *)
LEMMA OneRecord ==
  ASSUME NEW r \in Records
  PROVE  LET x == mstl3_msr2seg(r)
         IN  /\ x \in Segment /\ x.start = r.start /\ x.end = EndTime(r) /\ x.period = r.period
             /\ x.type = SampleType(r) /\ x.samples = Decoded(r) /\ x.recs = <<r>>
             /\ Range(x.recs) = {r} /\ Whole(x)
<1> DEFINE x == mstl3_msr2seg(r)
<1>1. /\ x.start = r.start /\ x.end = EndTime(r) /\ x.period = r.period
      /\ x.type = SampleType(r) /\ x.samples = Decoded(r) /\ x.recs = <<r>>
  BY DEF mstl3_msr2seg
<1>2. x \in Segment
  BY RecordsAre DEF mstl3_msr2seg, Segment
<1>3. Range(<<r>>) = {r} /\ Head(<<r>>) = r /\ <<r>> # <<>>
  BY DEF Range
<1>4. Whole(x)
  <2> HIDE DEF x
  <2> QED BY <1>1, <1>3, RecordsAre DEF Whole, SampleType
<1> QED BY <1>1, <1>2, <1>3, <1>4

LEMMA AlikeIs ==
  ASSUME NEW segs \in Seq(Segment)
  PROVE  Alike(segs) <=> AlikeSet(Range(segs))
<1>1. DOMAIN segs = 1..Len(segs)
  OBVIOUS
<1>2. \A r : r \in Of(segs) <=> \E x \in Range(segs) : r \in Range(x.recs)
  BY DEF Of, Range
<1>3. \A x : x \in Range(segs) <=> \E i \in DOMAIN segs : x = segs[i]
  BY DEF Range
<1>4. (\A i \in DOMAIN segs : segs[i].samples = <<>>) <=> (\A x \in Range(segs) : x.samples = <<>>)
  BY <1>3
<1>5. (\A r \in Of(segs) : r.data) <=> (\A x \in Range(segs) : \A r \in Range(x.recs) : r.data)
  BY <1>2
<1>6. (\A r, s \in Of(segs) : r.period = s.period /\ SampleType(r) = SampleType(s)) <=>
      (\A x, y \in Range(segs) : \A r \in Range(x.recs), s \in Range(y.recs) :
         r.period = s.period /\ SampleType(r) = SampleType(s))
  BY <1>2
<1> QED BY <1>4, <1>5, <1>6, Zenon DEF Alike, AlikeSet

-----------------------------------------------------------------------------
(* A record r makes the segments R2 of the segments R: x is new, and takes *)
(* in those that are gone.                                                 *)
Replaces(R, R2, gone, x, r) ==
  /\ gone \subseteq R /\ R2 \subseteq R \cup {x} /\ x \in R2 /\ R \subseteq R2 \cup gone
  /\ Whole(x) /\ r \in Range(x.recs)
  /\ x.start <= r.start /\ (x.start = r.start \/ \E g \in gone : x.start = g.start)
  /\ EndTime(r) <= x.end /\ (x.end = EndTime(r) \/ \E g \in gone : x.end = g.end)
  /\ \A g \in gone :
       /\ x.start <= g.start /\ g.end <= x.end /\ g.recs # <<>> /\ Range(g.recs) \subseteq Range(x.recs)
       /\ x.samples = <<>> => g.samples = <<>>

LEMMA WereAlike ==
  ASSUME NEW R, NEW R2, NEW gone, NEW x, NEW r, Replaces(R, R2, gone, x, r), AlikeSet(R2)
  PROVE  AlikeSet(R)
<1>1. ASSUME NEW y \in R
      PROVE  \E z \in R2 : Range(y.recs) \subseteq Range(z.recs) /\ (z.samples = <<>> => y.samples = <<>>)
  <2>1. CASE y \in R2
    BY <2>1
  <2>2. CASE y \in gone
    BY <2>2 DEF Replaces
  <2> QED BY <2>1, <2>2 DEF Replaces
<1>2. ASSUME NEW y \in R, NEW z \in R, NEW a \in Range(y.recs), NEW b \in Range(z.recs)
      PROVE  a.period = b.period /\ SampleType(a) = SampleType(b)
  <2>1. PICK y2 \in R2 : a \in Range(y2.recs)
    BY <1>1
  <2>2. PICK z2 \in R2 : b \in Range(z2.recs)
    BY <1>1
  <2> QED BY <2>1, <2>2 DEF AlikeSet
<1>3. CASE \A z \in R2 : \A a \in Range(z.recs) : a.data
  <2>1. \A y \in R : \A a \in Range(y.recs) : a.data
    BY <1>1, <1>3
  <2> QED BY <1>2, <2>1, Zenon DEF AlikeSet
<1>4. CASE \A z \in R2 : z.samples = <<>>
  <2>1. \A y \in R : y.samples = <<>>
    BY <1>1, <1>4
  <2> QED BY <1>2, <2>1, Zenon DEF AlikeSet
<1> QED BY <1>3, <1>4, Zenon DEF AlikeSet

LEMMA FirstIn ==
  ASSUME NEW recs \in Seq(Records), recs # <<>>
  PROVE  Head(recs) \in Range(recs) /\ Head(recs) \in Records
BY DEF Range

LEMMA OnePeriod ==
  ASSUME NEW R \in SUBSET Segment, AlikeSet(R), \A s \in R : Whole(s),
         NEW y \in R, NEW z \in R
  PROVE  y.period = z.period
<1>1. /\ Head(y.recs) \in Range(y.recs) /\ Head(z.recs) \in Range(z.recs)
  <2>1. y.recs \in Seq(Records) /\ z.recs \in Seq(Records)
    BY SegmentsAre
  <2>2. y.recs # <<>> /\ z.recs # <<>>
    BY Zenon DEF Whole
  <2> QED BY <2>1, <2>2, FirstIn
<1>2. Head(y.recs).period = Head(z.recs).period
  BY <1>1, ZenonT(30) DEF AlikeSet
<1>3. Head(y.recs).period = y.period /\ Head(z.recs).period = z.period
  BY <1>1, Zenon DEF Whole
<1> QED BY <1>2, <1>3

(* None is left that continues another, if none came with the record.      *)
LEMMA StayHealed ==
  ASSUME NEW R \in SUBSET Segment, NEW R2 \in SUBSET Segment, NEW gone, NEW x, NEW r \in Records,
         Replaces(R, R2, gone, x, r), \A s \in R : Whole(s), AlikeSet(R2), Healed(R),
         \A y \in R : Continues(y, mstl3_msr2seg(r)) => \E g \in gone : x.start = g.start,
         \A y \in R : Continues(mstl3_msr2seg(r), y) => \E g \in gone : x.end = g.end
  PROVE  Healed(R2)
<1> DEFINE n == mstl3_msr2seg(r)
<1>1. n \in Segment /\ n.start = r.start /\ n.end = EndTime(r) /\ n.period = r.period
  BY OneRecord
<1>2. x \in Segment /\ x \in R2 /\ Whole(x) /\ x.period = n.period /\ (\A s \in R2 : Whole(s))
  BY <1>1 DEF Replaces, Whole
<1>3. \A s \in R2 : s.period = x.period
  BY <1>2, OnePeriod
<1>4. \A g \in gone : g \in R /\ g.period = x.period
  <2> SUFFICES ASSUME NEW g \in gone PROVE g \in R /\ g.period = x.period
    OBVIOUS
  <2>1. g \in R /\ g \in Segment /\ Whole(g) /\ g.recs # <<>> /\ Range(g.recs) \subseteq Range(x.recs)
    BY DEF Replaces
  <2>2. g.recs \in Seq(Records)
    BY <2>1, SegmentsAre
  <2>3. Head(g.recs) \in Range(g.recs)
    BY <2>1, <2>2, FirstIn
  <2> QED BY <1>2, <2>1, <2>3 DEF Whole
<1> HIDE DEF n
<1>5. ~Continues(x, x)
  BY <1>2, SegmentsAre DEF Continues, Whole
<1>6. ASSUME NEW y \in R, Continues(y, x) PROVE FALSE
  <2>1. CASE \E g \in gone : x.start = g.start
    BY <1>4, <1>6, <2>1 DEF Healed, Continues
  <2>2. CASE ~\E g \in gone : x.start = g.start
    <3>1. x.start = n.start
      BY <1>1, <2>2 DEF Replaces
    <3>2. Continues(y, n)
      BY <1>2, <1>6, <3>1 DEF Continues
    <3> QED BY <2>2, <3>2 DEF n
  <2> QED BY <2>1, <2>2
<1>7. ASSUME NEW y \in R, Continues(x, y) PROVE FALSE
  <2>1. CASE \E g \in gone : x.end = g.end
    BY <1>4, <1>7, <2>1 DEF Healed, Continues
  <2>2. CASE ~\E g \in gone : x.end = g.end
    <3>1. x.end = n.end
      BY <1>1, <2>2 DEF Replaces
    <3>2. Continues(n, y)
      BY <1>2, <1>7, <3>1 DEF Continues
    <3> QED BY <2>2, <3>2 DEF n
  <2> QED BY <2>1, <2>2
<1>8. \A y \in R2 : y \in R \/ y = x
  BY DEF Replaces
<1> QED BY <1>5, <1>6, <1>7, <1>8 DEF Healed

LEMMA StayCovered ==
  ASSUME NEW t \in Entry, NEW u \in Entry, NEW gone, NEW x, NEW r \in Records,
         Covers(t), Replaces(Range(t.segs), Range(u.segs), gone, x, r),
         u.earliest = IF r.start < t.earliest THEN r.start ELSE t.earliest,
         u.latest = IF EndTime(r) > t.latest THEN EndTime(r) ELSE t.latest
  PROVE  Covers(u)
<1> DEFINE R  == Range(t.segs)
           R2 == Range(u.segs)
<1>1. /\ \A s \in R : s.start \in Int /\ s.end \in Int
      /\ \A s \in R2 : s.start \in Int /\ s.end \in Int
      /\ t.earliest \in Int /\ t.latest \in Int /\ r.start \in Int /\ EndTime(r) \in Int
  <2>1. t.segs \in Seq(Segment) /\ u.segs \in Seq(Segment) /\ t.earliest \in Int /\ t.latest \in Int
    BY DEF Entry
  <2>2. R \subseteq Segment /\ R2 \subseteq Segment
    BY <2>1 DEF Range
  <2> QED BY <2>1, <2>2, SegmentsAre, RecordsAre
<1> HIDE DEF R, R2
<1>2. Replaces(R, R2, gone, x, r)
  BY DEF R, R2
<1>3. /\ \A s \in R : Whole(s) /\ t.earliest <= s.start /\ s.end <= t.latest
      /\ \E s \in R : t.earliest = s.start
      /\ \E s \in R : t.latest = s.end
  BY DEF R, Covers
<1>4. /\ x \in R2 /\ x.start \in Int /\ x.end \in Int /\ Whole(x)
      /\ x.start <= r.start /\ EndTime(r) <= x.end
      /\ \A g \in gone : g \in R /\ x.start <= g.start /\ g.end <= x.end
      /\ x.start = r.start \/ \E g \in gone : x.start = g.start
      /\ x.end = EndTime(r) \/ \E g \in gone : x.end = g.end
  BY <1>1, <1>2 DEF Replaces
<1>5. u.earliest <= x.start /\ x.end <= u.latest
  BY <1>1, <1>3, <1>4
<1>6. ASSUME NEW s \in R2 PROVE Whole(s) /\ u.earliest <= s.start /\ s.end <= u.latest
  <2>1. CASE s = x
    BY <1>4, <1>5, <2>1
  <2>2. CASE s \in R
    BY <1>1, <1>3, <2>2
  <2> QED BY <1>2, <2>1, <2>2 DEF Replaces
<1>7. \E s \in R2 : u.earliest = s.start
  <2>1. CASE r.start < t.earliest
    BY <1>1, <1>4, <1>5, <2>1
  <2>2. CASE ~(r.start < t.earliest)
    <3>1. PICK s \in R : t.earliest = s.start
      BY <1>3
    <3>2. CASE s \in gone
      BY <1>1, <1>4, <1>5, <2>2, <3>1, <3>2
    <3>3. CASE s \in R2
      BY <2>2, <3>1, <3>3
    <3> QED BY <1>2, <3>2, <3>3 DEF Replaces
  <2> QED BY <2>1, <2>2
<1>8. \E s \in R2 : u.latest = s.end
  <2>1. CASE EndTime(r) > t.latest
    BY <1>1, <1>4, <1>5, <2>1
  <2>2. CASE ~(EndTime(r) > t.latest)
    <3>1. PICK s \in R : t.latest = s.end
      BY <1>3
    <3>2. CASE s \in gone
      BY <1>1, <1>4, <1>5, <2>2, <3>1, <3>2
    <3>3. CASE s \in R2
      BY <2>2, <3>1, <3>3
    <3> QED BY <1>2, <3>2, <3>3 DEF Replaces
  <2> QED BY <2>1, <2>2
<1> QED BY <1>6, <1>7, <1>8 DEF Covers, R2

-----------------------------------------------------------------------------
(* A record that fits a segment, and what it makes of it.                  *)
LEMMA MeetBefore ==
  ASSUME NEW s \in Segment, NEW r \in Records, EndsBefore(s, r)
  PROVE  s.end < r.start /\ s.period = r.period /\ Continues(s, mstl3_msr2seg(r))
<1>1. r.period \in Nat \ {0} /\ s.end \in Int /\ r.start \in Int
  BY SegmentsAre, RecordsAre
<1>2. s.period = r.period /\ r.start - s.end - r.period \in -(r.period \div 2)..(r.period \div 2)
  BY DEF EndsBefore, Meet, Tolerance
<1>3. r.period \div 2 \in Nat /\ r.period \div 2 < r.period
  BY <1>1
<1>4. s.end < r.start
  BY <1>1, <1>2, <1>3
<1> QED BY <1>2, <1>4, OneRecord DEF Continues

LEMMA MeetAfter ==
  ASSUME NEW s \in Segment, NEW r \in Records, StartsAfter(s, r)
  PROVE  EndTime(r) < s.start /\ s.period = r.period /\ Continues(mstl3_msr2seg(r), s)
<1>1. r.period \in Nat \ {0} /\ s.start \in Int /\ EndTime(r) \in Int
  BY SegmentsAre, RecordsAre
<1>2. s.period = r.period /\ s.start - EndTime(r) - r.period \in -(r.period \div 2)..(r.period \div 2)
  BY DEF StartsAfter, Meet, Tolerance
<1>3. r.period \div 2 \in Nat /\ r.period \div 2 < r.period
  BY <1>1
<1>4. EndTime(r) < s.start
  BY <1>1, <1>2, <1>3
<1> QED BY <1>2, <1>4, OneRecord DEF Continues

LEMMA FitsIs ==
  ASSUME NEW s \in Segment, NEW r \in Records
  PROVE  /\ EndsBefore(s, r) <=> Continues(s, mstl3_msr2seg(r))
         /\ StartsAfter(s, r) <=> Continues(mstl3_msr2seg(r), s)
<1>1. mstl3_msr2seg(r).start = r.start /\ mstl3_msr2seg(r).end = EndTime(r) /\ mstl3_msr2seg(r).period = r.period
  BY OneRecord
<1> QED BY <1>1 DEF Continues, EndsBefore, StartsAfter, Meet, Tolerance

LEMMA MadeOfRecord ==
  ASSUME NEW a \in Segment, NEW r \in Records
  PROVE  Ended(a, r) \in Segment /\ Begun(a, r) \in Segment
<1>1. /\ a.start \in Int /\ a.end \in Int /\ a.period \in Nat \ {0} /\ a.type \in Kinds
      /\ a.count \in Int /\ a.samples \in Seq(Int) /\ a.recs \in Seq(Records)
  BY SegmentsAre
<1>2. r.start \in Int /\ EndTime(r) \in Int /\ r.n \in Int /\ Decoded(r) \in Seq(Int)
  BY RecordsAre
<1>3. /\ a.count + r.n \in Int
      /\ a.samples \o Decoded(r) \in Seq(Int) /\ Decoded(r) \o a.samples \in Seq(Int)
  BY <1>1, <1>2
<1>4. /\ Append(a.recs, r) \in Seq(Records) /\ <<r>> \o a.recs \in Seq(Records)
      /\ Append(a.recs, r) # <<>> /\ <<r>> \o a.recs # <<>>
  BY <1>1
<1> QED BY <1>1, <1>2, <1>3, <1>4 DEF Ended, Begun, Segment

LEMMA MadeOfTwo ==
  ASSUME NEW a \in Segment, NEW b \in Segment
  PROVE  mstl3_addsegtoseg(a, b) \in Segment
<1>1. /\ a.start \in Int /\ a.end \in Int /\ a.period \in Nat \ {0} /\ a.type \in Kinds
      /\ a.count \in Int /\ a.samples \in Seq(Int) /\ a.recs \in Seq(Records)
      /\ b.start \in Int /\ b.end \in Int /\ b.count \in Int
      /\ b.samples \in Seq(Int) /\ b.recs \in Seq(Records)
  BY SegmentsAre
<1>2. a.count + b.count \in Int /\ a.samples \o b.samples \in Seq(Int) /\ a.recs \o b.recs \in Seq(Records)
  BY <1>1
<1>3. a.recs \o b.recs # <<>>
  <2>1. a.recs \in Seq(Records) /\ b.recs \in Seq(Records) /\ a.recs # <<>>
    BY <1>1, SegmentsAre
  <2> QED BY <2>1, FirstOfJoined
<1> QED BY <1>1, <1>2, <1>3 DEF mstl3_addsegtoseg, Segment

LEMMA EndedIs ==
  ASSUME NEW a \in Segment, NEW r \in Records, Whole(a), CanAdd(a, r), EndsBefore(a, r)
  PROVE  LET x == Ended(a, r)
         IN  /\ x \in Segment /\ Whole(x) /\ x.start = a.start /\ x.end = EndTime(r) /\ x.type = a.type
             /\ Range(x.recs) = Range(a.recs) \cup {r}
             /\ x.samples = <<>> => a.samples = <<>>
<1> DEFINE x == Ended(a, r)
<1>1. /\ a.start \in Int /\ a.end \in Int /\ a.period \in Nat \ {0} /\ a.type \in Kinds
      /\ a.count \in Int /\ a.samples \in Seq(Int) /\ a.recs \in Seq(Records)
  BY SegmentsAre
<1>2. /\ x.start = a.start /\ x.end = EndTime(r) /\ x.period = a.period /\ x.type = a.type
      /\ x.count = a.count + r.n /\ x.samples = a.samples \o Decoded(r) /\ x.recs = Append(a.recs, r)
  BY DEF Ended, Segment
<1>3. x \in Segment
  BY MadeOfRecord
<1>4. Range(Append(a.recs, r)) = Range(a.recs) \cup {r} /\ Append(a.recs, r) # <<>>
  <2>1. Append(a.recs, r) = a.recs \o <<r>>
    BY <1>1, AppendIsConcat
  <2>2. Range(a.recs \o <<r>>) = Range(a.recs) \cup Range(<<r>>)
    <3>1. <<r>> \in Seq(Records)
      BY RangeOne
    <3> QED BY <1>1, <3>1, RangeConcatenation, ZenonT(30)
  <2> QED BY <1>1, <2>1, <2>2, RangeOne
<1>5. Head(Append(a.recs, r)) = Head(a.recs)
  BY <1>1 DEF Whole
<1>6. /\ x.samples = <<>> => a.samples = <<>> /\ Decoded(r) = <<>>
  BY <1>1, <1>2, RecordsAre, ConcatEqualIffEmpty
<1>7. a.end < r.start /\ a.period = r.period
  BY MeetBefore
<1> HIDE DEF x
<1>8. x.start <= x.end
  <2>1. a.start <= a.end /\ r.start <= EndTime(r) /\ r.start \in Int /\ EndTime(r) \in Int
    BY RecordsAre DEF Whole
  <2> QED BY <1>1, <1>2, <1>7, <2>1
<1>9. ASSUME NEW q \in Range(x.recs) PROVE q.period = x.period /\ (q.data => q.type = x.type /\ x.samples # <<>>)
  <2>1. CASE q = r
    BY <1>2, <1>6, <1>7, <2>1, RecordsAre DEF CanAdd
  <2>2. CASE q \in Range(a.recs)
    BY <1>2, <1>6, <2>2 DEF Whole
  <2> QED BY <1>2, <1>4, <1>9, <2>1, <2>2
<1>10. Whole(x)
  BY <1>2, <1>4, <1>5, <1>8, <1>9 DEF Whole
<1> QED BY <1>2, <1>3, <1>4, <1>6, <1>10 DEF x

LEMMA BegunIs ==
  ASSUME NEW a \in Segment, NEW r \in Records, Whole(a), CanAdd(a, r), StartsAfter(a, r)
  PROVE  LET x == Begun(a, r)
         IN  /\ x \in Segment /\ Whole(x) /\ x.start = r.start /\ x.end = a.end /\ x.type = a.type
             /\ Range(x.recs) = Range(a.recs) \cup {r}
             /\ x.samples = <<>> => a.samples = <<>>
<1> DEFINE x == Begun(a, r)
           recs == <<r>> \o a.recs
<1>1. /\ a.start \in Int /\ a.end \in Int /\ a.period \in Nat \ {0} /\ a.type \in Kinds
      /\ a.count \in Int /\ a.samples \in Seq(Int) /\ a.recs \in Seq(Records)
  BY SegmentsAre
<1>2. /\ x.start = r.start /\ x.end = a.end /\ x.period = a.period /\ x.type = a.type
      /\ x.count = a.count + r.n /\ x.samples = Decoded(r) \o a.samples /\ x.recs = recs
  BY DEF Begun, Segment
<1>3. /\ recs \in Seq(Records) /\ Len(recs) = 1 + Len(a.recs)
      /\ recs[1] = r /\ \A p \in 1..Len(a.recs) : recs[1 + p] = a.recs[p]
  <2>1. <<r>> \in Seq(Records) /\ Len(<<r>>) = 1 /\ <<r>>[1] = r
    OBVIOUS
  <2> QED BY <1>1, <2>1, Joined
<1>4. x \in Segment
  BY MadeOfRecord
<1>5. /\ x.samples = <<>> => a.samples = <<>> /\ Decoded(r) = <<>>
  BY <1>1, <1>2, RecordsAre, ConcatEqualIffEmpty
<1>6. EndTime(r) < a.start /\ a.period = r.period
  BY MeetAfter
<1> HIDE DEF x, recs
<1>7. Range(recs) = Range(a.recs) \cup {r}
  <2>1. Range(<<r>> \o a.recs) = Range(<<r>>) \cup Range(a.recs)
    <3>1. <<r>> \in Seq(Records)
      BY RangeOne
    <3>2. a.recs \in Seq(Records)
      BY <1>1
    <3> QED BY <3>1, <3>2, RangeConcatenation
  <2> QED BY <2>1, RangeOne DEF recs
<1>8. recs # <<>> /\ Head(recs) = r
  BY <1>1, <1>3
<1>9. x.start <= x.end
  <2>1. a.start <= a.end /\ r.start <= EndTime(r) /\ r.start \in Int /\ EndTime(r) \in Int
    BY RecordsAre DEF Whole
  <2> QED BY <1>1, <1>2, <1>6, <2>1
<1>10. ASSUME NEW q \in Range(x.recs) PROVE q.period = x.period /\ (q.data => q.type = x.type /\ x.samples # <<>>)
  <2>1. CASE q = r
    BY <1>2, <1>5, <1>6, <2>1, RecordsAre DEF CanAdd
  <2>2. CASE q \in Range(a.recs)
    BY <1>2, <1>5, <2>2 DEF Whole
  <2> QED BY <1>2, <1>7, <1>10, <2>1, <2>2
<1>11. Whole(x)
  BY <1>2, <1>8, <1>9, <1>10 DEF Whole
<1> QED BY <1>2, <1>4, <1>5, <1>7, <1>11 DEF x

LEMMA MergedIs ==
  ASSUME NEW a \in Segment, NEW b \in Segment, Whole(a), Whole(b),
         b.samples = <<>> \/ b.type = a.type, a.period = b.period, a.end < b.start
  PROVE  LET x == mstl3_addsegtoseg(a, b)
         IN  /\ x \in Segment /\ Whole(x) /\ x.start = a.start /\ x.end = b.end
             /\ Range(x.recs) = Range(a.recs) \cup Range(b.recs)
             /\ x.samples = <<>> => a.samples = <<>> /\ b.samples = <<>>
<1> DEFINE x == mstl3_addsegtoseg(a, b)
           recs == a.recs \o b.recs
<1>1. /\ a.start \in Int /\ a.end \in Int /\ a.period \in Nat \ {0} /\ a.type \in Kinds
      /\ a.count \in Int /\ a.samples \in Seq(Int) /\ a.recs \in Seq(Records)
      /\ b.start \in Int /\ b.end \in Int /\ b.count \in Int
      /\ b.samples \in Seq(Int) /\ b.recs \in Seq(Records)
  BY SegmentsAre
<1>2. /\ x.start = a.start /\ x.end = b.end /\ x.period = a.period /\ x.type = a.type
      /\ x.count = a.count + b.count /\ x.samples = a.samples \o b.samples /\ x.recs = recs
  BY DEF mstl3_addsegtoseg, Segment
<1>3. a.recs # <<>>
  BY DEF Whole
<1>4. /\ recs \in Seq(Records) /\ Range(recs) = Range(a.recs) \cup Range(b.recs)
      /\ recs # <<>> /\ Head(recs) = Head(a.recs)
  <2>1. a.recs \in Seq(Records) /\ b.recs \in Seq(Records)
    BY <1>1
  <2>2. recs \in Seq(Records) /\ Range(recs) = Range(a.recs) \cup Range(b.recs)
    BY <2>1, RangeConcatenation
  <2>3. recs # <<>> /\ Head(recs) = Head(a.recs)
    BY <1>3, <2>1, FirstOfJoined
  <2> QED BY <2>2, <2>3
<1>5. x \in Segment
  BY MadeOfTwo
<1>6. x.samples = <<>> => a.samples = <<>> /\ b.samples = <<>>
  <2>1. a.samples \in Seq(Int) /\ b.samples \in Seq(Int)
    BY <1>1
  <2>2. a.samples \o b.samples = <<>> <=> a.samples = <<>> /\ b.samples = <<>>
    BY <2>1, ConcatEqualIffEmpty
  <2> QED BY <1>2, <2>2
<1> HIDE DEF x, recs
<1>7. x.start <= x.end
  <2>1. a.start <= a.end /\ b.start <= b.end
    BY DEF Whole
  <2> QED BY <1>1, <1>2, <2>1
<1>8. ASSUME NEW q \in Range(x.recs) PROVE q.period = x.period /\ (q.data => q.type = x.type /\ x.samples # <<>>)
  <2>1. CASE q \in Range(a.recs)
    BY <1>2, <1>6, <2>1 DEF Whole
  <2>2. CASE q \in Range(b.recs)
    BY <1>2, <1>6, <2>2 DEF Whole
  <2> QED BY <1>2, <1>4, <1>8, <2>1, <2>2
<1>9. Whole(x)
  BY <1>2, <1>4, <1>7, <1>8 DEF Whole
<1> QED BY <1>2, <1>4, <1>5, <1>6, <1>9 DEF x

-----------------------------------------------------------------------------
(* The segments that are in a list after a step of it.                     *)
LEMMA Changed ==
  ASSUME NEW S, NEW s \in Seq(S), NEW i \in 1..Len(s), NEW x \in S
  PROVE  LET m == [s EXCEPT ![i] = x]
         IN  /\ m \in Seq(S) /\ Len(m) = Len(s) /\ m[i] = x
             /\ \A p \in 1..Len(s) : p # i => m[p] = s[p]
             /\ Range(m) \subseteq Range(s) \cup {x} /\ x \in Range(m)
             /\ Range(s) \subseteq Range(m) \cup {s[i]}
<1> DEFINE m == [s EXCEPT ![i] = x]
<1>1. /\ m \in Seq(S) /\ Len(m) = Len(s) /\ m[i] = x
      /\ \A p \in 1..Len(s) : p # i => m[p] = s[p]
  OBVIOUS
<1> HIDE DEF m
<1>2. /\ \A e : e \in Range(s) <=> \E p \in 1..Len(s) : e = s[p]
      /\ \A e : e \in Range(m) <=> \E p \in 1..Len(s) : e = m[p]
  BY <1>1, RangeIs
<1>3. /\ Range(m) \subseteq Range(s) \cup {x} /\ x \in Range(m)
      /\ Range(s) \subseteq Range(m) \cup {s[i]}
  BY <1>1, <1>2
<1> QED BY <1>1, <1>3 DEF m

LEMMA RangePutIn ==
  ASSUME NEW S, NEW s \in Seq(S), NEW e \in S, NEW i \in 1..(Len(s) + 1)
  PROVE  Range(InsertAt(s, i, e)) = Range(s) \cup {e}
<1> DEFINE m == InsertAt(s, i, e)
<1>1. /\ m \in Seq(S) /\ Len(m) = Len(s) + 1 /\ m[i] = e
      /\ \A p \in 1..Len(s) : m[IF p < i THEN p ELSE p + 1] = s[p]
  BY PutIn
<1> HIDE DEF m
<1>2. /\ \A d : d \in Range(s) <=> \E p \in 1..Len(s) : d = s[p]
      /\ \A d : d \in Range(m) <=> \E p \in 1..Len(m) : d = m[p]
      /\ Len(s) \in Nat
  BY <1>1, RangeIs
<1>3. ASSUME NEW p \in 1..Len(m) PROVE m[p] \in Range(s) \cup {e}
  <2>1. CASE p < i
    BY <1>1, <1>2, <2>1
  <2>2. CASE p > i
    <3>1. p - 1 \in 1..Len(s) /\ ~(p - 1 < i)
      BY <1>1, <1>2, <2>2
    <3>2. m[(p - 1) + 1] = s[p - 1] /\ (p - 1) + 1 = p
      BY <1>1, <3>1
    <3> QED BY <1>2, <3>1, <3>2
  <2>3. CASE p = i
    BY <1>1, <2>3
  <2> QED BY <1>1, <1>2, <2>1, <2>2, <2>3
<1>4. ASSUME NEW p \in 1..Len(s) PROVE s[p] \in Range(m)
  <2>1. (IF p < i THEN p ELSE p + 1) \in 1..Len(m)
    BY <1>1, <1>2
  <2> QED BY <1>1, <1>2, <2>1
<1>5. e \in Range(m)
  BY <1>1, <1>2
<1> QED BY <1>2, <1>3, <1>4, <1>5 DEF m

LEMMA RangeTakenOut ==
  ASSUME NEW S, NEW s \in Seq(S), NEW i \in 1..Len(s)
  PROVE  /\ Range(RemoveAt(s, i)) \subseteq Range(s)
         /\ \A p \in 1..Len(s) : p # i => s[p] \in Range(RemoveAt(s, i))
<1> DEFINE m == RemoveAt(s, i)
<1>1. /\ m \in Seq(S) /\ Len(m) = Len(s) - 1
      /\ \A p \in 1..(Len(s) - 1) : m[p] = s[IF p < i THEN p ELSE p + 1]
  BY TakenOut
<1> HIDE DEF m
<1>2. /\ \A d : d \in Range(s) <=> \E p \in 1..Len(s) : d = s[p]
      /\ \A d : d \in Range(m) <=> \E p \in 1..Len(m) : d = m[p]
      /\ Len(s) \in Nat
  BY <1>1, RangeIs
<1>3. ASSUME NEW p \in 1..Len(m) PROVE m[p] \in Range(s)
  <2>1. (IF p < i THEN p ELSE p + 1) \in 1..Len(s)
    BY <1>1, <1>2
  <2> QED BY <1>1, <1>2, <2>1
<1>4. ASSUME NEW p \in 1..Len(s), p # i PROVE s[p] \in Range(m)
  <2>1. CASE p < i
    BY <1>1, <1>2, <2>1
  <2>2. CASE p > i
    <3>1. p - 1 \in 1..Len(m) /\ ~(p - 1 < i)
      BY <1>1, <1>2, <2>2
    <3>2. m[p - 1] = s[(p - 1) + 1] /\ (p - 1) + 1 = p
      BY <1>1, <3>1
    <3> QED BY <1>2, <3>1, <3>2
  <2> QED BY <1>4, <2>1, <2>2
<1> QED BY <1>2, <1>3, <1>4 DEF m

LEMMA SortedElements ==
  ASSUME NEW m \in Seq(Segment), NEW i \in 1..Len(m)
  PROVE  /\ Sorted(m, i) \in Seq(Segment) /\ Len(Sorted(m, i)) = Len(m)
         /\ Range(Sorted(m, i)) = Range(m)
<1>1. PICK to \in 1..Len(m) : Sorted(m, i) = Moved(m, i, to)
  BY SortedMoves
<1> DEFINE w == Moved(m, i, to)
<1>2. /\ w \in Seq(Segment) /\ Len(w) = Len(m) /\ w[to] = m[i]
      /\ \A q \in 1..Len(m) : q # to =>
              At(q, i, to) \in 1..Len(m) /\ At(q, i, to) # i /\ w[q] = m[At(q, i, to)]
      /\ \A p \in 1..Len(m) : p # i => \E q \in 1..Len(m) : q # to /\ At(q, i, to) = p
  <2>1. /\ w \in Seq(Segment) /\ Len(w) = Len(m) /\ w[to] = m[i]
        /\ \A q \in 1..Len(m) : q # to =>
              At(q, i, to) \in 1..Len(m) /\ At(q, i, to) # i /\ w[q] = m[At(q, i, to)]
    <3>1. w \in Seq(Segment) /\ MovedTo(w, m, i, to)
      BY MovedElements, Zenon
    <3> QED BY <3>1, Zenon DEF MovedTo
  <2>2. \A p \in 1..Len(m) : p # i => \E q \in 1..Len(m) : q # to /\ At(q, i, to) = p
    <3>1. Len(m) \in Nat
      OBVIOUS
    <3> QED BY <3>1, AtReaches, ZenonT(30)
  <2> QED BY <2>1, <2>2
<1> HIDE DEF w
<1>3. /\ \A d : d \in Range(m) <=> \E p \in 1..Len(m) : d = m[p]
      /\ \A d : d \in Range(w) <=> \E p \in 1..Len(m) : d = w[p]
  BY <1>2, RangeIs
<1>4. \A q \in 1..Len(m) : w[q] \in Range(m)
  BY <1>2, <1>3
<1>5. \A p \in 1..Len(m) : m[p] \in Range(w)
  BY <1>2, <1>3
<1>6. Range(w) = Range(m)
  BY <1>3, <1>4, <1>5
<1> QED BY <1>1, <1>2, <1>6 DEF w

-----------------------------------------------------------------------------
(* An entry whose segments have grown by a record.                         *)
LEMMA EntriesAre ==
  ASSUME NEW t \in Entry
  PROVE  /\ t.sid \in Int /\ t.pubversion \in Nat /\ t.earliest \in Int /\ t.latest \in Int
         /\ t.segs \in Seq(Segment) /\ t.segs # <<>> /\ Len(t.segs) \in Nat \ {0}
         /\ Range(t.segs) \subseteq Segment
<1>1. /\ t.sid \in Int /\ t.pubversion \in Nat /\ t.earliest \in Int /\ t.latest \in Int
      /\ t.segs \in Seq(Segment) /\ t.segs # <<>>
  BY DEF Entry
<1> QED BY <1>1, RangeIs

LEMMA GrownIs ==
  ASSUME NEW t \in Entry, NEW r \in Records, NEW m \in Seq(Segment), NEW i \in 1..Len(m)
  PROVE  LET u == Grown(t, r, m, i)
         IN  /\ u \in Entry /\ u.sid = t.sid /\ u.segs = Sorted(m, i) /\ Range(u.segs) = Range(m)
             /\ u.earliest = IF r.start < t.earliest THEN r.start ELSE t.earliest
             /\ u.latest = IF EndTime(r) > t.latest THEN EndTime(r) ELSE t.latest
<1>1. Sorted(m, i) \in Seq(Segment) /\ Len(Sorted(m, i)) = Len(m) /\ Range(Sorted(m, i)) = Range(m)
  BY SortedElements
<1>2. Sorted(m, i) # <<>>
  BY <1>1
<1>3. r.version \in Nat /\ r.start \in Int /\ EndTime(r) \in Int
  BY RecordsAre
<1> QED BY <1>1, <1>2, <1>3 DEF Grown, Entry

(* A record has no segment that it fits after, or before.                  *)
NoneBefore(t, r) == \A y \in Range(t.segs) : ~EndsBefore(y, r)
NoneAfter(t, r)  == \A y \in Range(t.segs) : ~StartsAfter(y, r)

Tidy(t) == AlikeSet(Range(t.segs)) /\ Ordered(t.segs) /\ Healed(Range(t.segs))

(* If what is new replaces some segments, what is known of an entry stays. *)
LEMMA GrownKeeps ==
  ASSUME NEW t \in Entry, NEW h, EntryInv(t, h), NEW r \in Records,
         NEW m \in Seq(Segment), NEW i \in 1..Len(m), NEW gone,
         Replaces(Range(t.segs), Range(m), gone, m[i], r),
         Ordered(t.segs) => OrderedBut(m, i),
         Tidy(t) /\ h =>
           /\ NoneBefore(t, r) \/ \E g \in gone : m[i].start = g.start
           /\ NoneAfter(t, r) \/ \E g \in gone : m[i].end = g.end
  PROVE  EntryInv(Grown(t, r, m, i), h)
<1> DEFINE u == Grown(t, r, m, i)
<1>1. /\ u \in Entry /\ u.segs = Sorted(m, i) /\ Range(u.segs) = Range(m)
      /\ u.earliest = IF r.start < t.earliest THEN r.start ELSE t.earliest
      /\ u.latest = IF EndTime(r) > t.latest THEN EndTime(r) ELSE t.latest
  BY GrownIs
<1> HIDE DEF u
<1>2. Covers(u)
  BY <1>1, StayCovered DEF EntryInv
<1>3. ASSUME AlikeSet(Range(u.segs)) PROVE Ordered(u.segs) /\ (h => Healed(Range(u.segs)))
  <2>1. AlikeSet(Range(t.segs))
    BY <1>1, <1>3, WereAlike
  <2>2. Ordered(t.segs) /\ (h => Healed(Range(t.segs)))
    BY <2>1 DEF EntryInv
  <2>3. Ordered(u.segs)
    BY <1>1, <2>2, SortedOrders
  <2>4. ASSUME h PROVE Healed(Range(u.segs))
    <3>1. \A s \in Range(t.segs) : Whole(s)
      BY DEF EntryInv, Covers
    <3>2. Range(t.segs) \in SUBSET Segment /\ Range(m) \in SUBSET Segment
      BY EntriesAre, RangeIs
    <3>3. AlikeSet(Range(m)) /\ Healed(Range(t.segs))
      BY <1>1, <1>3, <2>2, <2>4
    <3>4. /\ NoneBefore(t, r) \/ \E g \in gone : m[i].start = g.start
          /\ NoneAfter(t, r) \/ \E g \in gone : m[i].end = g.end
      BY <2>1, <2>2, <2>4 DEF Tidy
    <3>5. /\ \A y \in Range(t.segs) : Continues(y, mstl3_msr2seg(r)) => \E g \in gone : m[i].start = g.start
          /\ \A y \in Range(t.segs) : Continues(mstl3_msr2seg(r), y) => \E g \in gone : m[i].end = g.end
      BY <3>2, <3>4, FitsIs DEF NoneBefore, NoneAfter
    <3>6. Healed(Range(m))
      BY <3>1, <3>2, <3>3, <3>5, StayHealed
    <3> QED BY <1>1, <3>6
  <2> QED BY <2>3, <2>4
<1> QED BY <1>2, <1>3 DEF EntryInv, u

(* Where the search need not look, no segment fits.                        *)
LEMMA NotBoth ==
  ASSUME NEW s \in Segment, Whole(s), NEW r \in Records
  PROVE  ~(EndsBefore(s, r) /\ StartsAfter(s, r))
<1>1. s.start \in Int /\ s.end \in Int /\ s.start <= s.end
  BY SegmentsAre DEF Whole
<1>2. r.start \in Int /\ EndTime(r) \in Int /\ r.start <= EndTime(r)
  BY RecordsAre
<1>3. EndsBefore(s, r) => s.end < r.start
  BY MeetBefore
<1>4. StartsAfter(s, r) => EndTime(r) < s.start
  BY MeetAfter
<1> QED BY <1>1, <1>2, <1>3, <1>4

LEMMA EntrySegments ==
  ASSUME NEW t \in Entry, NEW h, EntryInv(t, h), NEW s \in Range(t.segs)
  PROVE  /\ s \in Segment /\ Whole(s) /\ s.start \in Int /\ s.end \in Int /\ s.start <= s.end
         /\ t.earliest <= s.start /\ s.end <= t.latest
<1>1. s \in Segment /\ Whole(s) /\ t.earliest <= s.start /\ s.end <= t.latest
  BY EntriesAre DEF EntryInv, Covers
<1> QED BY <1>1, SegmentsAre DEF Whole

LEMMA NoneAfterEnd ==
  ASSUME NEW t \in Entry, NEW h, EntryInv(t, h), NEW r \in Records, Ordered(t.segs), AtEnd(t, r)
  PROVE  NoneAfter(t, r)
<1> SUFFICES ASSUME NEW y \in Range(t.segs), StartsAfter(y, r) PROVE FALSE
  BY DEF NoneAfter
<1>1. /\ t.segs \in Seq(Segment) /\ Len(t.segs) \in Nat \ {0}
  BY EntriesAre
<1> DEFINE last == t.segs[Len(t.segs)]
<1>2. last \in Range(t.segs)
  BY <1>1, RangeIs
<1>3. EndsBefore(last, r)
  BY DEF AtEnd, Last
<1>4. PICK p \in 1..Len(t.segs) : y = t.segs[p]
  BY <1>1, RangeIs
<1> HIDE DEF last
<1>5. ~Precedes(last, y) \/ y = last
  <2>1. p = Len(t.segs) \/ p < Len(t.segs)
    BY <1>1, <1>4
  <2>2. Len(t.segs) \in 1..Len(t.segs)
    BY <1>1
  <2> QED BY <1>4, <2>1, <2>2 DEF Ordered, last
<1>6. y.start <= last.start
  BY <1>2, <1>5, EntrySegments DEF Precedes
<1>7. last.end < r.start
  BY <1>2, <1>3, EntrySegments, MeetBefore
<1>8. EndTime(r) < y.start
  BY EntrySegments, MeetAfter
<1>9. r.start <= EndTime(r) /\ r.start \in Int /\ EndTime(r) \in Int
  BY RecordsAre
<1>10. last.start <= last.end /\ last.start \in Int /\ last.end \in Int /\ y.start \in Int
  BY <1>2, EntrySegments
<1> QED BY <1>6, <1>7, <1>8, <1>9, <1>10

LEMMA NoneBeforeStart ==
  ASSUME NEW t \in Entry, NEW h, EntryInv(t, h), NEW r \in Records, Ordered(t.segs), AtStart(t, r)
  PROVE  NoneBefore(t, r)
<1> SUFFICES ASSUME NEW y \in Range(t.segs), EndsBefore(y, r) PROVE FALSE
  BY DEF NoneBefore
<1>1. /\ t.segs \in Seq(Segment) /\ Len(t.segs) \in Nat \ {0}
  BY EntriesAre
<1> DEFINE first == t.segs[1]
<1>2. first \in Range(t.segs)
  BY <1>1, RangeIs
<1>3. StartsAfter(first, r)
  BY <1>1 DEF AtStart
<1>4. PICK p \in 1..Len(t.segs) : y = t.segs[p]
  BY <1>1, RangeIs
<1> HIDE DEF first
<1>5. ~Precedes(y, first) \/ y = first
  <2>1. p = 1 \/ 1 < p
    BY <1>1, <1>4
  <2>2. 1 \in 1..Len(t.segs)
    BY <1>1
  <2> QED BY <1>4, <2>1, <2>2 DEF Ordered, first
<1>6. first.start <= y.start
  BY <1>2, <1>5, EntrySegments DEF Precedes
<1>7. EndTime(r) < first.start
  BY <1>2, <1>3, EntrySegments, MeetAfter
<1>8. y.end < r.start
  BY EntrySegments, MeetBefore
<1>9. r.start <= EndTime(r) /\ r.start \in Int /\ EndTime(r) \in Int
  BY RecordsAre
<1>10. y.start <= y.end /\ y.start \in Int /\ y.end \in Int /\ first.start \in Int
  BY <1>2, EntrySegments
<1> QED BY <1>6, <1>7, <1>8, <1>9, <1>10

LEMMA NoneOutside ==
  ASSUME NEW t \in Entry, NEW h, EntryInv(t, h), NEW r \in Records, AfterAll(t, r) \/ BeforeAll(t, r)
  PROVE  NoneBefore(t, r) /\ NoneAfter(t, r)
<1>1. /\ r.period \in Nat \ {0} /\ r.start \in Int /\ EndTime(r) \in Int /\ r.start <= EndTime(r)
      /\ r.period \div 2 \in Nat /\ r.period \div 2 < r.period
      /\ t.earliest \in Int /\ t.latest \in Int
  BY RecordsAre, EntriesAre
<1> SUFFICES ASSUME NEW y \in Range(t.segs), EndsBefore(y, r) \/ StartsAfter(y, r) PROVE FALSE
  BY DEF NoneBefore, NoneAfter
<1>2. y.start \in Int /\ y.end \in Int /\ y.start <= y.end /\ t.earliest <= y.start /\ y.end <= t.latest
  BY EntrySegments
<1>3. CASE AfterAll(t, r)
  <2>1. r.start - r.period - r.period \div 2 > t.latest
    BY <1>3 DEF AfterAll, Tolerance
  <2>2. CASE EndsBefore(y, r)
    BY <1>1, <1>2, <2>1, <2>2 DEF EndsBefore, Meet, Tolerance
  <2>3. CASE StartsAfter(y, r)
    BY <1>1, <1>2, <2>1, <2>3 DEF StartsAfter, Meet, Tolerance
  <2> QED BY <2>2, <2>3
<1>4. CASE BeforeAll(t, r)
  <2>1. EndTime(r) + r.period + r.period \div 2 < t.earliest
    BY <1>4 DEF BeforeAll, Tolerance
  <2>2. CASE EndsBefore(y, r)
    BY <1>1, <1>2, <2>1, <2>2 DEF EndsBefore, Meet, Tolerance
  <2>3. CASE StartsAfter(y, r)
    BY <1>1, <1>2, <2>1, <2>3 DEF StartsAfter, Meet, Tolerance
  <2> QED BY <2>2, <2>3
<1> QED BY <1>3, <1>4

LEMMA NoneBesideExact ==
  ASSUME NEW t \in Entry, NEW h, EntryInv(t, h), NEW r \in Records, Tidy(t), Exact(t.segs, r) # {}
  PROVE  NoneBefore(t, r) /\ NoneAfter(t, r)
<1>1. PICK e \in Range(t.segs) : e.start = r.start /\ e.end = EndTime(r)
  BY DEF Exact, Range
<1>2. mstl3_msr2seg(r).start = r.start /\ mstl3_msr2seg(r).end = EndTime(r)
  BY OneRecord
<1> SUFFICES ASSUME NEW y \in Range(t.segs), EndsBefore(y, r) \/ StartsAfter(y, r) PROVE FALSE
  BY DEF NoneBefore, NoneAfter
<1>3. y.period = e.period
  <2>1. Range(t.segs) \in SUBSET Segment /\ AlikeSet(Range(t.segs)) /\ \A s \in Range(t.segs) : Whole(s)
    BY EntriesAre, EntrySegments DEF Tidy
  <2> QED BY <2>1, OnePeriod
<1>4. y \in Segment
  BY EntrySegments
<1>5. ~Continues(y, e) /\ ~Continues(e, y)
  BY DEF Tidy, Healed
<1>6. Continues(y, mstl3_msr2seg(r)) \/ Continues(mstl3_msr2seg(r), y)
  BY <1>4, FitsIs
<1> QED BY <1>1, <1>2, <1>3, <1>5, <1>6 DEF Continues

-----------------------------------------------------------------------------
(* What adding a record does to an entry of the list.                      *)
LEMMA ReplacedKeeps ==
  ASSUME NEW t \in Entry, NEW h, EntryInv(t, h), NEW r \in Records,
         NEW i \in 1..Len(t.segs), NEW x \in Segment, Whole(x),
         Range(x.recs) = Range(t.segs[i].recs) \cup {r},
         x.samples = <<>> => t.segs[i].samples = <<>>,
         x.start <= r.start, x.start <= t.segs[i].start, x.start \in {r.start, t.segs[i].start},
         EndTime(r) <= x.end, t.segs[i].end <= x.end, x.end \in {EndTime(r), t.segs[i].end},
         Tidy(t) /\ h => /\ NoneBefore(t, r) \/ x.start = t.segs[i].start
                         /\ NoneAfter(t, r) \/ x.end = t.segs[i].end
  PROVE  EntryInv(Grown(t, r, [t.segs EXCEPT ![i] = x], i), h)
<1> DEFINE s == t.segs
           a == t.segs[i]
           m == [s EXCEPT ![i] = x]
<1>1. s \in Seq(Segment) /\ a \in Range(s) /\ i \in 1..Len(s)
  <2>1. t.segs \in Seq(Segment)
    BY EntriesAre
  <2> QED BY <2>1, RangeIs
<1>2. a.recs # <<>>
  <2>1. a \in Range(t.segs)
    BY <1>1
  <2>2. Whole(a)
    BY <2>1, EntrySegments
  <2> QED BY <2>2, Zenon DEF Whole
<1>3. /\ Range(x.recs) = Range(a.recs) \cup {r} /\ (x.samples = <<>> => a.samples = <<>>)
      /\ x.start <= r.start /\ x.start <= a.start /\ x.start \in {r.start, a.start}
      /\ EndTime(r) <= x.end /\ a.end <= x.end /\ x.end \in {EndTime(r), a.end}
  OBVIOUS
<1>4. Tidy(t) /\ h => /\ NoneBefore(t, r) \/ x.start = a.start
                      /\ NoneAfter(t, r) \/ x.end = a.end
  OBVIOUS
<1>5. s = t.segs /\ s[i] = a
  OBVIOUS
<1> HIDE DEF s, a
<1>6. /\ m \in Seq(Segment) /\ Len(m) = Len(s) /\ m[i] = x
      /\ \A p \in 1..Len(s) : p # i => m[p] = s[p]
      /\ Range(m) \subseteq Range(s) \cup {x} /\ x \in Range(m)
      /\ Range(s) \subseteq Range(m) \cup {a}
  <2>1. s \in Seq(Segment)
    BY <1>1
  <2>2. i \in 1..Len(s)
    BY <1>1
  <2>3. /\ m \in Seq(Segment) /\ Len(m) = Len(s) /\ m[i] = x
        /\ \A p \in 1..Len(s) : p # i => m[p] = s[p]
        /\ Range(m) \subseteq Range(s) \cup {x} /\ x \in Range(m)
        /\ Range(s) \subseteq Range(m) \cup {s[i]}
    BY <2>1, <2>2, Changed, Zenon
  <2> QED BY <1>5, <2>3
<1> HIDE DEF m
<1>7. Replaces(Range(s), Range(m), {a}, m[i], r)
  <2>1. /\ {a} \subseteq Range(s) /\ Range(m) \subseteq Range(s) \cup {m[i]} /\ m[i] \in Range(m)
        /\ Range(s) \subseteq Range(m) \cup {a}
    BY <1>1, <1>6
  <2>2. /\ Whole(x) /\ r \in Range(x.recs) /\ Range(a.recs) \subseteq Range(x.recs)
    BY <1>3
  <2>3. m[i] = x
    BY <1>6
  <2>4. Replaces(Range(s), Range(m), {a}, x, r)
    BY <1>2, <1>3, <2>1, <2>2, <2>3 DEF Replaces
  <2> QED BY <2>3, <2>4
<1>8. Ordered(s) => OrderedBut(m, i)
  BY <1>6 DEF Ordered, OrderedBut
<1>9. Tidy(t) /\ h =>
        /\ NoneBefore(t, r) \/ \E g \in {a} : m[i].start = g.start
        /\ NoneAfter(t, r) \/ \E g \in {a} : m[i].end = g.end
  BY <1>4, <1>6
<1>10. m \in Seq(Segment) /\ i \in 1..Len(m)
  BY <1>1, <1>6
<1>11. Replaces(Range(t.segs), Range(m), {a}, m[i], r) /\ (Ordered(t.segs) => OrderedBut(m, i))
  BY <1>5, <1>7, <1>8
<1>12. EntryInv(Grown(t, r, m, i), h)
  BY <1>9, <1>10, <1>11, GrownKeeps
<1> QED BY <1>12, Zenon DEF m, s

LEMMA EndedKeeps ==
  ASSUME NEW t \in Entry, NEW h, EntryInv(t, h), NEW r \in Records,
         NEW i \in 1..Len(t.segs), EndsBefore(t.segs[i], r), CanAdd(t.segs[i], r),
         Tidy(t) /\ h => NoneAfter(t, r)
  PROVE  EntryInv(Grown(t, r, [t.segs EXCEPT ![i] = Ended(t.segs[i], r)], i), h)
<1> DEFINE a == t.segs[i]
           x == Ended(a, r)
<1>1. a \in Range(t.segs)
  <2>1. t.segs \in Seq(Segment)
    BY EntriesAre
  <2> QED BY <2>1, RangeIs
<1>2. a \in Segment /\ Whole(a) /\ a.start \in Int /\ a.end \in Int /\ a.start <= a.end
  BY <1>1, EntrySegments
<1>3. EndsBefore(a, r) /\ CanAdd(a, r)
  OBVIOUS
<1> HIDE DEF a
<1>4. a \in Segment /\ Whole(a)
  BY <1>2
<1>5. /\ x \in Segment /\ Whole(x) /\ x.start = a.start /\ x.end = EndTime(r)
      /\ Range(x.recs) = Range(a.recs) \cup {r} /\ (x.samples = <<>> => a.samples = <<>>)
  BY <1>3, <1>4, EndedIs
<1>6. a.end < r.start
  BY <1>3, <1>4, MeetBefore
<1>7. r.start \in Int /\ EndTime(r) \in Int /\ r.start <= EndTime(r)
  BY RecordsAre
<1> HIDE DEF x
<1>8. /\ x.start <= r.start /\ x.start <= a.start /\ x.start \in {r.start, a.start}
      /\ EndTime(r) <= x.end /\ a.end <= x.end /\ x.end \in {EndTime(r), a.end}
  BY <1>2, <1>5, <1>6, <1>7
<1>9. Tidy(t) /\ h => /\ NoneBefore(t, r) \/ x.start = a.start
                      /\ NoneAfter(t, r) \/ x.end = a.end
  BY <1>5
<1>10. x \in Segment
  BY <1>5
<1>11. EntryInv(Grown(t, r, [t.segs EXCEPT ![i] = x], i), h)
  <2>1. /\ Whole(x) /\ Range(x.recs) = Range(t.segs[i].recs) \cup {r}
        /\ x.samples = <<>> => t.segs[i].samples = <<>>
    BY <1>5, Zenon DEF a
  <2>2. /\ x.start <= r.start /\ x.start <= t.segs[i].start /\ x.start \in {r.start, t.segs[i].start}
        /\ EndTime(r) <= x.end /\ t.segs[i].end <= x.end /\ x.end \in {EndTime(r), t.segs[i].end}
    BY <1>8, Zenon DEF a
  <2>3. Tidy(t) /\ h => /\ NoneBefore(t, r) \/ x.start = t.segs[i].start
                        /\ NoneAfter(t, r) \/ x.end = t.segs[i].end
    BY <1>9, Zenon DEF a
  <2> QED BY <1>10, <2>1, <2>2, <2>3, ReplacedKeeps
<1> QED BY <1>11, Zenon DEF x, a

LEMMA BegunKeeps ==
  ASSUME NEW t \in Entry, NEW h, EntryInv(t, h), NEW r \in Records,
         NEW i \in 1..Len(t.segs), StartsAfter(t.segs[i], r), CanAdd(t.segs[i], r),
         Tidy(t) /\ h => NoneBefore(t, r)
  PROVE  EntryInv(Grown(t, r, [t.segs EXCEPT ![i] = Begun(t.segs[i], r)], i), h)
<1> DEFINE a == t.segs[i]
           x == Begun(a, r)
<1>1. a \in Range(t.segs)
  <2>1. t.segs \in Seq(Segment)
    BY EntriesAre
  <2> QED BY <2>1, RangeIs
<1>2. a \in Segment /\ Whole(a) /\ a.start \in Int /\ a.end \in Int /\ a.start <= a.end
  BY <1>1, EntrySegments
<1>3. StartsAfter(a, r) /\ CanAdd(a, r)
  OBVIOUS
<1> HIDE DEF a
<1>4. a \in Segment /\ Whole(a)
  BY <1>2
<1>5. /\ x \in Segment /\ Whole(x) /\ x.start = r.start /\ x.end = a.end
      /\ Range(x.recs) = Range(a.recs) \cup {r} /\ (x.samples = <<>> => a.samples = <<>>)
  BY <1>3, <1>4, BegunIs
<1>6. EndTime(r) < a.start
  BY <1>3, <1>4, MeetAfter
<1>7. r.start \in Int /\ EndTime(r) \in Int /\ r.start <= EndTime(r)
  BY RecordsAre
<1> HIDE DEF x
<1>8. /\ x.start <= r.start /\ x.start <= a.start /\ x.start \in {r.start, a.start}
      /\ EndTime(r) <= x.end /\ a.end <= x.end /\ x.end \in {EndTime(r), a.end}
  BY <1>2, <1>5, <1>6, <1>7
<1>9. Tidy(t) /\ h => /\ NoneBefore(t, r) \/ x.start = a.start
                      /\ NoneAfter(t, r) \/ x.end = a.end
  BY <1>5
<1>10. x \in Segment
  BY <1>5
<1>11. EntryInv(Grown(t, r, [t.segs EXCEPT ![i] = x], i), h)
  <2>1. /\ Whole(x) /\ Range(x.recs) = Range(t.segs[i].recs) \cup {r}
        /\ x.samples = <<>> => t.segs[i].samples = <<>>
    BY <1>5, Zenon DEF a
  <2>2. /\ x.start <= r.start /\ x.start <= t.segs[i].start /\ x.start \in {r.start, t.segs[i].start}
        /\ EndTime(r) <= x.end /\ t.segs[i].end <= x.end /\ x.end \in {EndTime(r), t.segs[i].end}
    BY <1>8, Zenon DEF a
  <2>3. Tidy(t) /\ h => /\ NoneBefore(t, r) \/ x.start = t.segs[i].start
                        /\ NoneAfter(t, r) \/ x.end = t.segs[i].end
    BY <1>9, Zenon DEF a
  <2> QED BY <1>10, <2>1, <2>2, <2>3, ReplacedKeeps
<1> QED BY <1>11, Zenon DEF x, a

LEMMA OrderedPutIn ==
  ASSUME NEW s \in Seq(Segment), NEW x \in Segment, NEW i \in 1..(Len(s) + 1), Ordered(s)
  PROVE  OrderedBut(InsertAt(s, i, x), i)
<1> DEFINE m == InsertAt(s, i, x)
<1>1. /\ m \in Seq(Segment) /\ Len(m) = Len(s) + 1 /\ m[i] = x
      /\ \A p \in 1..Len(s) : m[IF p < i THEN p ELSE p + 1] = s[p]
  BY PutIn
<1>2. Len(s) \in Nat
  OBVIOUS
<1> HIDE DEF m
<1>3. ASSUME NEW p \in 1..Len(m), p # i
      PROVE  \E b \in 1..Len(s) : b = (IF p < i THEN p ELSE p - 1) /\ m[p] = s[b]
  <2>1. p \in 1..(Len(s) + 1) /\ i \in 1..(Len(s) + 1)
    BY <1>1
  <2>2. PICK b \in 1..Len(s) : b = IF p < i THEN p ELSE p - 1
    BY <1>2, <1>3, <2>1
  <2>3. p = IF b < i THEN b ELSE b + 1
    BY <1>2, <1>3, <2>1, <2>2
  <2> QED BY <1>1, <2>2, <2>3
<1>4. ASSUME NEW p \in 1..Len(m), NEW q \in 1..Len(m), p < q, p # i, q # i PROVE ~Precedes(m[q], m[p])
  <2>1. PICK b \in 1..Len(s) : b = (IF p < i THEN p ELSE p - 1) /\ m[p] = s[b]
    BY <1>3, <1>4
  <2>2. PICK c \in 1..Len(s) : c = (IF q < i THEN q ELSE q - 1) /\ m[q] = s[c]
    BY <1>3, <1>4
  <2>3. b < c
    BY <1>1, <1>2, <1>4, <2>1, <2>2
  <2> QED BY <2>1, <2>2, <2>3 DEF Ordered
<1> QED BY <1>4 DEF OrderedBut, m

LEMMA NewKeeps ==
  ASSUME NEW t \in Entry, NEW h, EntryInv(t, h), NEW r \in Records,
         NEW i \in 1..(Len(t.segs) + 1),
         Tidy(t) /\ h => NoneBefore(t, r) /\ NoneAfter(t, r)
  PROVE  EntryInv(Grown(t, r, InsertAt(t.segs, i, mstl3_msr2seg(r)), i), h)
<1> DEFINE s == t.segs
           x == mstl3_msr2seg(r)
           m == InsertAt(s, i, x)
<1>1. s \in Seq(Segment) /\ Len(s) \in Nat
  BY EntriesAre
<1>2. /\ x \in Segment /\ Whole(x) /\ x.start = r.start /\ x.end = EndTime(r) /\ Range(x.recs) = {r}
  BY OneRecord
<1>3. i \in 1..(Len(s) + 1) /\ s = t.segs
  OBVIOUS
<1> HIDE DEF s, x
<1>4. m \in Seq(Segment) /\ Len(m) = Len(s) + 1 /\ m[i] = x
  <2>1. s \in Seq(Segment) /\ x \in Segment
    BY <1>1, <1>2
  <2> QED BY <1>3, <2>1, PutIn
<1>5. Range(m) = Range(s) \cup {x}
  <2>1. s \in Seq(Segment) /\ x \in Segment
    BY <1>1, <1>2
  <2> QED BY <1>3, <2>1, RangePutIn
<1>6. Ordered(s) => OrderedBut(m, i)
  <2>1. s \in Seq(Segment) /\ x \in Segment
    BY <1>1, <1>2
  <2> QED BY <1>3, <2>1, OrderedPutIn
<1> HIDE DEF m
<1>7. r.start \in Int /\ EndTime(r) \in Int /\ r.start <= EndTime(r)
  BY RecordsAre
<1>8. Replaces(Range(s), Range(m), {}, m[i], r)
  BY <1>2, <1>4, <1>5, <1>7 DEF Replaces
<1>9. i \in 1..Len(m)
  BY <1>1, <1>3, <1>4
<1>10. Tidy(t) /\ h => /\ NoneBefore(t, r) \/ \E g \in {} : m[i].start = g.start
                       /\ NoneAfter(t, r) \/ \E g \in {} : m[i].end = g.end
  OBVIOUS
<1>11. Replaces(Range(t.segs), Range(m), {}, m[i], r) /\ (Ordered(t.segs) => OrderedBut(m, i))
  BY <1>3, <1>6, <1>8
<1>12. m \in Seq(Segment)
  BY <1>4
<1>13. EntryInv(Grown(t, r, m, i), h)
  BY <1>9, <1>10, <1>11, <1>12, GrownKeeps
<1> QED BY <1>13, Zenon DEF m, s, x

(* A segment takes the record and the segment after it in.                 *)
TookIn(m, s, i, j, x, p) ==
  /\ p \in 1..Len(m) /\ m[p] = x
  /\ \A u \in 1..Len(m) : u # p =>
       \E v \in 1..Len(s) : v = (IF u < j THEN u ELSE u + 1) /\ v # i /\ v # j /\ m[u] = s[v]
  /\ Range(m) \subseteq Range(s) \cup {x} /\ x \in Range(m)
  /\ Range(s) \subseteq Range(m) \cup {s[i], s[j]}

LEMMA TakenIn ==
  ASSUME NEW S, NEW s \in Seq(S), NEW i \in 1..Len(s), NEW j \in 1..Len(s), i # j, NEW x \in S,
         NEW p, p = IF j < i THEN i - 1 ELSE i
  PROVE  LET m == RemoveAt([s EXCEPT ![i] = x], j)
         IN  m \in Seq(S) /\ TookIn(m, s, i, j, x, p)
<1> DEFINE m0 == [s EXCEPT ![i] = x]
           m == RemoveAt(m0, j)
<1>1. /\ m0 \in Seq(S) /\ Len(m0) = Len(s) /\ m0[i] = x
      /\ \A q \in 1..Len(s) : q # i => m0[q] = s[q]
      /\ Range(m0) \subseteq Range(s) \cup {x}
  BY Changed
<1>2. Len(s) \in Nat
  OBVIOUS
<1> HIDE DEF m0
<1>3. j \in 1..Len(m0)
  BY <1>1
<1>4. /\ m \in Seq(S) /\ Len(m) = Len(s) - 1
      /\ \A u \in 1..(Len(s) - 1) : m[u] = m0[IF u < j THEN u ELSE u + 1]
  BY <1>1, <1>3, TakenOut
<1>5. /\ Range(m) \subseteq Range(m0)
      /\ \A q \in 1..Len(s) : q # j => m0[q] \in Range(m)
  BY <1>1, <1>3, RangeTakenOut
<1> HIDE DEF m
<1>6. p \in 1..Len(m) /\ m[p] = x
  BY <1>1, <1>2, <1>4
<1>7. ASSUME NEW u \in 1..Len(m), u # p
      PROVE  \E v \in 1..Len(s) : v = (IF u < j THEN u ELSE u + 1) /\ v # i /\ v # j /\ m[u] = s[v]
  <2>1. PICK v \in 1..Len(s) : v = IF u < j THEN u ELSE u + 1
    BY <1>2, <1>4
  <2>2. v # i /\ v # j
    BY <1>2, <1>4, <1>7, <2>1
  <2>3. m[u] = m0[v]
    BY <1>4, <2>1
  <2> QED BY <1>1, <2>1, <2>2, <2>3
<1>8. x \in Range(m)
  BY <1>1, <1>5
<1>9. Range(s) \subseteq Range(m) \cup {s[i], s[j]}
  <2>1. ASSUME NEW q \in 1..Len(s) PROVE s[q] \in Range(m) \cup {s[i], s[j]}
    BY <1>1, <1>5
  <2> QED BY <2>1, RangeIs
<1>10. Range(m) \subseteq Range(s) \cup {x}
  BY <1>1, <1>5
<1>11. m \in Seq(S) /\ TookIn(m, s, i, j, x, p)
  BY <1>4, <1>6, <1>7, <1>8, <1>9, <1>10 DEF TookIn
<1> QED BY <1>11 DEF m, m0

Merged(a, b, r) == mstl3_addsegtoseg(Ended(a, r), b)

LEMMA FilledIs ==
  ASSUME NEW a \in Segment, NEW b \in Segment, NEW r \in Records, Whole(a), Whole(b),
         EndsBefore(a, r), StartsAfter(b, r), CanAdd(a, r),
         b.samples = <<>> \/ b.type = Ended(a, r).type
  PROVE  LET x == Merged(a, b, r)
         IN  /\ x \in Segment /\ Whole(x) /\ x.start = a.start /\ x.end = b.end
             /\ Range(x.recs) = Range(a.recs) \cup {r} \cup Range(b.recs)
             /\ x.samples = <<>> => a.samples = <<>> /\ b.samples = <<>>
             /\ x.start <= r.start /\ EndTime(r) <= x.end
             /\ x.start <= b.start /\ a.end <= x.end
<1> DEFINE e == Ended(a, r)
           x == Merged(a, b, r)
<1>1. /\ e \in Segment /\ Whole(e) /\ e.start = a.start /\ e.end = EndTime(r) /\ e.type = a.type
      /\ Range(e.recs) = Range(a.recs) \cup {r}
      /\ e.samples = <<>> => a.samples = <<>>
  BY EndedIs
<1>2. EndTime(r) < b.start /\ b.period = r.period /\ a.end < r.start /\ a.period = r.period
  BY MeetBefore, MeetAfter
<1>3. e.period = a.period
  BY SegmentsAre DEF Ended, Segment
<1>4. x = mstl3_addsegtoseg(e, b)
  BY Zenon DEF Merged
<1>5. b.samples = <<>> \/ b.type = e.type
  OBVIOUS
<1> HIDE DEF e, x
<1>6. e \in Segment
  BY <1>1
<1>7. Whole(e) /\ e.period = b.period /\ e.end < b.start
  BY <1>1, <1>2, <1>3
<1>8. /\ x \in Segment /\ Whole(x) /\ x.start = e.start /\ x.end = b.end
      /\ Range(x.recs) = Range(e.recs) \cup Range(b.recs)
      /\ x.samples = <<>> => e.samples = <<>> /\ b.samples = <<>>
  BY <1>4, <1>5, <1>6, <1>7, MergedIs
<1>9. /\ a.start \in Int /\ a.end \in Int /\ a.start <= a.end
      /\ b.start \in Int /\ b.end \in Int /\ b.start <= b.end
      /\ r.start \in Int /\ EndTime(r) \in Int /\ r.start <= EndTime(r)
  BY SegmentsAre, RecordsAre DEF Whole
<1>10. /\ x.start <= r.start /\ EndTime(r) <= x.end
       /\ x.start <= b.start /\ a.end <= x.end
  BY <1>1, <1>2, <1>8, <1>9
<1>11. Range(x.recs) = Range(a.recs) \cup {r} \cup Range(b.recs)
  BY <1>1, <1>8
<1>12. x.start = a.start
  BY <1>1, <1>8
<1>13. x.samples = <<>> => a.samples = <<>> /\ b.samples = <<>>
  BY <1>1, <1>8
<1> QED BY <1>8, <1>10, <1>11, <1>12, <1>13 DEF x

LEMMA FilledKeeps ==
  ASSUME NEW t \in Entry, NEW h, EntryInv(t, h), NEW r \in Records,
         NEW i \in 1..Len(t.segs), NEW j \in 1..Len(t.segs), i # j,
         EndsBefore(t.segs[i], r), StartsAfter(t.segs[j], r), CanAdd(t.segs[i], r),
         t.segs[j].samples = <<>> \/ t.segs[j].type = Ended(t.segs[i], r).type,
         NEW p, p = IF j < i THEN i - 1 ELSE i
  PROVE  LET m == RemoveAt([t.segs EXCEPT ![i] = Merged(t.segs[i], t.segs[j], r)], j)
         IN  m \in Seq(Segment) /\ p \in 1..Len(m) /\ EntryInv(Grown(t, r, m, p), h)
<1> DEFINE s == t.segs
           a == s[i]
           b == s[j]
           x == Merged(a, b, r)
           m == RemoveAt([s EXCEPT ![i] = x], j)
<1>1. s \in Seq(Segment) /\ a \in Range(s) /\ b \in Range(s) /\ i \in 1..Len(s) /\ j \in 1..Len(s)
  <2>1. t.segs \in Seq(Segment)
    BY EntriesAre
  <2> QED BY <2>1, RangeIs
<1>2. /\ a \in Segment /\ Whole(a) /\ a.start \in Int /\ a.end \in Int /\ a.start <= a.end
      /\ b \in Segment /\ Whole(b) /\ b.start \in Int /\ b.end \in Int /\ b.start <= b.end
  <2>1. a \in Range(t.segs) /\ b \in Range(t.segs)
    BY <1>1
  <2> QED BY <2>1, EntrySegments
<1>3. /\ EndsBefore(a, r) /\ StartsAfter(b, r) /\ CanAdd(a, r)
      /\ b.samples = <<>> \/ b.type = Ended(a, r).type
  OBVIOUS
<1>4. s = t.segs /\ s[i] = a /\ s[j] = b
  OBVIOUS
<1> HIDE DEF s, a, b
<1>5. a \in Segment /\ b \in Segment /\ Whole(a) /\ Whole(b)
  BY <1>2
<1>6. /\ x \in Segment /\ Whole(x) /\ x.start = a.start /\ x.end = b.end
      /\ Range(x.recs) = Range(a.recs) \cup {r} \cup Range(b.recs)
      /\ x.samples = <<>> => a.samples = <<>> /\ b.samples = <<>>
      /\ x.start <= r.start /\ EndTime(r) <= x.end
      /\ x.start <= b.start /\ a.end <= x.end
  BY <1>3, <1>5, FilledIs
<1> HIDE DEF x
<1>6a. m \in Seq(Segment) /\ TookIn(m, s, i, j, x, p)
  <2>1. s \in Seq(Segment) /\ x \in Segment
    BY <1>1, <1>6
  <2>2. i \in 1..Len(s) /\ j \in 1..Len(s)
    BY <1>1
  <2> QED BY <2>1, <2>2, TakenIn, Zenon
<1> HIDE DEF m
<1>7. /\ m \in Seq(Segment) /\ p \in 1..Len(m) /\ m[p] = x
      /\ \A u \in 1..Len(m) : u # p =>
           \E v \in 1..Len(s) :
             v = (IF u < j THEN u ELSE u + 1) /\ v # i /\ v # j /\ m[u] = s[v]
      /\ Range(m) \subseteq Range(s) \cup {x} /\ x \in Range(m)
      /\ Range(s) \subseteq Range(m) \cup {s[i], s[j]}
  BY <1>6a DEF TookIn
<1>8. Replaces(Range(s), Range(m), {a, b}, m[p], r)
  <2>1. /\ {a, b} \subseteq Range(s) /\ Range(m) \subseteq Range(s) \cup {x} /\ x \in Range(m)
        /\ Range(s) \subseteq Range(m) \cup {a, b}
    BY <1>1, <1>4, <1>7
  <2>2. /\ r \in Range(x.recs) /\ Range(a.recs) \subseteq Range(x.recs) /\ Range(b.recs) \subseteq Range(x.recs)
    BY <1>6
  <2>3. a.recs # <<>> /\ b.recs # <<>>
    BY <1>2, Zenon DEF Whole
  <2>4. /\ x.start = a.start /\ x.start <= b.start /\ a.end <= x.end /\ x.end = b.end
        /\ x.start <= a.start /\ b.end <= x.end
    BY <1>2, <1>6
  <2>5. Replaces(Range(s), Range(m), {a, b}, x, r)
    BY <1>6, <2>1, <2>2, <2>3, <2>4 DEF Replaces
  <2> QED BY <1>7, <2>5
<1>9. ASSUME Ordered(s) PROVE OrderedBut(m, p)
  <2>1. ASSUME NEW u \in 1..Len(m), NEW v \in 1..Len(m), u < v, u # p, v # p PROVE ~Precedes(m[v], m[u])
    <3>1. PICK c \in 1..Len(s) : c = (IF u < j THEN u ELSE u + 1) /\ m[u] = s[c]
      BY <1>7, <2>1
    <3>2. PICK d \in 1..Len(s) : d = (IF v < j THEN v ELSE v + 1) /\ m[v] = s[d]
      BY <1>7, <2>1
    <3>3. c < d
      <4>1. Len(m) \in Nat /\ Len(s) \in Nat
        BY <1>1, <1>7
      <4> QED BY <2>1, <3>1, <3>2, <4>1
    <3> QED BY <1>9, <3>1, <3>2, <3>3 DEF Ordered
  <2> QED BY <2>1 DEF OrderedBut
<1>10. Tidy(t) /\ h => /\ NoneBefore(t, r) \/ \E g \in {a, b} : m[p].start = g.start
                       /\ NoneAfter(t, r) \/ \E g \in {a, b} : m[p].end = g.end
  BY <1>6, <1>7
<1>11. Replaces(Range(t.segs), Range(m), {a, b}, m[p], r) /\ (Ordered(t.segs) => OrderedBut(m, p))
  BY <1>4, <1>8, <1>9
<1>12. m \in Seq(Segment) /\ p \in 1..Len(m)
  BY <1>7
<1>13. EntryInv(Grown(t, r, m, p), h)
  BY <1>10, <1>11, <1>12, GrownKeeps
<1> QED BY <1>12, <1>13, Zenon DEF m, x, a, b, s

(* A gap that is closed from one side only, as the samples beyond are of   *)
(* another type: the segments are not alike.                               *)
LEMMA UnlikeKeeps ==
  ASSUME NEW t \in Entry, NEW h, EntryInv(t, h), NEW r \in Records,
         NEW i \in 1..Len(t.segs), NEW j \in 1..Len(t.segs), i # j,
         EndsBefore(t.segs[i], r), StartsAfter(t.segs[j], r), CanAdd(t.segs[i], r),
         t.segs[j].samples # <<>>, t.segs[j].type # Ended(t.segs[i], r).type
  PROVE  EntryInv([t EXCEPT !.segs = [t.segs EXCEPT ![i] = Ended(t.segs[i], r)]], h)
<1> DEFINE s == t.segs
           a == s[i]
           b == s[j]
           x == Ended(a, r)
           m == [s EXCEPT ![i] = x]
           u == [t EXCEPT !.segs = m]
<1>1. s \in Seq(Segment) /\ a \in Range(s) /\ b \in Range(s) /\ i \in 1..Len(s) /\ j \in 1..Len(s)
  <2>1. t.segs \in Seq(Segment)
    BY EntriesAre
  <2> QED BY <2>1, RangeIs
<1>2. /\ a \in Segment /\ Whole(a) /\ a.start \in Int /\ a.end \in Int /\ a.start <= a.end
      /\ b \in Segment /\ Whole(b) /\ b.start \in Int /\ b.end \in Int /\ b.start <= b.end
      /\ t.earliest <= a.start /\ b.end <= t.latest
  <2>1. a \in Range(t.segs) /\ b \in Range(t.segs)
    BY <1>1
  <2> QED BY <2>1, EntrySegments
<1>3. /\ EndsBefore(a, r) /\ StartsAfter(b, r) /\ CanAdd(a, r)
      /\ b.samples # <<>> /\ b.type # x.type
  OBVIOUS
<1>4. s = t.segs /\ s[i] = a /\ s[j] = b
  OBVIOUS
<1>5. u.segs = m /\ u.earliest = t.earliest /\ u.latest = t.latest
  BY DEF Entry
<1> HIDE DEF s, a, b, u
<1>6. a \in Segment /\ Whole(a)
  BY <1>2
<1>7. /\ x \in Segment /\ Whole(x) /\ x.start = a.start /\ x.end = EndTime(r) /\ x.type = a.type
      /\ Range(x.recs) = Range(a.recs) \cup {r}
  BY <1>3, <1>6, EndedIs
<1> HIDE DEF x
<1>8. /\ m \in Seq(Segment) /\ Len(m) = Len(s) /\ m[i] = x
      /\ \A p \in 1..Len(s) : p # i => m[p] = s[p]
      /\ Range(m) \subseteq Range(s) \cup {x} /\ x \in Range(m)
      /\ Range(s) \subseteq Range(m) \cup {s[i]}
  <2>1. s \in Seq(Segment) /\ x \in Segment
    BY <1>1, <1>7
  <2>2. i \in 1..Len(s)
    BY <1>1
  <2> QED BY <2>1, <2>2, Changed, Zenon
<1> HIDE DEF m
<1>9. b \in Range(m)
  <2>1. m[j] = b /\ j \in 1..Len(m)
    BY <1>1, <1>4, <1>8
  <2>2. m \in Seq(Segment)
    BY <1>8
  <2> QED BY <2>1, <2>2, RangeIs
<1>10. EndTime(r) < b.start /\ a.end < r.start
  <2>1. a \in Segment /\ b \in Segment
    BY <1>2
  <2> QED BY <1>3, <2>1, MeetBefore, MeetAfter
<1>11. r.start \in Int /\ EndTime(r) \in Int /\ r.start <= EndTime(r)
  BY RecordsAre
<1>12. t.latest \in Int /\ t.earliest \in Int
  BY EntriesAre
<1>13. /\ \A y \in Range(s) : Whole(y) /\ t.earliest <= y.start /\ y.end <= t.latest
       /\ \E y \in Range(s) : t.earliest = y.start
       /\ \E y \in Range(s) : t.latest = y.end
  BY <1>4 DEF EntryInv, Covers
<1>14. x.end <= t.latest /\ t.earliest <= x.start /\ a.end < t.latest
  BY <1>2, <1>7, <1>10, <1>11, <1>12
<1>15. Covers(u)
  <2>1. ASSUME NEW y \in Range(m) PROVE Whole(y) /\ t.earliest <= y.start /\ y.end <= t.latest
    BY <1>7, <1>8, <1>13, <1>14
  <2>2. \E y \in Range(m) : t.earliest = y.start
    BY <1>4, <1>7, <1>8, <1>13
  <2>3. \E y \in Range(m) : t.latest = y.end
    <3>1. PICK y \in Range(s) : t.latest = y.end
      BY <1>13
    <3>2. y # a
      BY <1>2, <1>12, <1>14, <3>1
    <3> QED BY <1>4, <1>8, <3>1, <3>2
  <2> QED BY <1>5, <2>1, <2>2, <2>3 DEF Covers
<1>16. ~AlikeSet(Range(m))
  <2> SUFFICES ASSUME AlikeSet(Range(m)) PROVE FALSE
    OBVIOUS
  <2> DEFINE q == Head(b.recs)
  <2>1. q \in Range(b.recs)
    <3>1. b.recs # <<>> /\ b.recs \in Seq(Records)
      BY <1>2, SegmentsAre DEF Whole
    <3> QED BY <3>1, FirstIn
  <2>2. r \in Range(x.recs) /\ x \in Range(m)
    BY <1>7, <1>8
  <2> HIDE DEF q
  <2>3. SampleType(r) = SampleType(q)
    BY <1>9, <2>1, <2>2, ZenonT(30) DEF AlikeSet
  <2>4. r.data /\ q.data
    BY <1>3, <1>9, <2>1, <2>2, Zenon DEF AlikeSet
  <2>5. r.type = q.type
    BY <2>3, <2>4, Zenon DEF SampleType
  <2>6. r.type = x.type
    BY <1>7, <2>2, <2>4, Zenon DEF Whole
  <2>7. q.type = b.type
    BY <1>2, <2>1, <2>4, Zenon DEF Whole
  <2> QED BY <1>3, <2>5, <2>6, <2>7
<1>17. EntryInv(u, h)
  BY <1>5, <1>15, <1>16 DEF EntryInv
<1> QED BY <1>17, Zenon DEF u, m, x, a, s

-----------------------------------------------------------------------------
(* An entry stays as it is, or what is known of it stays.                  *)
Keeps(t, u, h) == u \in Entry /\ u.sid = t.sid /\ (EntryInv(t, h) => EntryInv(u, h))

Kept(k) ==
  \/ traces' = traces
  \/ \E u \in Entry : traces' = [traces EXCEPT ![k] = u] /\ Keeps(traces[k], u, heal)

LEMMA CoveredKeeps ==
  ASSUME traces \in Seq(Entry), NEW k \in DOMAIN traces, NEW r \in Records,
         NEW m \in Seq(Segment), NEW i \in 1..Len(m), Covered(k, r, m, i),
         EntryInv(traces[k], heal) => EntryInv(Grown(traces[k], r, m, i), heal)
  PROVE  Kept(k)
<1> DEFINE t == traces[k]
           u == Grown(t, r, m, i)
<1>1. t \in Entry
  OBVIOUS
<1>2. traces' = [traces EXCEPT ![k] = u]
  BY Zenon DEF Covered
<1>3. EntryInv(t, heal) => EntryInv(u, heal)
  OBVIOUS
<1> HIDE DEF t
<1>4. u \in Entry /\ u.sid = t.sid
  BY <1>1, GrownIs
<1> HIDE DEF u
<1>5. Keeps(t, u, heal)
  BY <1>3, <1>4, Zenon DEF Keeps
<1> QED BY <1>2, <1>4, <1>5 DEF Kept, t

LEMMA AppendsKeep ==
  ASSUME traces \in Seq(Entry), NEW k \in DOMAIN traces, NEW r \in Records,
         NEW i \in 1..Len(traces[k].segs), EndsBefore(traces[k].segs[i], r), Appends(k, r, i),
         EntryInv(traces[k], heal) /\ Tidy(traces[k]) /\ heal => NoneAfter(traces[k], r)
  PROVE  Kept(k)
<1> DEFINE t == traces[k]
           m == [t.segs EXCEPT ![i] = Ended(t.segs[i], r)]
<1>1. t \in Entry
  OBVIOUS
<1>2. CASE ~CanAdd(t.segs[i], r)
  BY <1>2 DEF Appends, Kept
<1>3. CASE CanAdd(t.segs[i], r)
  <2>1. Covered(k, r, m, i)
    BY <1>3, Zenon DEF Appends
  <2>2. EntryInv(t, heal) => EntryInv(Grown(t, r, m, i), heal)
    BY <1>1, <1>3, EndedKeeps, Zenon
  <2>3. m \in Seq(Segment) /\ i \in 1..Len(m)
    <3>1. t.segs \in Seq(Segment) /\ t.segs[i] \in Segment
      BY <1>1, EntriesAre
    <3>2. Ended(t.segs[i], r) \in Segment
      BY <3>1, MadeOfRecord
    <3> QED BY <3>1, <3>2
  <2> HIDE DEF m
  <2> QED BY <2>1, <2>2, <2>3, CoveredKeeps
<1> QED BY <1>2, <1>3

LEMMA PrependsKeep ==
  ASSUME traces \in Seq(Entry), NEW k \in DOMAIN traces, NEW r \in Records,
         NEW i \in 1..Len(traces[k].segs), StartsAfter(traces[k].segs[i], r), Prepends(k, r, i),
         EntryInv(traces[k], heal) /\ Tidy(traces[k]) /\ heal => NoneBefore(traces[k], r)
  PROVE  Kept(k)
<1> DEFINE t == traces[k]
           m == [t.segs EXCEPT ![i] = Begun(t.segs[i], r)]
<1>1. t \in Entry
  OBVIOUS
<1>2. CASE ~CanAdd(t.segs[i], r)
  BY <1>2 DEF Prepends, Kept
<1>3. CASE CanAdd(t.segs[i], r)
  <2>1. Covered(k, r, m, i)
    BY <1>3, Zenon DEF Prepends
  <2>2. EntryInv(t, heal) => EntryInv(Grown(t, r, m, i), heal)
    BY <1>1, <1>3, BegunKeeps, Zenon
  <2>3. m \in Seq(Segment) /\ i \in 1..Len(m)
    <3>1. t.segs \in Seq(Segment) /\ t.segs[i] \in Segment
      BY <1>1, EntriesAre
    <3>2. Begun(t.segs[i], r) \in Segment
      BY <3>1, MadeOfRecord
    <3> QED BY <3>1, <3>2
  <2> HIDE DEF m
  <2> QED BY <2>1, <2>2, <2>3, CoveredKeeps
<1> QED BY <1>2, <1>3

LEMMA NewSegmentKeeps ==
  ASSUME traces \in Seq(Entry), NEW k \in DOMAIN traces, NEW r \in Records,
         NEW i \in 1..(Len(traces[k].segs) + 1), StartsSegment(k, r, i),
         EntryInv(traces[k], heal) /\ Tidy(traces[k]) /\ heal =>
           NoneBefore(traces[k], r) /\ NoneAfter(traces[k], r)
  PROVE  Kept(k)
<1> DEFINE t == traces[k]
           m == InsertAt(t.segs, i, mstl3_msr2seg(r))
<1>1. t \in Entry
  OBVIOUS
<1>2. Covered(k, r, m, i)
  BY Zenon DEF StartsSegment
<1>3. EntryInv(t, heal) => EntryInv(Grown(t, r, m, i), heal)
  BY <1>1, NewKeeps, Zenon
<1>4. m \in Seq(Segment) /\ i \in 1..Len(m)
  <2>1. t.segs \in Seq(Segment) /\ Len(t.segs) \in Nat /\ mstl3_msr2seg(r) \in Segment
    BY <1>1, EntriesAre, OneRecord
  <2>2. m \in Seq(Segment) /\ Len(m) = Len(t.segs) + 1
    BY <2>1, PutIn
  <2> HIDE DEF t, m
  <2>3. i \in 1..(Len(t.segs) + 1)
    BY DEF t
  <2> QED BY <2>1, <2>2, <2>3
<1> HIDE DEF m
<1> QED BY <1>2, <1>3, <1>4, CoveredKeeps

LEMMA JoinsKeep ==
  ASSUME traces \in Seq(Entry), NEW k \in DOMAIN traces, NEW r \in Records,
         NEW i \in 1..Len(traces[k].segs), NEW j \in 1..Len(traces[k].segs), i # j,
         EndsBefore(traces[k].segs[i], r), StartsAfter(traces[k].segs[j], r), Joins(k, r, i, j)
  PROVE  Kept(k)
<1> DEFINE t == traces[k]
           a == t.segs[i]
           b == t.segs[j]
           same == b.samples = <<>> \/ b.type = Ended(a, r).type
<1>1. t \in Entry /\ t.segs \in Seq(Segment) /\ a \in Segment /\ b \in Segment
  <2>1. t \in Entry
    OBVIOUS
  <2> QED BY <2>1, EntriesAre
<1>2. CASE ~CanAdd(a, r)
  BY <1>2 DEF Joins, Kept
<1>3. CASE CanAdd(a, r) /\ same
  <2> DEFINE m == RemoveAt([t.segs EXCEPT ![i] = Merged(a, b, r)], j)
             p == IF j < i THEN i - 1 ELSE i
  <2>1. Covered(k, r, m, p)
    BY <1>3, Zenon DEF Joins, Merged
  <2>2. m \in Seq(Segment) /\ p \in 1..Len(m)
    <3>1. Merged(a, b, r) \in Segment
      BY <1>1, MadeOfRecord, MadeOfTwo DEF Merged
    <3>2. t.segs \in Seq(Segment)
      BY <1>1
    <3>3. m \in Seq(Segment) /\ TookIn(m, t.segs, i, j, Merged(a, b, r), p)
      BY <3>1, <3>2, TakenIn, Zenon
    <3> QED BY <3>3, Zenon DEF TookIn
  <2>3. EntryInv(t, heal) => EntryInv(Grown(t, r, m, p), heal)
    BY <1>1, <1>3, FilledKeeps, Zenon
  <2> HIDE DEF m, p
  <2> QED BY <2>1, <2>2, <2>3, CoveredKeeps
<1>4. CASE CanAdd(a, r) /\ ~same
  <2> DEFINE m == [t.segs EXCEPT ![i] = Ended(a, r)]
             u == [t EXCEPT !.segs = m]
  <2>1. traces' = [traces EXCEPT ![k].segs[i] = Ended(a, r)]
    BY <1>4, Zenon DEF Joins
  <2>2. traces' = [traces EXCEPT ![k] = u]
    BY <2>1
  <2>3. EntryInv(t, heal) => EntryInv(u, heal)
    BY <1>1, <1>4, UnlikeKeeps, Zenon
  <2>4. m \in Seq(Segment) /\ m # <<>>
    <3>1. Ended(a, r) \in Segment
      BY <1>1, MadeOfRecord
    <3>2. m \in Seq(Segment) /\ Len(m) = Len(t.segs) /\ Len(t.segs) \in Nat \ {0}
      BY <1>1, <3>1, EntriesAre
    <3> QED BY <3>2
  <2> HIDE DEF m
  <2>5. u \in Entry /\ u.sid = t.sid
    BY <1>1, <2>4 DEF Entry
  <2> HIDE DEF u
  <2> QED BY <2>2, <2>3, <2>5 DEF Kept, Keeps
<1> QED BY <1>2, <1>3, <1>4

LEMMA SimpleKeeps ==
  ASSUME traces \in Seq(Entry), NEW k \in DOMAIN traces, NEW r \in Records, Simple(k, r)
  PROVE  Kept(k)
<1> DEFINE t == traces[k]
<1>1. t \in Entry /\ t.segs \in Seq(Segment) /\ Len(t.segs) \in Nat \ {0}
  <2>1. t \in Entry
    OBVIOUS
  <2> QED BY <2>1, EntriesAre
<1>2. t \in Entry
  BY <1>1
<1>3. Tidy(t) => Ordered(t.segs)
  BY Zenon DEF Tidy
<1>4. CASE AtEnd(t, r) /\ Appends(k, r, Len(t.segs))
  <2>1. EndsBefore(t.segs[Len(t.segs)], r)
    BY <1>4, Zenon DEF AtEnd, Last
  <2>2. EntryInv(t, heal) /\ Tidy(t) /\ heal => NoneAfter(t, r)
    BY <1>2, <1>3, <1>4, NoneAfterEnd, Zenon
  <2>3. Len(t.segs) \in 1..Len(t.segs)
    BY <1>1
  <2> QED BY <1>4, <2>1, <2>2, <2>3, AppendsKeep, Zenon
<1>5. CASE (AfterAll(t, r) \/ BeforeAll(t, r)) /\ \E i \in {1, Len(t.segs) + 1} : StartsSegment(k, r, i)
  <2>1. PICK i \in {1, Len(t.segs) + 1} : StartsSegment(k, r, i)
    BY <1>5
  <2>2. i \in 1..(Len(t.segs) + 1)
    BY <1>1
  <2>3. EntryInv(t, heal) /\ Tidy(t) /\ heal => NoneBefore(t, r) /\ NoneAfter(t, r)
    BY <1>2, <1>5, NoneOutside, Zenon
  <2> QED BY <2>1, <2>2, <2>3, NewSegmentKeeps, Zenon
<1>6. CASE AtStart(t, r) /\ Prepends(k, r, 1)
  <2>1. StartsAfter(t.segs[1], r)
    BY <1>1, <1>6 DEF AtStart
  <2>2. EntryInv(t, heal) /\ Tidy(t) /\ heal => NoneBefore(t, r)
    BY <1>2, <1>3, <1>6, NoneBeforeStart, Zenon
  <2>3. 1 \in 1..Len(t.segs)
    BY <1>1
  <2> QED BY <1>6, <2>1, <2>2, <2>3, PrependsKeep, Zenon
<1> QED BY <1>4, <1>5, <1>6 DEF Simple

LEMMA LeastIs ==
  ASSUME NEW S \in SUBSET Nat, S # {}
  PROVE  Least(S) \in S /\ \A j \in S : Least(S) <= j
<1>1. \E i \in S : \A j \in S : i <= j
  BY LeastNumber
<1> QED BY <1>1 DEF Least

LEMMA ScannedIs ==
  ASSUME NEW s \in Seq(Segment), NEW r \in Records
  PROVE  /\ Scanned(s, r) \subseteq 1..Len(s)
         /\ FollowSeg(s, r) \in 0..Len(s)
         /\ Exact(s, r) = {} => Scanned(s, r) = 1..Len(s)
<1> DEFINE E == Exact(s, r)
           earlier == {i \in DOMAIN s : r.start > s[i].start}
           follow == CHOOSE i \in earlier : \A j \in earlier : j <= i
<1>1. Len(s) \in Nat /\ DOMAIN s = 1..Len(s)
  OBVIOUS
<1>2. E \subseteq 1..Len(s) /\ earlier \subseteq 1..Len(s)
  BY <1>1 DEF Exact
<1>3. E # {} => Least(E) \in 1..Len(s)
  <2> SUFFICES ASSUME E # {} PROVE Least(E) \in 1..Len(s)
    OBVIOUS
  <2> HIDE DEF E
  <2>1. E \in SUBSET Nat
    BY <1>2
  <2> QED BY <1>2, <2>1, LeastIs
<1>4. earlier # {} => follow \in 1..Len(s)
  <2> HIDE DEF earlier
  <2> SUFFICES ASSUME earlier # {} PROVE follow \in 1..Len(s)
    OBVIOUS
  <2>1. earlier \in SUBSET Nat /\ \A i \in earlier : i <= Len(s)
    BY <1>1, <1>2
  <2>2. \E i \in earlier : \A j \in earlier : j <= i
    BY <1>1, <2>1, GreatestNumber
  <2> QED BY <1>2, <2>2
<1>5. FollowSeg(s, r) = IF heal /\ E # {} THEN Least(E) ELSE IF earlier = {} THEN 0 ELSE follow
  BY Zenon DEF FollowSeg
<1>6. Scanned(s, r) = IF heal /\ E # {} THEN 1..(Least(E) - 1) ELSE DOMAIN s
  BY Zenon DEF Scanned
<1> HIDE DEF E, earlier, follow
<1>7. FollowSeg(s, r) \in 0..Len(s)
  BY <1>1, <1>3, <1>4, <1>5
<1>8. Scanned(s, r) \subseteq 1..Len(s)
  BY <1>1, <1>3, <1>6
<1>9. E = {} => Scanned(s, r) = 1..Len(s)
  BY <1>1, <1>6
<1> QED BY <1>7, <1>8, <1>9 DEF E

FitAfter(s, r)  == {i \in Scanned(s, r) : StartsAfter(s[i], r)}
FitBefore(s, r) == {i \in Scanned(s, r) : EndsBefore(s[i], r) /\ ~FirstOf(i, FitAfter(s, r))}

(* What the search does not find is not there.                             *)
LEMMA SearchFinds ==
  ASSUME NEW t \in Entry, NEW h, EntryInv(t, h), Tidy(t), NEW r \in Records
  PROVE  /\ FitBefore(t.segs, r) = {} => NoneBefore(t, r)
         /\ FitAfter(t.segs, r) = {} => NoneAfter(t, r)
<1> DEFINE s == t.segs
<1>1. s \in Seq(Segment)
  BY EntriesAre
<1>2. CASE Exact(s, r) # {}
  BY <1>2, NoneBesideExact
<1>3. CASE Exact(s, r) = {}
  <2>1. Scanned(s, r) = 1..Len(s)
    BY <1>1, <1>3, ScannedIs
  <2>2. \A y : y \in Range(s) => \E p \in 1..Len(s) : y = s[p]
    BY <1>1, RangeIs
  <2>3. ASSUME FitAfter(s, r) = {}, NEW y \in Range(s), StartsAfter(y, r) PROVE FALSE
    BY <2>1, <2>2, <2>3 DEF FitAfter
  <2>4. ASSUME FitBefore(s, r) = {}, NEW y \in Range(s), EndsBefore(y, r) PROVE FALSE
    <3>1. PICK p \in 1..Len(s) : y = s[p]
      BY <2>2, <2>4
    <3>2. FirstOf(p, FitAfter(s, r))
      BY <2>1, <2>4, <3>1, Zenon DEF FitBefore
    <3>3. StartsAfter(y, r)
      BY <3>1, <3>2, Zenon DEF FirstOf, FitAfter
    <3>4. y \in Segment /\ Whole(y)
      BY <2>4, EntrySegments
    <3> QED BY <2>4, <3>3, <3>4, NotBoth
  <2> QED BY <2>3, <2>4 DEF NoneBefore, NoneAfter
<1> QED BY <1>2, <1>3

LEMMA SearchesKeep ==
  ASSUME traces \in Seq(Entry), NEW k \in DOMAIN traces, NEW r \in Records, Searches(k, r)
  PROVE  Kept(k)
<1> DEFINE t == traces[k]
           after == FitAfter(t.segs, r)
           before == FitBefore(t.segs, r)
           first == Least(before \cup after)
<1>1. t \in Entry
  OBVIOUS
<1>2. t.segs \in Seq(Segment) /\ Len(t.segs) \in Nat
  BY <1>1, EntriesAre
<1>3. before \subseteq 1..Len(t.segs) /\ after \subseteq 1..Len(t.segs)
  <2>1. Scanned(t.segs, r) \subseteq 1..Len(t.segs)
    BY <1>2, ScannedIs
  <2> QED BY <2>1 DEF FitAfter, FitBefore
<1>4. /\ \A i \in before : EndsBefore(t.segs[i], r) /\ ~FirstOf(i, after)
      /\ \A i \in after : StartsAfter(t.segs[i], r)
  BY DEF FitBefore, FitAfter
<1>5. EntryInv(t, heal) /\ Tidy(t) => (before = {} => NoneBefore(t, r)) /\ (after = {} => NoneAfter(t, r))
  BY <1>1, SearchFinds, Zenon
<1>6. \/ before = {} /\ after = {} /\ StartsSegment(k, r, FollowSeg(t.segs, r) + 1)
      \/ heal /\ before # {} /\ after # {} /\ Joins(k, r, Least(before), Least(after))
      \/ heal /\ before # {} /\ after = {} /\ Appends(k, r, Least(before))
      \/ heal /\ before = {} /\ after # {} /\ Prepends(k, r, Least(after))
      \/ ~heal /\ before \cup after # {} /\ first \in before /\ Appends(k, r, first)
      \/ ~heal /\ before \cup after # {} /\ first \notin before /\ Prepends(k, r, first)
  BY Zenon DEF Searches, FitBefore, FitAfter
<1> HIDE DEF before, after, first
<1>7. /\ before # {} => Least(before) \in before
      /\ after # {} => Least(after) \in after /\ FirstOf(Least(after), after)
      /\ before \cup after # {} => first \in before \cup after
  <2>1. before \in SUBSET Nat /\ after \in SUBSET Nat /\ before \cup after \in SUBSET Nat
    BY <1>2, <1>3
  <2> QED BY <2>1, LeastIs DEF FirstOf, first
<1>8. CASE before = {} /\ after = {} /\ StartsSegment(k, r, FollowSeg(t.segs, r) + 1)
  <2>1. FollowSeg(t.segs, r) \in 0..Len(t.segs)
    BY <1>2, ScannedIs
  <2>2. FollowSeg(t.segs, r) + 1 \in 1..(Len(t.segs) + 1)
    BY <1>2, <2>1
  <2> QED BY <1>5, <1>8, <2>2, NewSegmentKeeps, Zenon
<1>9. CASE heal /\ before # {} /\ after # {} /\ Joins(k, r, Least(before), Least(after))
  <2>1. Least(before) \in 1..Len(t.segs) /\ Least(after) \in 1..Len(t.segs)
    BY <1>3, <1>7, <1>9
  <2>2. EndsBefore(t.segs[Least(before)], r) /\ StartsAfter(t.segs[Least(after)], r)
    BY <1>4, <1>7, <1>9
  <2>3. Least(before) # Least(after)
    BY <1>4, <1>7, <1>9
  <2> QED BY <1>9, <2>1, <2>2, <2>3, JoinsKeep, Zenon
<1>10. CASE heal /\ before # {} /\ after = {} /\ Appends(k, r, Least(before))
  <2>1. Least(before) \in 1..Len(t.segs) /\ EndsBefore(t.segs[Least(before)], r)
    BY <1>3, <1>4, <1>7, <1>10
  <2> QED BY <1>5, <1>10, <2>1, AppendsKeep, Zenon
<1>11. CASE heal /\ before = {} /\ after # {} /\ Prepends(k, r, Least(after))
  <2>1. Least(after) \in 1..Len(t.segs) /\ StartsAfter(t.segs[Least(after)], r)
    BY <1>3, <1>4, <1>7, <1>11
  <2> QED BY <1>5, <1>11, <2>1, PrependsKeep, Zenon
<1>12. CASE ~heal /\ before \cup after # {} /\ first \in before /\ Appends(k, r, first)
  <2>1. first \in 1..Len(t.segs) /\ EndsBefore(t.segs[first], r)
    BY <1>3, <1>4, <1>12
  <2> QED BY <1>12, <2>1, AppendsKeep, Zenon
<1>13. CASE ~heal /\ before \cup after # {} /\ first \notin before /\ Prepends(k, r, first)
  <2>1. first \in 1..Len(t.segs) /\ StartsAfter(t.segs[first], r)
    BY <1>3, <1>4, <1>7, <1>13
  <2> QED BY <1>13, <2>1, PrependsKeep, Zenon
<1> QED BY <1>6, <1>8, <1>9, <1>10, <1>11, <1>12, <1>13, Zenon

-----------------------------------------------------------------------------
(* The list: its entries in the order of their source IDs.                 *)
SidsOrdered(ts, sp) ==
  \A i, j \in 1..Len(ts) : i < j => ts[i].sid < ts[j].sid \/ (sp /\ ts[i].sid = ts[j].sid)

ListInv(ts, h, sp, alt) ==
  /\ ts \in Seq(Entry) /\ SidsOrdered(ts, sp)
  /\ ~alt => \A k \in 1..Len(ts) : EntryInv(ts[k], h)

TraceInv ==
  /\ split \in BOOLEAN /\ (~listed => traces = <<>>)
  /\ ListInv(traces, heal, split, altered)

LEMMA EmptyList ==
  ASSUME NEW h, NEW sp, NEW alt
  PROVE  ListInv(<<>>, h, sp, alt)
BY DEF ListInv, SidsOrdered

LEMMA KeptKeeps ==
  ASSUME ListInv(traces, heal, split, altered), NEW k \in DOMAIN traces, Kept(k)
  PROVE  ListInv(traces', heal, split, altered)
<1>1. CASE traces' = traces
  BY <1>1
<1>2. CASE \E u \in Entry : traces' = [traces EXCEPT ![k] = u] /\ Keeps(traces[k], u, heal)
  <2>1. PICK u \in Entry : traces' = [traces EXCEPT ![k] = u] /\ Keeps(traces[k], u, heal)
    BY <1>2
  <2>2. u.sid = traces[k].sid /\ (EntryInv(traces[k], heal) => EntryInv(u, heal))
    BY <2>1 DEF Keeps
  <2>3. /\ traces \in Seq(Entry) /\ SidsOrdered(traces, split)
        /\ ~altered => \A j \in 1..Len(traces) : EntryInv(traces[j], heal)
    BY DEF ListInv
  <2>4. /\ traces' \in Seq(Entry) /\ Len(traces') = Len(traces) /\ k \in 1..Len(traces)
        /\ traces'[k] = u /\ \A j \in 1..Len(traces) : j # k => traces'[j] = traces[j]
    BY <2>1, <2>3
  <2>5. \A j \in 1..Len(traces) : traces'[j].sid = traces[j].sid
    BY <2>2, <2>4
  <2>6. SidsOrdered(traces', split)
    BY <2>3, <2>4, <2>5 DEF SidsOrdered
  <2>7. ~altered => \A j \in 1..Len(traces') : EntryInv(traces'[j], heal)
    BY <2>2, <2>3, <2>4
  <2> QED BY <2>4, <2>6, <2>7 DEF ListInv
<1> QED BY <1>1, <1>2 DEF Kept

(* A new entry finds its place.                                            *)
Fresh(r) ==
  [sid |-> r.sid, pubversion |-> r.version, earliest |-> r.start,
   latest |-> EndTime(r), segs |-> <<mstl3_msr2seg(r)>>]

LEMMA FreshIs ==
  ASSUME NEW r \in Records, NEW h
  PROVE  Fresh(r) \in Entry /\ Fresh(r).sid = r.sid /\ EntryInv(Fresh(r), h)
<1> DEFINE x == mstl3_msr2seg(r)
           t == Fresh(r)
<1>1. x \in Segment /\ x.start = r.start /\ x.end = EndTime(r) /\ Whole(x)
  BY OneRecord
<1>2. r.sid \in Int /\ r.version \in Nat /\ r.start \in Int /\ EndTime(r) \in Int /\ r.start <= EndTime(r)
  BY RecordsAre
<1>3. t = [sid |-> r.sid, pubversion |-> r.version, earliest |-> r.start, latest |-> EndTime(r), segs |-> <<x>>]
  BY Zenon DEF Fresh
<1> HIDE DEF x, t
<1>4. /\ <<x>> \in Seq(Segment) /\ Range(<<x>>) = {x} /\ Len(<<x>>) = 1
  BY <1>1, RangeOne
<1>5. t \in Entry
  BY <1>2, <1>3, <1>4 DEF Entry
<1>6. t.sid = r.sid /\ t.segs = <<x>> /\ t.earliest = x.start /\ t.latest = x.end
  BY <1>1, <1>3
<1>7. Covers(t)
  BY <1>1, <1>2, <1>4, <1>6 DEF Covers
<1>8. Ordered(t.segs)
  BY <1>4, <1>6 DEF Ordered
<1>9. ~Continues(x, x)
  BY <1>1, SegmentsAre, SMTT(30), ZenonT(30) DEF Continues, Whole
<1>10. EntryInv(t, h)
  BY <1>4, <1>6, <1>7, <1>8, <1>9 DEF EntryInv, Healed
<1> QED BY <1>5, <1>6, <1>10 DEF t

LEMMA AddedKeeps ==
  ASSUME ListInv(traces, heal, split, altered), split \in BOOLEAN, NEW r \in Records,
         mstl3_findID(r.sid, IF split THEN r.version ELSE 0) = {}, mstl3_addID(r)
  PROVE  ListInv(traces', heal, split, altered)
<1> DEFINE n == Len(traces)
           version == IF split THEN r.version ELSE 0
           lower == {k \in DOMAIN traces :
                       traces[k].sid < r.sid \/ (traces[k].sid = r.sid /\ traces[k].pubversion < version)}
           c == Cardinality(lower)
           u == Fresh(r)
<1>1. /\ traces \in Seq(Entry) /\ SidsOrdered(traces, split) /\ n \in Nat
      /\ ~altered => \A j \in 1..n : EntryInv(traces[j], heal)
  BY DEF ListInv
<1>2. traces' = InsertAt(traces, c + 1, u)
  BY Zenon DEF mstl3_addID, Fresh
<1>3. u \in Entry /\ u.sid = r.sid /\ EntryInv(u, heal)
  BY FreshIs
<1>4. \A k \in 1..n : traces[k].sid \in Int
  BY <1>1, EntriesAre
<1>5. r.sid \in Int
  BY RecordsAre
<1>6. \A k \in 1..n : ~split => traces[k].sid # r.sid
  BY <1>1 DEF mstl3_findID
<1>7. /\ lower \subseteq 1..n
      /\ \A k \in 1..n : traces[k].sid < r.sid => k \in lower
      /\ \A k \in lower : traces[k].sid <= r.sid
  BY <1>1, <1>4, <1>5
<1> HIDE DEF n, lower, u
<1>8. /\ IsFiniteSet(lower) /\ c \in 0..n
      /\ \A m \in 0..n : lower \subseteq 1..m => c <= m
      /\ \A m \in 0..n : 1..m \subseteq lower => m <= c
  <2>1. ASSUME NEW m \in 0..n PROVE IsFiniteSet(1..m) /\ Cardinality(1..m) = m
    <3>1. m \in Int /\ 1 \in Int
      BY <1>1
    <3>2. IsFiniteSet(1..m) /\ Cardinality(1..m) = IF 1 > m THEN 0 ELSE m - 1 + 1
      BY <3>1, FS_Interval
    <3> QED BY <1>1, <3>2
  <2>2. n \in 0..n
    BY <1>1
  <2>3. IsFiniteSet(lower)
    BY <1>7, <2>1, <2>2, FS_Subset
  <2>4. c \in Nat
    BY <2>3, FS_CardinalityType
  <2>5. ASSUME NEW m \in 0..n, lower \subseteq 1..m PROVE c <= m
    <3>1. IsFiniteSet(1..m) /\ Cardinality(1..m) = m /\ lower \in SUBSET (1..m)
      BY <2>1, <2>5
    <3>2. c <= Cardinality(1..m)
      BY <3>1, FS_Subset
    <3> QED BY <3>1, <3>2
  <2>6. ASSUME NEW m \in 0..n, 1..m \subseteq lower PROVE m <= c
    BY <2>1, <2>3, <2>6, FS_Subset
  <2>7. c <= n
    BY <1>7, <2>2, <2>5
  <2> HIDE DEF c
  <2> QED BY <1>1, <2>3, <2>4, <2>5, <2>6, <2>7
<1> HIDE DEF c
<1>9. ASSUME NEW k \in 1..n, k <= c PROVE traces[k].sid < r.sid \/ (split /\ traces[k].sid = r.sid)
  <2> SUFFICES ASSUME traces[k].sid > r.sid PROVE FALSE
    BY <1>4, <1>5, <1>6
  <2>1. \A j \in lower : j < k
    <3> SUFFICES ASSUME NEW j \in lower, ~(j < k) PROVE FALSE
      OBVIOUS
    <3>1. j \in 1..n /\ (j = k \/ k < j) /\ traces[j].sid <= r.sid
      BY <1>1, <1>7
    <3> QED BY <1>1, <1>4, <1>5, <3>1 DEF SidsOrdered, n
  <2>2. lower \subseteq 1..(k - 1) /\ k - 1 \in 0..n
    BY <1>1, <1>7, <2>1
  <2>3. c <= k - 1
    BY <1>8, <2>2
  <2> QED BY <1>1, <1>8, <1>9, <2>3
<1>10. ASSUME NEW k \in 1..n, k > c PROVE r.sid < traces[k].sid \/ (split /\ r.sid = traces[k].sid)
  <2> SUFFICES ASSUME traces[k].sid < r.sid PROVE FALSE
    BY <1>4, <1>5, <1>6
  <2>1. 1..k \subseteq lower
    <3> SUFFICES ASSUME NEW j \in 1..k PROVE j \in lower
      OBVIOUS
    <3>1. j \in 1..n /\ (j = k \/ j < k)
      BY <1>1
    <3> QED BY <1>1, <1>4, <1>5, <1>7, <3>1 DEF SidsOrdered, n
  <2>2. k \in 0..n
    BY <1>1
  <2>3. k <= c
    BY <1>8, <2>1, <2>2
  <2> QED BY <1>1, <1>8, <1>10, <2>3
<1>11. /\ traces' \in Seq(Entry) /\ Len(traces') = n + 1 /\ traces'[c + 1] = u
       /\ \A p \in 1..n : traces'[IF p < c + 1 THEN p ELSE p + 1] = traces[p]
  <2>1. c + 1 \in 1..(Len(traces) + 1)
    BY <1>1, <1>8 DEF n
  <2>2. traces \in Seq(Entry) /\ u \in Entry
    BY <1>1, <1>3
  <2> QED BY <1>2, <2>1, <2>2, PutIn DEF n
<1>12. ASSUME NEW q \in 1..(n + 1), q # c + 1
       PROVE  \E p \in 1..n : q = (IF p < c + 1 THEN p ELSE p + 1) /\ traces'[q] = traces[p]
  <2>1. PICK p \in 1..n : p = IF q < c + 1 THEN q ELSE q - 1
    BY <1>1, <1>8, <1>12
  <2>2. q = IF p < c + 1 THEN p ELSE p + 1
    BY <1>1, <1>8, <1>12, <2>1
  <2> QED BY <1>11, <2>2
<1>13. ASSUME NEW i \in 1..(n + 1), NEW j \in 1..(n + 1), i < j
       PROVE  traces'[i].sid < traces'[j].sid \/ (split /\ traces'[i].sid = traces'[j].sid)
  <2>1. CASE i # c + 1 /\ j # c + 1
    <3>1. PICK p \in 1..n : i = (IF p < c + 1 THEN p ELSE p + 1) /\ traces'[i] = traces[p]
      BY <1>12, <2>1
    <3>2. PICK q \in 1..n : j = (IF q < c + 1 THEN q ELSE q + 1) /\ traces'[j] = traces[q]
      BY <1>12, <2>1
    <3>3. p < q
      BY <1>1, <1>8, <1>13, <3>1, <3>2
    <3> QED BY <1>1, <3>1, <3>2, <3>3 DEF SidsOrdered, n
  <2>2. CASE i = c + 1
    <3>a. j # c + 1
      BY <1>13, <2>2
    <3>1. PICK q \in 1..n : j = (IF q < c + 1 THEN q ELSE q + 1) /\ traces'[j] = traces[q]
      BY <1>12, <3>a
    <3>2. q > c
      BY <1>1, <1>8, <1>13, <2>2, <3>1
    <3> QED BY <1>3, <1>10, <1>11, <2>2, <3>1, <3>2
  <2>3. CASE j = c + 1
    <3>a. i # c + 1
      BY <1>13, <2>3
    <3>1. PICK p \in 1..n : i = (IF p < c + 1 THEN p ELSE p + 1) /\ traces'[i] = traces[p]
      BY <1>12, <3>a
    <3>2. p <= c
      BY <1>1, <1>8, <1>13, <2>3, <3>1
    <3> QED BY <1>3, <1>9, <1>11, <2>3, <3>1, <3>2
  <2> QED BY <2>1, <2>2, <2>3
<1>14. ~altered => \A q \in 1..(n + 1) : EntryInv(traces'[q], heal)
  BY <1>1, <1>3, <1>11, <1>12
<1>15. SidsOrdered(traces', split)
  BY <1>11, <1>13 DEF SidsOrdered
<1> QED BY <1>11, <1>14, <1>15 DEF ListInv

LEMMA AddsKeep ==
  ASSUME TraceInv, mstl3_addmsr
  PROVE  TraceInv'
<1>1. /\ listed /\ UNCHANGED <<heal, split, listed, altered>>
  BY DEF mstl3_addmsr
<1>2. PICK r \in Records :
        \/ mstl3_findID(r.sid, IF split THEN r.version ELSE 0) = {} /\ mstl3_addID(r)
        \/ \E k \in mstl3_findID(r.sid, IF split THEN r.version ELSE 0) : Simple(k, r) \/ Searches(k, r)
  BY Zenon DEF mstl3_addmsr
<1>3. ListInv(traces, heal, split, altered) /\ split \in BOOLEAN /\ traces \in Seq(Entry)
  BY DEF TraceInv, ListInv
<1>4. CASE mstl3_findID(r.sid, IF split THEN r.version ELSE 0) = {} /\ mstl3_addID(r)
  <2>1. ListInv(traces', heal, split, altered)
    BY <1>3, <1>4, AddedKeeps, Zenon
  <2> QED BY <1>1, <1>3, <2>1 DEF TraceInv
<1>5. CASE \E k \in mstl3_findID(r.sid, IF split THEN r.version ELSE 0) : Simple(k, r) \/ Searches(k, r)
  <2>1. PICK k \in DOMAIN traces : Simple(k, r) \/ Searches(k, r)
    BY <1>5, Zenon DEF mstl3_findID
  <2>2. Kept(k)
    BY <1>3, <2>1, SimpleKeeps, SearchesKeep, Zenon
  <2>3. ListInv(traces', heal, split, altered)
    BY <1>3, <2>2, KeptKeeps, Zenon
  <2> QED BY <1>1, <1>3, <2>3 DEF TraceInv
<1> QED BY <1>2, <1>4, <1>5

-----------------------------------------------------------------------------
(* Segments that are unpacked, converted or packed.                        *)
Joints(F, S, q) ==
  /\ F \in [0..Len(q) -> Seq(S)] /\ F[0] = <<>>
  /\ \A m \in 1..Len(q) : F[m] = F[m - 1] \o q[m]

LEMMA FlattenJoints ==
  ASSUME NEW S, NEW q \in Seq(Seq(S))
  PROVE  \E F : Joints(F, S, q) /\ Flatten(q) = F[Len(q)]
<1> DEFINE n == Len(q)
           V == Seq(S)
           Flat(f) == [i \in 1..n |-> IF i = 1 THEN q[i] ELSE f[i - 1] \o q[i]]
           flatten == CHOOSE f : f = Flat(f)
<1>1. n \in Nat /\ \A i \in 1..n : q[i] \in V
  OBVIOUS
<1>2. CASE n = 0
  <2>1. Flatten(q) = q
    BY <1>2, Zenon DEF Flatten, FlattenSeq
  <2>2. q = <<>> /\ <<>> \in Seq(S)
    BY <1>2
  <2> DEFINE F == [m \in 0..n |-> <<>>]
  <2>3. Joints(F, S, q) /\ F[n] = <<>>
    BY <1>2, <2>2 DEF Joints
  <2> QED BY <2>1, <2>2, <2>3
<1>3. CASE n # 0
  <2>1. Flatten(q) = flatten[n]
    BY <1>3, Zenon DEF Flatten, FlattenSeq
  <2> DEFINE rank == [i \in 1..n |-> i]
             parent == [i \in 1..n |-> IF i = 1 THEN 1 ELSE i - 1]
             base == [i \in 1..n |-> q[i]]
             step == [i \in 1..n |-> [v \in V |-> v \o q[i]]]
  <2>2. \A v, w \in V : v \o w \in V
    OBVIOUS
  <2> HIDE DEF n, V
  <2>3. rank \in [1..n -> Nat] /\ parent \in [1..n -> 1..n]
    BY <1>1
  <2>4. base \in [1..n -> V] /\ step \in [1..n -> [V -> V]]
    BY <1>1, <2>2
  <2>5. \A i \in (1..n) \ {1} : rank[parent[i]] < rank[i]
    BY <1>1
  <2>6. \A i \in 1..n : /\ base[i] = q[i] /\ parent[i] = (IF i = 1 THEN 1 ELSE i - 1)
                        /\ \A v \in V : step[i][v] = v \o q[i]
    OBVIOUS
  <2> HIDE DEF rank, parent, base, step
  <2>7. PICK f \in [1..n -> V] : \A i \in 1..n : Follows(f, i, parent, {1}, base, step)
    BY <2>3, <2>4, <2>5, Recursion
  <2>8. ASSUME NEW i \in 1..n PROVE f[i] = IF i = 1 THEN q[i] ELSE f[i - 1] \o q[i]
    <3>1. f[i] = IF i \in {1} THEN base[i] ELSE step[i][f[parent[i]]]
      BY <2>7 DEF Follows
    <3>2. f[parent[i]] \in V
      BY <2>3, <2>7
    <3> QED BY <2>6, <3>1, <3>2, ZenonT(30)
  <2>9. f = Flat(f)
    BY <2>8
  <2>10. flatten = Flat(flatten)
    <3> HIDE DEF Flat
    <3> QED BY <2>9
  <2> HIDE DEF flatten
  <2>11. \A i \in 1..n : flatten[i] = IF i = 1 THEN q[i] ELSE flatten[i - 1] \o q[i]
    <3>1. \A i \in 1..n : Flat(flatten)[i] = IF i = 1 THEN q[i] ELSE flatten[i - 1] \o q[i]
      OBVIOUS
    <3> HIDE DEF Flat
    <3> QED BY <2>10, <3>1
  <2> DEFINE T == {m \in Nat : m + 1 <= n => flatten[m + 1] \in V}
  <2>12. 0 \in T
    BY <1>1, <2>11
  <2>13. ASSUME NEW m \in T PROVE m + 1 \in T
    <3> SUFFICES ASSUME m + 2 <= n PROVE flatten[m + 2] \in V
      BY <2>13
    <3>1. m + 2 \in 1..n /\ m + 2 # 1 /\ (m + 2) - 1 = m + 1 /\ m + 1 <= n
      BY <1>1, <2>13
    <3>2. flatten[m + 1] \in V /\ q[m + 2] \in V
      BY <1>1, <2>13, <3>1
    <3>3. flatten[m + 2] = flatten[m + 1] \o q[m + 2]
      BY <2>11, <3>1
    <3> QED BY <2>2, <3>2, <3>3
  <2> HIDE DEF T
  <2>14. \A m \in Nat : m \in T
    <3>1. T \in SUBSET Nat
      BY DEF T
    <3> QED BY <2>12, <2>13, <3>1, Induction
  <2>15. ASSUME NEW m \in 1..n PROVE flatten[m] \in V
    <3>1. m - 1 \in T /\ (m - 1) + 1 = m /\ m <= n
      BY <1>1, <2>14
    <3> QED BY <3>1 DEF T
  <2> DEFINE F == [m \in 0..n |-> IF m = 0 THEN <<>> ELSE flatten[m]]
  <2>16. F[0] = <<>> /\ (\A m \in 1..n : F[m] = flatten[m]) /\ <<>> \in V
    BY <1>1 DEF V
  <2>17. F \in [0..n -> V]
    <3>1. \A m \in 0..n : (IF m = 0 THEN <<>> ELSE flatten[m]) \in V
      BY <1>1, <2>15, <2>16
    <3> QED BY <3>1
  <2> HIDE DEF F
  <2>18. ASSUME NEW m \in 1..n PROVE F[m] = F[m - 1] \o q[m]
    <3>1. CASE m = 1
      <4>1. q[1] \in V /\ F[1] = q[1] /\ F[1 - 1] = <<>>
        BY <1>1, <2>11, <2>16, <3>1
      <4> QED BY <3>1, <4>1 DEF V
    <3>2. CASE m # 1
      <4>1. m - 1 \in 1..n
        BY <1>1, <3>2
      <4> QED BY <2>11, <2>16, <3>2, <4>1
    <3> QED BY <3>1, <3>2
  <2>19. Joints(F, S, q)
    BY <2>16, <2>17, <2>18 DEF Joints, n, V
  <2>20. n \in 1..n
    BY <1>1, <1>3
  <2> QED BY <2>1, <2>16, <2>19, <2>20 DEF n
<1> QED BY <1>2, <1>3

LEMMA FlattenIs ==
  ASSUME NEW S, NEW q \in Seq(Seq(S))
  PROVE  Flatten(q) \in Seq(S)
<1>1. PICK F : Joints(F, S, q) /\ Flatten(q) = F[Len(q)]
  BY FlattenJoints
<1>2. Len(q) \in 0..Len(q)
  OBVIOUS
<1> QED BY <1>1, <1>2 DEF Joints

LEMMA UnpackedIs ==
  ASSUME NEW x \in Segment
  PROVE  LET y == Unpacked(x)
         IN  /\ y \in Segment /\ y.start = x.start /\ y.end = x.end /\ y.period = x.period /\ y.recs = x.recs
             /\ Whole(x) => Whole(y)
             /\ y.samples = <<>> => x.samples = <<>>
<1> DEFINE y == Unpacked(x)
           samples == Flatten([i \in DOMAIN x.recs |-> Times(x.recs[i])])
           z == [x EXCEPT !.samples = samples, !.type = x.recs[1].type]
<1>1. (y = z /\ x.samples = <<>>) \/ y = x
  BY Zenon DEF Unpacked
<1>2. CASE y = x
  BY <1>2
<1>3. CASE y = z /\ x.samples = <<>>
  <2>1. x.recs \in Seq(Records) /\ x.recs # <<>>
    BY SegmentsAre
  <2>2. samples \in Seq(Int)
    <3>1. \A i \in DOMAIN x.recs : Times(x.recs[i]) \in Seq(Int)
      BY <2>1, RecordsAre
    <3>2. DOMAIN x.recs = 1..Len(x.recs) /\ Len(x.recs) \in Nat
      BY <2>1
    <3> DEFINE q == [i \in DOMAIN x.recs |-> Times(x.recs[i])]
    <3>3. q \in Seq(Seq(Int))
      BY <3>1, <3>2
    <3> HIDE DEF q
    <3>4. Flatten(q) \in Seq(Int)
      BY <3>3, FlattenIs
    <3> QED BY <3>4 DEF q
  <2>3. x.recs[1].type \in Kinds
    BY <2>1, RecordsAre
  <2> HIDE DEF samples
  <2>4. /\ z \in Segment /\ z.start = x.start /\ z.end = x.end /\ z.period = x.period /\ z.recs = x.recs
    BY <2>2, <2>3 DEF Segment
  <2> HIDE DEF z, y
  <2>5. Whole(x) => Whole(y)
    BY <1>3, <2>4 DEF Whole
  <2> QED BY <1>3, <2>4, <2>5 DEF y
<1> QED BY <1>1, <1>2, <1>3

(* An entry of which one segment is another.                               *)
With(t, i, y) == [t EXCEPT !.segs = [t.segs EXCEPT ![i] = y]]

LEMMA WithIs ==
  ASSUME NEW t \in Entry, NEW i \in 1..Len(t.segs), NEW y \in Segment
  PROVE  With(t, i, y) \in Entry /\ With(t, i, y).sid = t.sid
<1>1. t.segs \in Seq(Segment) /\ Len(t.segs) \in Nat \ {0}
  BY EntriesAre
<1> DEFINE m == [t.segs EXCEPT ![i] = y]
<1>2. m \in Seq(Segment) /\ m # <<>>
  <2>1. m \in Seq(Segment) /\ Len(m) = Len(t.segs)
    BY <1>1
  <2> QED BY <1>1, <2>1
<1> HIDE DEF m
<1>3. With(t, i, y) = [t EXCEPT !.segs = m]
  BY Zenon DEF With, m
<1> QED BY <1>2, <1>3 DEF Entry

LEMMA UnpackedKeeps ==
  ASSUME NEW t \in Entry, NEW h, EntryInv(t, h), NEW i \in 1..Len(t.segs)
  PROVE  EntryInv(With(t, i, Unpacked(t.segs[i])), h)
<1> DEFINE s == t.segs
           x == s[i]
           y == Unpacked(x)
           m == [s EXCEPT ![i] = y]
           u == With(t, i, y)
<1>1. s \in Seq(Segment) /\ i \in 1..Len(s) /\ x \in Segment
  BY EntriesAre
<1>2. x \in Segment
  BY <1>1
<1>3. u.segs = m /\ u.earliest = t.earliest /\ u.latest = t.latest
  BY DEF With, Entry
<1>4. s = t.segs /\ s[i] = x
  OBVIOUS
<1> HIDE DEF s, x, u
<1>5. /\ y \in Segment /\ y.start = x.start /\ y.end = x.end /\ y.period = x.period /\ y.recs = x.recs
      /\ Whole(x) => Whole(y)
      /\ y.samples = <<>> => x.samples = <<>>
  BY <1>2, UnpackedIs
<1> HIDE DEF y
<1>6. /\ m \in Seq(Segment) /\ Len(m) = Len(s) /\ m[i] = y
      /\ \A p \in 1..Len(s) : p # i => m[p] = s[p]
      /\ Range(m) \subseteq Range(s) \cup {y} /\ y \in Range(m)
      /\ Range(s) \subseteq Range(m) \cup {s[i]}
  <2>1. s \in Seq(Segment) /\ y \in Segment
    BY <1>1, <1>5
  <2>2. i \in 1..Len(s)
    BY <1>1
  <2> QED BY <2>1, <2>2, Changed, Zenon
<1> HIDE DEF m
<1>7. x \in Range(s)
  BY <1>1, <1>4, RangeIs
<1>8. /\ \A z \in Range(s) : Whole(z) /\ t.earliest <= z.start /\ z.end <= t.latest
      /\ \E z \in Range(s) : t.earliest = z.start
      /\ \E z \in Range(s) : t.latest = z.end
  BY <1>4 DEF EntryInv, Covers
<1>9. Covers(u)
  <2>1. \A z \in Range(m) : Whole(z) /\ t.earliest <= z.start /\ z.end <= t.latest
    BY <1>5, <1>6, <1>7, <1>8
  <2>2. (\E z \in Range(m) : t.earliest = z.start) /\ \E z \in Range(m) : t.latest = z.end
    BY <1>4, <1>5, <1>6, <1>8
  <2> QED BY <1>3, <2>1, <2>2 DEF Covers
<1>10. ASSUME AlikeSet(Range(m)) PROVE Ordered(m) /\ (h => Healed(Range(m)))
  <2>1. \A z \in Range(s) : \E w \in Range(m) : w.recs = z.recs /\ (w.samples = <<>> => z.samples = <<>>)
    BY <1>4, <1>5, <1>6
  <2>2. AlikeSet(Range(s))
    <3>1. \A z1, z2 \in Range(s) : \A a \in Range(z1.recs), b \in Range(z2.recs) :
            a.period = b.period /\ SampleType(a) = SampleType(b)
      <4> SUFFICES ASSUME NEW z1 \in Range(s), NEW z2 \in Range(s),
                          NEW a \in Range(z1.recs), NEW b \in Range(z2.recs)
                   PROVE  a.period = b.period /\ SampleType(a) = SampleType(b)
        BY Zenon
      <4>1. PICK w1 \in Range(m) : w1.recs = z1.recs
        BY <2>1
      <4>2. PICK w2 \in Range(m) : w2.recs = z2.recs
        BY <2>1
      <4> QED BY <1>10, <4>1, <4>2 DEF AlikeSet
    <3>2. CASE \A w \in Range(m) : \A a \in Range(w.recs) : a.data
      <4>1. \A z \in Range(s) : \A a \in Range(z.recs) : a.data
        BY <2>1, <3>2
      <4> QED BY <3>1, <4>1, Zenon DEF AlikeSet
    <3>3. CASE \A w \in Range(m) : w.samples = <<>>
      <4>1. \A z \in Range(s) : z.samples = <<>>
        BY <2>1, <3>3
      <4> QED BY <3>1, <4>1, Zenon DEF AlikeSet
    <3> QED BY <1>10, <3>2, <3>3, Zenon DEF AlikeSet
  <2>3. Ordered(s) /\ (h => Healed(Range(s)))
    BY <1>4, <2>2 DEF EntryInv
  <2>4. Ordered(m)
    <3>1. \A p \in 1..Len(s) : m[p].start = s[p].start /\ m[p].end = s[p].end
      BY <1>4, <1>5, <1>6
    <3> QED BY <1>6, <2>3, <3>1 DEF Ordered, Precedes
  <2>5. ASSUME h PROVE Healed(Range(m))
    <3>1. \A w \in Range(m) : \E z \in Range(s) : z.start = w.start /\ z.end = w.end /\ z.period = w.period
      BY <1>5, <1>6, <1>7
    <3> SUFFICES ASSUME NEW w1 \in Range(m), NEW w2 \in Range(m), Continues(w1, w2) PROVE FALSE
      BY DEF Healed
    <3>2. PICK z1 \in Range(s) : z1.start = w1.start /\ z1.end = w1.end /\ z1.period = w1.period
      BY <3>1
    <3>3. PICK z2 \in Range(s) : z2.start = w2.start /\ z2.end = w2.end /\ z2.period = w2.period
      BY <3>1
    <3>4. Continues(z1, z2)
      BY <3>2, <3>3 DEF Continues
    <3> QED BY <2>3, <2>5, <3>4 DEF Healed
  <2> QED BY <2>4, <2>5
<1>11. EntryInv(u, h)
  BY <1>3, <1>9, <1>10 DEF EntryInv
<1> QED BY <1>11, Zenon DEF u, y, x, s

LEMMA ConvertedIs ==
  ASSUME NEW x \in Segment, NEW type \in Numeric
  PROVE  [x EXCEPT !.type = IF @ \in Numeric \cup {"none"} THEN type ELSE @] \in Segment
<1>1. type \in Kinds
  BY DEF Kinds
<1> QED BY <1>1 DEF Segment

LEMMA RemainingIs ==
  ASSUME NEW x \in Segment, NEW flush \in BOOLEAN
  PROVE  Remaining(x, flush) \in Segment
<1> DEFINE n == PackCount(x, flush)
           len == Len(x.samples)
<1>1. /\ x.start \in Int /\ x.end \in Int /\ x.period \in Nat \ {0} /\ x.count \in Int
      /\ x.samples \in Seq(Int) /\ len \in Nat
  BY SegmentsAre
<1>2. PerRecord \in Nat \ {0}
  BY TraceAssumption, Zenon
<1>3. n \in Nat
  <2>1. n = IF flush THEN len ELSE IF len = 0 THEN 0 ELSE ((len - 1) \div PerRecord) * PerRecord
    BY Zenon DEF PackCount
  <2>0. len \in Nat
    BY <1>1
  <2> HIDE DEF n, len
  <2>2. len # 0 => (len - 1) \div PerRecord \in Nat
    <3>1. ASSUME NEW m \in Nat PROVE m \div PerRecord \in Nat
      BY <1>2
    <3>2. len # 0 => len - 1 \in Nat
      BY <2>0
    <3> QED BY <3>1, <3>2
  <2>3. ASSUME NEW q \in Nat PROVE q * PerRecord \in Nat
    BY <1>2
  <2> DEFINE q == (len - 1) \div PerRecord
  <2> HIDE DEF q
  <2>4. len # 0 => q * PerRecord \in Nat
    BY <2>2, <2>3 DEF q
  <2> QED BY <1>1, <2>1, <2>4 DEF q
<1> DEFINE start == IF n = len THEN x.end ELSE x.start + n * x.period
           samples == SubSeq(x.samples, n + 1, len)
           count == x.count - n
<1>4. Remaining(x, flush) =
        IF n = 0 THEN x ELSE [x EXCEPT !.start = start, !.samples = samples, !.count = count]
  BY DEF Remaining
<1> HIDE DEF n
<1>5. n * x.period \in Int
  BY <1>1, <1>3
<1>6. start \in Int /\ count \in Int
  BY <1>1, <1>3, <1>5
<1>7. samples \in Seq(Int)
  BY <1>1, <1>3
<1> HIDE DEF start, count, samples
<1> QED BY <1>4, <1>6, <1>7 DEF Segment

LEMMA SameSids ==
  ASSUME NEW ts \in Seq(Entry), NEW us \in Seq(Entry), Len(us) = Len(ts),
         \A k \in 1..Len(ts) : us[k].sid = ts[k].sid, NEW sp, SidsOrdered(ts, sp)
  PROVE  SidsOrdered(us, sp)
BY DEF SidsOrdered

LEMMA UnpackKeeps ==
  ASSUME TraceInv, mstl3_unpack_recordlist
  PROVE  TraceInv'
<1>1. listed /\ UNCHANGED <<heal, split, listed, altered>>
  BY DEF mstl3_unpack_recordlist, OneSegment
<1>2. PICK k \in DOMAIN traces : \E i \in DOMAIN traces[k].segs :
        traces' = [traces EXCEPT ![k].segs[i] = Unpacked(traces[k].segs[i])]
  BY DEF mstl3_unpack_recordlist, OneSegment
<1>3. PICK i \in DOMAIN traces[k].segs :
        traces' = [traces EXCEPT ![k].segs[i] = Unpacked(traces[k].segs[i])]
  BY <1>2
<1> DEFINE t == traces[k]
           u == With(t, i, Unpacked(t.segs[i]))
<1>4. ListInv(traces, heal, split, altered) /\ split \in BOOLEAN /\ t \in Entry
  BY DEF TraceInv, ListInv
<1>5. i \in 1..Len(t.segs) /\ t.segs[i] \in Segment
  <2>1. t.segs \in Seq(Segment)
    BY <1>4, EntriesAre
  <2> QED BY <2>1
<1>6. Unpacked(t.segs[i]) \in Segment
  BY <1>5, UnpackedIs
<1>7. traces' = [traces EXCEPT ![k] = u]
  BY <1>3 DEF With
<1>8. u \in Entry /\ u.sid = t.sid
  BY <1>4, <1>5, <1>6, WithIs
<1>9. EntryInv(t, heal) => EntryInv(u, heal)
  BY <1>4, <1>5, UnpackedKeeps, Zenon
<1> HIDE DEF u
<1>10. Kept(k)
  BY <1>7, <1>8, <1>9 DEF Kept, Keeps
<1>11. ListInv(traces', heal, split, altered)
  BY <1>4, <1>10, KeptKeeps, Zenon
<1> QED BY <1>1, <1>4, <1>11 DEF TraceInv

LEMMA ConvertKeeps ==
  ASSUME TraceInv, mstl3_convertsamples
  PROVE  TraceInv'
<1>1. PICK type \in Numeric, k \in DOMAIN traces : \E i \in DOMAIN traces[k].segs :
        traces' = [traces EXCEPT ![k].segs[i] =
                     [traces[k].segs[i] EXCEPT !.type = IF @ \in Numeric \cup {"none"} THEN type ELSE @]]
  BY DEF mstl3_convertsamples, OneSegment
<1>2. listed /\ UNCHANGED <<heal, split, listed>> /\ altered' = TRUE
  BY DEF mstl3_convertsamples, OneSegment
<1>3. PICK i \in DOMAIN traces[k].segs :
        traces' = [traces EXCEPT ![k].segs[i] =
                     [traces[k].segs[i] EXCEPT !.type = IF @ \in Numeric \cup {"none"} THEN type ELSE @]]
  BY <1>1
<1> DEFINE t == traces[k]
           y == [t.segs[i] EXCEPT !.type = IF @ \in Numeric \cup {"none"} THEN type ELSE @]
           u == With(t, i, y)
<1>4. traces \in Seq(Entry) /\ SidsOrdered(traces, split) /\ split \in BOOLEAN /\ t \in Entry
  BY DEF TraceInv, ListInv
<1>5. i \in 1..Len(t.segs) /\ t.segs[i] \in Segment
  <2>1. t.segs \in Seq(Segment)
    BY <1>4, EntriesAre
  <2> QED BY <2>1
<1>6. y \in Segment
  BY <1>5, ConvertedIs
<1>7. traces' = [traces EXCEPT ![k].segs[i] = y]
  BY <1>3
<1> HIDE DEF y
<1>8. traces' = [traces EXCEPT ![k] = u]
  BY <1>7 DEF With
<1>9. u \in Entry /\ u.sid = t.sid
  BY <1>4, <1>5, <1>6, WithIs
<1> HIDE DEF u
<1>10. traces' \in Seq(Entry) /\ Len(traces') = Len(traces) /\ \A j \in 1..Len(traces) : traces'[j].sid = traces[j].sid
  BY <1>4, <1>8, <1>9
<1>11. SidsOrdered(traces', split)
  BY <1>4, <1>10 DEF SidsOrdered
<1> QED BY <1>2, <1>4, <1>10, <1>11 DEF TraceInv, ListInv

LEMMA PackKeeps ==
  ASSUME TraceInv, mstl3_pack
  PROVE  TraceInv'
<1>1. PICK flush \in BOOLEAN :
        traces' = [k \in DOMAIN traces |->
            [traces[k] EXCEPT !.segs = [i \in DOMAIN @ |-> Remaining(@[i], flush)]]]
  BY DEF mstl3_pack
<1>2. listed /\ UNCHANGED <<heal, split, listed>> /\ altered' = TRUE
  BY DEF mstl3_pack
<1>3. traces \in Seq(Entry) /\ SidsOrdered(traces, split) /\ split \in BOOLEAN
  BY DEF TraceInv, ListInv
<1>4. ASSUME NEW t \in Entry
      PROVE  LET u == [t EXCEPT !.segs = [i \in DOMAIN @ |-> Remaining(@[i], flush)]]
             IN  u \in Entry /\ u.sid = t.sid
  <2> DEFINE m == [i \in DOMAIN t.segs |-> Remaining(t.segs[i], flush)]
  <2>1. t.segs \in Seq(Segment) /\ Len(t.segs) \in Nat \ {0}
    BY EntriesAre
  <2>2. \A i \in DOMAIN t.segs : Remaining(t.segs[i], flush) \in Segment
    BY <2>1, RemainingIs
  <2>3. m \in Seq(Segment) /\ m # <<>>
    <3>1. DOMAIN t.segs = 1..Len(t.segs)
      BY <2>1
    <3>2. m \in Seq(Segment) /\ Len(m) = Len(t.segs)
      BY <2>1, <2>2, <3>1
    <3> QED BY <2>1, <3>2
  <2> HIDE DEF m
  <2>4. [t EXCEPT !.segs = m] \in Entry /\ [t EXCEPT !.segs = m].sid = t.sid
    BY <2>3 DEF Entry
  <2> QED BY <2>4, Zenon DEF m
<1>5. DOMAIN traces = 1..Len(traces) /\ Len(traces) \in Nat
  BY <1>3
<1>6. ASSUME NEW k \in 1..Len(traces) PROVE traces'[k] \in Entry /\ traces'[k].sid = traces[k].sid
  <2>1. traces'[k] = [traces[k] EXCEPT !.segs = [i \in DOMAIN @ |-> Remaining(@[i], flush)]]
    BY <1>1, <1>5, Zenon
  <2>2. traces[k] \in Entry
    BY <1>3
  <2> QED BY <1>4, <2>1, <2>2
<1>7. DOMAIN traces' = 1..Len(traces) /\ traces' = [k \in 1..Len(traces) |-> traces'[k]]
  BY <1>1, <1>5
<1>8. traces' \in Seq(Entry) /\ Len(traces') = Len(traces)
  BY <1>5, <1>6, <1>7
<1>9. SidsOrdered(traces', split)
  BY <1>3, <1>6, <1>8 DEF SidsOrdered
<1> QED BY <1>2, <1>3, <1>8, <1>9 DEF TraceInv, ListInv

-----------------------------------------------------------------------------
TraceSpec == TraceInit /\ [][TraceNext]_tracevars

LEMMA TraceBegins == TraceInit => TraceInv
<1> SUFFICES ASSUME TraceInit PROVE TraceInv
  OBVIOUS
<1>1. ListInv(<<>>, heal, split, altered)
  BY EmptyList
<1> QED BY <1>1 DEF TraceInit, TraceInv

LEMMA TraceSteps == TraceInv /\ [TraceNext]_tracevars => TraceInv'
<1> SUFFICES ASSUME TraceInv, [TraceNext]_tracevars PROVE TraceInv'
  OBVIOUS
<1>1. CASE mstl3_init
  <2>1. traces = <<>> /\ traces' = <<>> /\ split' \in BOOLEAN
    BY <1>1 DEF TraceInv, mstl3_init
  <2>2. ListInv(<<>>, heal', split', altered')
    BY EmptyList
  <2> QED BY <2>1, <2>2 DEF TraceInv
<1>2. CASE mstl3_free
  <2>1. traces' = <<>> /\ split' \in BOOLEAN
    BY <1>2 DEF mstl3_free
  <2>2. ListInv(<<>>, heal', split', altered')
    BY EmptyList
  <2> QED BY <2>1, <2>2 DEF TraceInv
<1>3. CASE mstl3_addmsr
  BY <1>3, AddsKeep
<1>4. CASE mstl3_unpack_recordlist
  BY <1>4, UnpackKeeps
<1>5. CASE mstl3_convertsamples
  BY <1>5, ConvertKeeps
<1>6. CASE mstl3_pack
  BY <1>6, PackKeeps
<1>7. CASE UNCHANGED tracevars
  BY <1>7 DEF tracevars, TraceInv
<1> QED BY <1>1, <1>2, <1>3, <1>4, <1>5, <1>6, <1>7 DEF TraceNext

LEMMA HealedSegments ==
  ASSUME NEW t \in Entry, NEW h, EntryInv(t, h)
  PROVE  /\ Alike(t.segs) => \A i, j \in DOMAIN t.segs : i < j => ~Precedes(t.segs[j], t.segs[i])
         /\ \A i \in DOMAIN t.segs : t.earliest <= t.segs[i].start /\ t.segs[i].end <= t.latest
         /\ \E i, j \in DOMAIN t.segs : t.earliest = t.segs[i].start /\ t.segs[j].end = t.latest
         /\ h /\ Alike(t.segs) =>
              \A i, j \in DOMAIN t.segs : ~EndsBefore(t.segs[i], Head(t.segs[j].recs))
<1> DEFINE s == t.segs
<1>1. s \in Seq(Segment) /\ DOMAIN s = 1..Len(s)
  BY EntriesAre
<1>2. \A y : y \in Range(s) <=> \E p \in DOMAIN s : y = s[p]
  BY <1>1, RangeIs
<1>3. Alike(s) => Ordered(s) /\ (h => Healed(Range(s)))
  BY <1>1, AlikeIs DEF EntryInv
<1>4. /\ \A z \in Range(s) : Whole(z) /\ t.earliest <= z.start /\ z.end <= t.latest
      /\ \E z \in Range(s) : t.earliest = z.start
      /\ \E z \in Range(s) : t.latest = z.end
  BY DEF EntryInv, Covers
<1> HIDE DEF s
<1>5. ASSUME h, Alike(s), NEW i \in DOMAIN s, NEW j \in DOMAIN s, EndsBefore(s[i], Head(s[j].recs))
      PROVE  FALSE
  <2> DEFINE x == s[i]
             y == s[j]
             q == Head(y.recs)
  <2>1. x \in Range(s) /\ y \in Range(s) /\ y \in Segment /\ Whole(y)
    BY <1>1, <1>2, <1>4
  <2>2. ~Continues(x, y)
    BY <1>3, <1>5, <2>1 DEF Healed
  <2>3. q \in Range(y.recs)
    BY <2>1, SegmentsAre, FirstIn
  <2>4. q.start = y.start /\ q.period = y.period
    BY <2>1, <2>3 DEF Whole
  <2>5. EndsBefore(x, q)
    BY <1>5
  <2> HIDE DEF x, y, q
  <2> QED BY <2>2, <2>4, <2>5 DEF EndsBefore, Meet, Tolerance, Continues
<1>6. Alike(s) => \A i, j \in DOMAIN s : i < j => ~Precedes(s[j], s[i])
  BY <1>1, <1>3 DEF Ordered
<1>7. \A i \in DOMAIN s : t.earliest <= s[i].start /\ s[i].end <= t.latest
  BY <1>2, <1>4
<1>8. \E i, j \in DOMAIN s : t.earliest = s[i].start /\ s[j].end = t.latest
  BY <1>2, <1>4
<1> QED BY <1>5, <1>6, <1>7, <1>8 DEF s

LEMMA TraceHealed == TraceInv => SegmentsHealed
<1> SUFFICES ASSUME TraceInv PROVE SegmentsHealed
  OBVIOUS
<1>1. /\ traces \in Seq(Entry) /\ SidsOrdered(traces, split)
      /\ ~altered => \A k \in 1..Len(traces) : EntryInv(traces[k], heal)
  BY DEF TraceInv, ListInv
<1>2. DOMAIN traces = 1..Len(traces) /\ Len(traces) \in Nat /\ \A k \in DOMAIN traces : traces[k] \in Entry
  BY <1>1
<1>3. \A k \in 1..(Len(traces) - 1) :
        traces[k].sid < traces[k + 1].sid \/ (split /\ traces[k].sid = traces[k + 1].sid)
  BY <1>1, <1>2 DEF SidsOrdered
<1>4. ASSUME ~altered, NEW k \in DOMAIN traces
      PROVE  LET t == traces[k] segs == t.segs
             IN  /\ \A i, j \in DOMAIN segs : i < j /\ Alike(segs) => ~Precedes(segs[j], segs[i])
                 /\ \A i \in DOMAIN segs : t.earliest <= segs[i].start /\ segs[i].end <= t.latest
                 /\ \E i, j \in DOMAIN segs : t.earliest = segs[i].start /\ segs[j].end = t.latest
                 /\ heal /\ Alike(segs) =>
                      \A i, j \in DOMAIN segs : ~EndsBefore(segs[i], Head(segs[j].recs))
  <2> DEFINE t == traces[k]
  <2>1. t \in Entry /\ EntryInv(t, heal)
    BY <1>1, <1>2, <1>4
  <2> HIDE DEF t
  <2>2. /\ Alike(t.segs) => \A i, j \in DOMAIN t.segs : i < j => ~Precedes(t.segs[j], t.segs[i])
        /\ \A i \in DOMAIN t.segs : t.earliest <= t.segs[i].start /\ t.segs[i].end <= t.latest
        /\ \E i, j \in DOMAIN t.segs : t.earliest = t.segs[i].start /\ t.segs[j].end = t.latest
        /\ heal /\ Alike(t.segs) =>
             \A i, j \in DOMAIN t.segs : ~EndsBefore(t.segs[i], Head(t.segs[j].recs))
    BY <2>1, HealedSegments, Zenon
  <2> QED BY <2>2, Zenon DEF t
<1> QED BY <1>3, <1>4, Zenon DEF SegmentsHealed

(* The invariant holds through any calls, in any order and number.         *)
THEOREM TraceInvariance == TraceSpec => []TraceInv
BY TraceBegins, TraceSteps, PTL DEF TraceSpec

(* However records are added, unpacked, converted and packed: the entries  *)
(* are in order, and until the list is altered so are the segments, within *)
(* the times of their entry, and in a list that heals none is left that    *)
(* continues another (mstl3_addmsr_recordptr(), mstl3_addID()).            *)
THEOREM SegmentsAreHealed == TraceSpec => []SegmentsHealed
BY TraceInvariance, TraceHealed, PTL

-----------------------------------------------------------------------------
(* Totals: what the fold of a sequence of numbers is, by the sums of its   *)
(* beginnings.                                                             *)
Sums(P, q) ==
  /\ P \in [0..Len(q) -> Int] /\ P[0] = 0
  /\ \A m \in 1..Len(q) : P[m] = P[m - 1] + q[m]

LEMMA SumsAgree ==
  ASSUME NEW q \in Seq(Int), NEW P, NEW Q, Sums(P, q), Sums(Q, q)
  PROVE  P[Len(q)] = Q[Len(q)]
<1> DEFINE T == {m \in Nat : m <= Len(q) => P[m] = Q[m]}
<1>1. 0 \in T
  BY DEF Sums
<1>2. ASSUME NEW m \in T PROVE m + 1 \in T
  <2> SUFFICES ASSUME m + 1 <= Len(q) PROVE P[m + 1] = Q[m + 1]
    BY <1>2
  <2>1. m \in Nat /\ m + 1 \in 1..Len(q) /\ (m + 1) - 1 = m /\ P[m] = Q[m]
    BY <1>2
  <2> QED BY <2>1 DEF Sums
<1> HIDE DEF T
<1>3. T \in SUBSET Nat /\ Len(q) \in Nat
  BY DEF T
<1>4. Len(q) \in T
  BY <1>1, <1>2, <1>3, Induction
<1> QED BY <1>3, <1>4 DEF T

LEMMA TotalSums ==
  ASSUME NEW q \in Seq(Int)
  PROVE  \E P : Sums(P, q) /\ Total(q) = P[Len(q)]
<1> DEFINE n == Len(q)
           S == SUBSET (1..n)
           Fold(f) == [s \in S |-> IF s = {} THEN 0 ELSE f[s \ {Max(s)}] + q[Max(s)]]
           fold == CHOOSE f : f = Fold(f)
<1>1. n \in Nat /\ DOMAIN q = 1..n /\ \A i \in 1..n : q[i] \in Int
  OBVIOUS
<1>2. Total(q) = fold[1..n]
  BY <1>1, Zenon DEF Total, FoldLeft, MapThenFoldSet
<1>3. ASSUME NEW s \in S, s # {}
      PROVE  Max(s) \in s /\ \A k \in s : k <= Max(s)
  <2>1. s \in SUBSET Nat /\ \A k \in s : k <= n
    BY <1>1, <1>3
  <2>2. \E m \in s : \A k \in s : k <= m
    BY <1>1, <1>3, <2>1, GreatestNumber, Zenon
  <2>3. \E m \in s : \A k \in s : m >= k
    BY <2>1, <2>2
  <2>4. Max(s) \in s /\ \A k \in s : Max(s) >= k
    BY <2>3 DEF Max
  <2> QED BY <2>1, <2>4
<1> DEFINE top == [s \in S |-> IF s = {} THEN 1 ELSE Max(s)]
           rank == [s \in S |-> Cardinality(s)]
           parent == [s \in S |-> s \ {top[s]}]
           base == [s \in S |-> 0]
           step == [s \in S |-> [v \in Int |-> v + (IF s = {} THEN 0 ELSE q[top[s]])]]
<1>4. \A s \in S : s # {} => top[s] = Max(s) /\ top[s] \in s /\ s \ {top[s]} \in S
  BY <1>3
<1>5. \A s \in S : Cardinality(s) \in Nat /\ (s # {} => Cardinality(s \ {top[s]}) < Cardinality(s))
  <2> TAKE s \in S
  <2> HIDE DEF top
  <2>1. IsFiniteSet(1..n)
    BY <1>1, FS_Interval
  <2>2. IsFiniteSet(s) /\ Cardinality(s) \in Nat
    BY <2>1, FS_Subset, FS_CardinalityType
  <2>3. s # {} => Cardinality(s \ {top[s]}) = Cardinality(s) - 1
    BY <1>4, <2>2, FS_RemoveElement
  <2> QED BY <2>2, <2>3
<1> HIDE DEF S, top, n
<1>6. rank \in [S -> Nat] /\ parent \in [S -> S] /\ base \in [S -> Int]
  <2>1. \A s \in S : s \ {top[s]} \in S
    BY DEF S
  <2>2. \A s \in S : Cardinality(s) \in Nat
    BY <1>5
  <2>3. rank \in [S -> Nat]
    BY <2>2, Zenon
  <2>4. parent \in [S -> S]
    BY <2>1, Zenon
  <2> QED BY <2>3, <2>4
<1>7. step \in [S -> [Int -> Int]]
  <2>1. \A s \in S : s # {} => q[top[s]] \in Int
    BY <1>1, <1>4 DEF S
  <2> QED BY <2>1
<1>8. \A s \in S \ {{}} : rank[parent[s]] < rank[s]
  BY <1>4, <1>5
<1>9. \A s \in S : /\ base[s] = 0 /\ parent[s] = s \ {top[s]}
                   /\ \A v \in Int : step[s][v] = v + (IF s = {} THEN 0 ELSE q[top[s]])
  BY Zenon
<1> HIDE DEF rank, parent, base, step
<1>10. PICK f \in [S -> Int] : \A s \in S : Follows(f, s, parent, {{}}, base, step)
  BY <1>6, <1>7, <1>8, Recursion
<1>11. ASSUME NEW s \in S
       PROVE  f[s] = IF s = {} THEN 0 ELSE f[s \ {Max(s)}] + q[Max(s)]
  <2>1. f[s] = IF s = {} THEN 0 ELSE step[s][f[parent[s]]]
    BY <1>9, <1>10 DEF Follows
  <2>2. f[parent[s]] \in Int
    BY <1>6, <1>10
  <2>3. step[s][f[parent[s]]] = f[parent[s]] + (IF s = {} THEN 0 ELSE q[top[s]])
    BY <1>9, <2>2, Zenon
  <2>4. CASE s = {}
    BY <2>1, <2>4
  <2>5. CASE s # {}
    <3>1. top[s] = Max(s) /\ parent[s] = s \ {top[s]}
      BY <1>4, <1>9, <2>5, Zenon
    <3> QED BY <2>1, <2>3, <2>5, <3>1
  <2> QED BY <2>4, <2>5
<1>12. f = Fold(f)
  BY <1>11
<1>13. fold = Fold(fold)
  <2> HIDE DEF Fold
  <2> QED BY <1>12
<1>14. \A s \in S : fold[s] = IF s = {} THEN 0 ELSE fold[s \ {Max(s)}] + q[Max(s)]
  <2> HIDE DEF fold
  <2>1. \A s \in S : Fold(fold)[s] = IF s = {} THEN 0 ELSE fold[s \ {Max(s)}] + q[Max(s)]
    OBVIOUS
  <2> HIDE DEF Fold
  <2> QED BY <1>13, <2>1
<1> HIDE DEF fold
<1> DEFINE P == [m \in 0..n |-> fold[1..m]]
<1>15. n \in Nat /\ \A m \in 0..n : 1..m \in S
  BY <1>1 DEF S
<1>16. P[0] = 0
  <2>1. 1..0 = {} /\ 0 \in 0..n
    BY <1>15
  <2> QED BY <1>14, <1>15, <2>1
<1>17. ASSUME NEW m \in 1..n
       PROVE  P[m] = P[m - 1] + q[m]
  <2>1. 1..m \in S /\ m \in 1..m /\ m \in 0..n /\ m - 1 \in 0..n
    BY <1>15
  <2>2. Max(1..m) \in 1..m /\ \A k \in 1..m : k <= Max(1..m)
    BY <1>3, <2>1
  <2>3. Max(1..m) = m
    BY <2>1, <2>2
  <2>4. (1..m) \ {m} = 1..(m - 1)
    OBVIOUS
  <2>5. fold[1..m] = fold[1..(m - 1)] + q[m]
    BY <1>14, <2>1, <2>3, <2>4
  <2> QED BY <2>1, <2>5
<1> DEFINE T == {m \in Nat : m <= n => P[m] \in Int}
<1>18. 0 \in T
  BY <1>16
<1>19. ASSUME NEW m \in T PROVE m + 1 \in T
  <2> SUFFICES ASSUME m + 1 <= n PROVE P[m + 1] \in Int
    BY <1>19
  <2> HIDE DEF P
  <2>1. m \in Nat /\ m + 1 \in 1..n /\ (m + 1) - 1 = m /\ P[m] \in Int
    BY <1>15, <1>19
  <2>2. q[m + 1] \in Int
    BY <1>1, <2>1
  <2> QED BY <1>17, <2>1, <2>2
<1> HIDE DEF T
<1>20. \A m \in 0..n : P[m] \in Int
  <2>1. T \in SUBSET Nat
    BY DEF T
  <2>2. \A m \in Nat : m \in T
    BY <1>18, <1>19, <2>1, Induction
  <2> HIDE DEF P
  <2> QED BY <1>15, <2>2 DEF T
<1>21. Sums(P, q)
  <2>1. P \in [0..n -> Int]
    BY <1>20
  <2> HIDE DEF P
  <2> QED BY <1>16, <1>17, <2>1 DEF Sums, n
<1>22. Total(q) = P[Len(q)]
  BY <1>2, <1>15 DEF n
<1> HIDE DEF P
<1> QED BY <1>21, <1>22

LEMMA TotalIs ==
  ASSUME NEW q \in Seq(Int), NEW P, Sums(P, q)
  PROVE  Total(q) = P[Len(q)]
BY TotalSums, SumsAgree, Zenon

LEMMA TotalEmpty == Total(<<>>) = 0
<1>1. Sums([m \in 0..0 |-> 0], <<>>) /\ <<>> \in Seq(Int) /\ Len(<<>>) = 0
  BY DEF Sums
<1> QED BY <1>1, TotalIs

LEMMA TotalInt ==
  ASSUME NEW q \in Seq(Int)
  PROVE  Total(q) \in Int
<1>1. PICK P : Sums(P, q) /\ Total(q) = P[Len(q)]
  BY TotalSums
<1> QED BY <1>1 DEF Sums

LEMMA TotalJoined ==
  ASSUME NEW a \in Seq(Int), NEW b \in Seq(Int)
  PROVE  a \o b \in Seq(Int) /\ Total(a \o b) = Total(a) + Total(b)
<1>1. PICK A : Sums(A, a) /\ Total(a) = A[Len(a)]
  BY TotalSums
<1>2. PICK B : Sums(B, b) /\ Total(b) = B[Len(b)]
  BY TotalSums
<1>3. /\ a \o b \in Seq(Int) /\ Len(a \o b) = Len(a) + Len(b) /\ Len(a) \in Nat /\ Len(b) \in Nat
      /\ \A m \in 1..(Len(a) + Len(b)) : (a \o b)[m] = IF m <= Len(a) THEN a[m] ELSE b[m - Len(a)]
  OBVIOUS
<1> DEFINE l == Len(a)
           P == [m \in 0..(Len(a) + Len(b)) |-> IF m <= Len(a) THEN A[m] ELSE A[Len(a)] + B[m - Len(a)]]
<1>4. /\ A \in [0..l -> Int] /\ A[0] = 0 /\ \A m \in 1..l : A[m] = A[m - 1] + a[m]
      /\ B \in [0..Len(b) -> Int] /\ B[0] = 0 /\ \A m \in 1..Len(b) : B[m] = B[m - 1] + b[m]
  BY <1>1, <1>2 DEF Sums
<1>5. /\ \A m \in 0..l : A[m] \in Int
      /\ \A k \in 0..Len(b) : B[k] \in Int
  BY <1>4
<1>6. \A m \in 0..l : P[m] = A[m]
  BY <1>3
<1>7. \A k \in 0..Len(b) : P[l + k] = A[l] + B[k]
  <2> TAKE k \in 0..Len(b)
  <2>1. l + k \in 0..(Len(a) + Len(b)) /\ (l + k) - l = k /\ l \in 0..l /\ (l + k <= l => k = 0)
    BY <1>3
  <2>2. P[l + k] = IF l + k <= l THEN A[l + k] ELSE A[l] + B[(l + k) - l]
    BY <2>1, Zenon
  <2>3. A[l] \in Int /\ B[0] = 0
    BY <1>4, <1>5, <2>1
  <2> HIDE DEF P
  <2>4. CASE k = 0
    <3>1. l + k = l
      BY <1>3, <2>4
    <3> QED BY <1>3, <2>2, <2>3, <2>4, <3>1
  <2>5. CASE k # 0
    BY <2>1, <2>2, <2>5
  <2> QED BY <2>4, <2>5
<1>8. P = [m \in 0..(l + Len(b)) |-> P[m]]
  BY Zenon
<1> HIDE DEF P
<1>9. ASSUME NEW m \in 0..(l + Len(b))
      PROVE  m \in 0..l \/ (m - l \in 1..Len(b) /\ l + (m - l) = m)
  BY <1>3
<1>10. \A m \in 0..(l + Len(b)) : P[m] \in Int
  <2> TAKE m \in 0..(l + Len(b))
  <2>1. CASE m \in 0..l
    BY <1>5, <1>6, <2>1
  <2>2. CASE m - l \in 1..Len(b) /\ l + (m - l) = m
    <3>1. m - l \in 0..Len(b) /\ l \in 0..l
      BY <1>3, <2>2
    <3>2. P[m] = A[l] + B[m - l] /\ A[l] \in Int /\ B[m - l] \in Int
      BY <1>5, <1>7, <2>2, <3>1
    <3> QED BY <3>2
  <2> QED BY <1>9, <2>1, <2>2
<1>11. P[0] = 0
  <2>1. 0 \in 0..l
    BY <1>3
  <2> QED BY <1>4, <1>6, <2>1
<1>12. ASSUME NEW m \in 1..(l + Len(b))
       PROVE  P[m] = P[m - 1] + (a \o b)[m]
  <2>1. CASE m <= l
    <3>1. m \in 1..l /\ m \in 0..l /\ m - 1 \in 0..l
      BY <1>3, <2>1
    <3>2. (a \o b)[m] = a[m]
      BY <1>3, <2>1
    <3> QED BY <1>4, <1>6, <3>1, <3>2
  <2>2. CASE m > l
    <3>1. /\ m - l \in 1..Len(b) /\ m - l \in 0..Len(b) /\ (m - l) - 1 \in 0..Len(b) /\ l \in 0..l
          /\ l + (m - l) = m /\ l + ((m - l) - 1) = m - 1
      BY <1>3, <2>2
    <3>2. P[m] = A[l] + B[m - l] /\ P[m - 1] = A[l] + B[(m - l) - 1]
      BY <1>7, <3>1
    <3>3. A[l] \in Int /\ B[(m - l) - 1] \in Int /\ b[m - l] \in Int
      BY <1>3, <1>5, <3>1
    <3>4. B[m - l] = B[(m - l) - 1] + b[m - l]
      BY <1>4, <3>1
    <3>5. (a \o b)[m] = b[m - l]
      BY <1>3, <2>2
    <3> QED BY <3>2, <3>3, <3>4, <3>5
  <2> QED BY <1>3, <2>1, <2>2
<1>13. Sums(P, a \o b)
  <2>1. P \in [0..(l + Len(b)) -> Int]
    BY <1>8, <1>10
  <2> QED BY <1>3, <1>11, <1>12, <2>1 DEF Sums
<1>14. Total(a \o b) = P[l + Len(b)]
  BY <1>3, <1>13, TotalIs
<1>15. P[l + Len(b)] = A[l] + B[Len(b)]
  BY <1>3, <1>7
<1> QED BY <1>1, <1>2, <1>3, <1>14, <1>15

LEMMA TotalOne ==
  ASSUME NEW v \in Int
  PROVE  Total(<<v>>) = v
<1>1. Sums([m \in 0..1 |-> IF m = 0 THEN 0 ELSE v], <<v>>)
  BY DEF Sums
<1>2. <<v>> \in Seq(Int) /\ Len(<<v>>) = 1 /\ [m \in 0..1 |-> IF m = 0 THEN 0 ELSE v][1] = v
  OBVIOUS
<1> QED BY <1>1, <1>2, TotalIs

LEMMA TotalChanged ==
  ASSUME NEW q \in Seq(Int), NEW i \in 1..Len(q), NEW v \in Int
  PROVE  [q EXCEPT ![i] = v] \in Seq(Int) /\ Total([q EXCEPT ![i] = v]) = Total(q) - q[i] + v
<1>1. PICK A : Sums(A, q) /\ Total(q) = A[Len(q)]
  BY TotalSums
<1> DEFINE w == [q EXCEPT ![i] = v]
           P == [m \in 0..Len(q) |-> A[m] + (IF i <= m THEN v - q[i] ELSE 0)]
<1>2. /\ w \in Seq(Int) /\ Len(w) = Len(q) /\ Len(q) \in Nat /\ i \in Nat \ {0} /\ q[i] \in Int
      /\ \A m \in 1..Len(q) : w[m] = (IF m = i THEN v ELSE q[m]) /\ q[m] \in Int
  OBVIOUS
<1> HIDE DEF w
<1>3. A \in [0..Len(q) -> Int] /\ A[0] = 0 /\ \A m \in 1..Len(q) : A[m] = A[m - 1] + q[m]
  BY <1>1 DEF Sums
<1>4. P \in [0..Len(q) -> Int] /\ P[0] = 0 /\ P[Len(q)] = A[Len(q)] + (v - q[i])
  <2>1. 0 \in 0..Len(q) /\ Len(q) \in 0..Len(q) /\ ~(i <= 0) /\ i <= Len(q)
    BY <1>2
  <2>2. \A m \in 0..Len(q) : A[m] + (IF i <= m THEN v - q[i] ELSE 0) \in Int
    <3> TAKE m \in 0..Len(q)
    <3>1. A[m] \in Int
      BY <1>3
    <3> QED BY <1>2, <3>1
  <2>3. P \in [0..Len(q) -> Int]
    BY <2>2, Zenon
  <2> QED BY <1>2, <1>3, <2>1, <2>3
<1>5. ASSUME NEW m \in 1..Len(q)
      PROVE  P[m] = P[m - 1] + w[m]
  <2>1. m \in 0..Len(q) /\ m - 1 \in 0..Len(q)
    BY <1>2
  <2>3. /\ P[m] = A[m] + (IF i <= m THEN v - q[i] ELSE 0)
        /\ P[m - 1] = A[m - 1] + (IF i <= m - 1 THEN v - q[i] ELSE 0)
    BY <2>1, Zenon
  <2>2. A[m] = A[m - 1] + q[m] /\ A[m - 1] \in Int /\ q[m] \in Int /\ m \in Int
    <3>1. A[m - 1] \in Int
      BY <1>3, <2>1
    <3> QED BY <1>2, <1>3, <3>1
  <2> HIDE DEF P
  <2>4. w[m] = IF m = i THEN v ELSE q[m]
    BY <1>2
  <2>5. CASE m = i
    BY <1>2, <2>2, <2>3, <2>4, <2>5
  <2>6. CASE m # i
    BY <1>2, <2>2, <2>3, <2>4, <2>6, SMTT(30), ZenonT(30)
  <2> QED BY <2>5, <2>6
<1> HIDE DEF P
<1>6. Sums(P, w)
  BY <1>2, <1>4, <1>5 DEF Sums
<1>7. Total(w) = A[Len(q)] + (v - q[i])
  BY <1>2, <1>4, <1>6, TotalIs
<1>8. A[Len(q)] \in Int
  BY <1>2, <1>3
<1> QED BY <1>1, <1>2, <1>7, <1>8 DEF w

LEMMA TotalPutIn ==
  ASSUME NEW q \in Seq(Int), NEW i \in 1..(Len(q) + 1), NEW v \in Int
  PROVE  InsertAt(q, i, v) \in Seq(Int) /\ Total(InsertAt(q, i, v)) = Total(q) + v
<1> DEFINE w == InsertAt(q, i, v)
           n == Len(q)
<1>1. PICK A : Sums(A, q) /\ Total(q) = A[n]
  BY TotalSums
<1> DEFINE P == [m \in 0..(n + 1) |-> IF m < i THEN A[m] ELSE A[m - 1] + v]
<1>2. /\ w \in Seq(Int) /\ Len(w) = n + 1 /\ w[i] = v
      /\ \A p \in 1..n : w[IF p < i THEN p ELSE p + 1] = q[p]
  <2> DEFINE Z == Int
  <2>1. q \in Seq(Z) /\ v \in Z
    OBVIOUS
  <2> HIDE DEF Z
  <2>2. /\ w \in Seq(Z) /\ Len(w) = Len(q) + 1 /\ w[i] = v
        /\ \A p \in 1..Len(q) : w[IF p < i THEN p ELSE p + 1] = q[p]
    BY <2>1, PutIn
  <2> QED BY <2>2 DEF Z
<1> HIDE DEF w
<1>3. n \in Nat /\ i \in Nat \ {0} /\ i <= n + 1 /\ \A m \in 1..n : q[m] \in Int
  OBVIOUS
<1>4. A \in [0..n -> Int] /\ A[0] = 0 /\ \A m \in 1..n : A[m] = A[m - 1] + q[m]
  BY <1>1 DEF Sums
<1> HIDE DEF n
<1>5. P \in [0..(n + 1) -> Int] /\ P[0] = 0 /\ P[n + 1] = A[n] + v
  <2>1. \A m \in 0..(n + 1) : IF m < i THEN m \in 0..n ELSE m - 1 \in 0..n
    BY <1>3
  <2>2. \A m \in 0..(n + 1) : (IF m < i THEN A[m] ELSE A[m - 1] + v) \in Int
    <3> TAKE m \in 0..(n + 1)
    <3>1. CASE m < i
      BY <1>4, <2>1, <3>1
    <3>2. CASE ~(m < i)
      <4>1. m - 1 \in 0..n
        BY <2>1, <3>2
      <4>2. A[m - 1] \in Int
        BY <1>4, <4>1
      <4> QED BY <3>2, <4>2
    <3> QED BY <3>1, <3>2
  <2>3. P \in [0..(n + 1) -> Int]
    BY <2>2, Zenon
  <2>4. 0 \in 0..(n + 1) /\ n + 1 \in 0..(n + 1) /\ 0 < i /\ ~(n + 1 < i) /\ (n + 1) - 1 = n
    BY <1>3
  <2>5. P[0] = A[0] /\ P[n + 1] = A[n] + v
    BY <2>4
  <2> QED BY <1>4, <2>3, <2>5
<1>6. ASSUME NEW m \in 1..(n + 1)
      PROVE  P[m] = P[m - 1] + w[m]
  <2>1. m < i => w[m] = q[m] /\ m \in 1..n
    <3> SUFFICES ASSUME m < i PROVE w[m] = q[m] /\ m \in 1..n
      OBVIOUS
    <3>1. m \in 1..n
      BY <1>3
    <3>2. w[IF m < i THEN m ELSE m + 1] = q[m]
      BY <1>2, <3>1, Zenon
    <3> QED BY <3>1, <3>2
  <2>2. m > i => w[m] = q[m - 1] /\ m - 1 \in 1..n
    <3> SUFFICES ASSUME m > i PROVE w[m] = q[m - 1] /\ m - 1 \in 1..n
      OBVIOUS
    <3>1. m - 1 \in 1..n /\ ~(m - 1 < i) /\ (m - 1) + 1 = m
      BY <1>3
    <3>2. w[IF m - 1 < i THEN m - 1 ELSE (m - 1) + 1] = q[m - 1]
      BY <1>2, <3>1, Zenon
    <3> QED BY <3>1, <3>2
  <2>3. /\ P[m] = IF m < i THEN A[m] ELSE A[m - 1] + v
        /\ P[m - 1] = IF m - 1 < i THEN A[m - 1] ELSE A[(m - 1) - 1] + v
    BY <1>3
  <2> HIDE DEF P
  <2>4. CASE m < i
    BY <1>3, <1>4, <2>1, <2>3, <2>4
  <2>5. CASE m = i
    BY <1>2, <1>3, <1>4, <2>3, <2>5
  <2>6. CASE m > i
    <3>1. A[m - 1] = A[(m - 1) - 1] + q[m - 1] /\ A[(m - 1) - 1] \in Int /\ q[m - 1] \in Int
      BY <1>3, <1>4, <2>2, <2>6
    <3> QED BY <1>3, <2>2, <2>3, <2>6, <3>1
  <2> QED BY <1>3, <2>4, <2>5, <2>6
<1> HIDE DEF P
<1>7. Sums(P, w)
  BY <1>2, <1>5, <1>6 DEF Sums
<1>8. Total(w) = A[n] + v
  BY <1>2, <1>5, <1>7, TotalIs
<1> QED BY <1>1, <1>2, <1>8 DEF w

LEMMA TotalTakenOut ==
  ASSUME NEW q \in Seq(Int), NEW i \in 1..Len(q)
  PROVE  RemoveAt(q, i) \in Seq(Int) /\ Total(RemoveAt(q, i)) = Total(q) - q[i]
<1> DEFINE w == RemoveAt(q, i)
           n == Len(q) - 1
<1>1. /\ w \in Seq(Int) /\ Len(w) = n
      /\ \A p \in 1..n : w[p] = q[IF p < i THEN p ELSE p + 1]
  BY TakenOut
<1>2. n \in Nat /\ i \in 1..(n + 1) /\ Len(q) = n + 1 /\ q[i] \in Int
  OBVIOUS
<1> HIDE DEF w, n
<1>3. InsertAt(w, i, q[i]) \in Seq(Int) /\ Total(InsertAt(w, i, q[i])) = Total(w) + q[i]
  BY <1>1, <1>2, TotalPutIn
<1>4. /\ Len(InsertAt(w, i, q[i])) = n + 1 /\ InsertAt(w, i, q[i])[i] = q[i]
      /\ \A p \in 1..n : InsertAt(w, i, q[i])[IF p < i THEN p ELSE p + 1] = w[p]
  <2>1. w \in Seq(Int) /\ q[i] \in Int /\ i \in 1..(Len(w) + 1)
    BY <1>1, <1>2
  <2>2. /\ Len(InsertAt(w, i, q[i])) = Len(w) + 1 /\ InsertAt(w, i, q[i])[i] = q[i]
        /\ \A p \in 1..Len(w) : InsertAt(w, i, q[i])[IF p < i THEN p ELSE p + 1] = w[p]
    <3> DEFINE Z == Int
               e == q[i]
    <3>1. w \in Seq(Z) /\ e \in Z
      BY <2>1
    <3> HIDE DEF Z, e
    <3>2. /\ Len(InsertAt(w, i, e)) = Len(w) + 1 /\ InsertAt(w, i, e)[i] = e
          /\ \A p \in 1..Len(w) : InsertAt(w, i, e)[IF p < i THEN p ELSE p + 1] = w[p]
      BY <2>1, <3>1, PutIn
    <3> QED BY <3>2 DEF e
  <2> QED BY <1>1, <2>2, Zenon
<1>5. ASSUME NEW m \in 1..(n + 1)
      PROVE  InsertAt(w, i, q[i])[m] = q[m]
  <2>1. CASE m = i
    BY <1>4, <2>1
  <2>2. CASE m < i
    <3>1. m \in 1..n
      BY <1>2, <2>2
    <3> QED BY <1>1, <1>4, <2>2, <3>1
  <2>3. CASE m > i
    <3>1. m - 1 \in 1..n /\ ~(m - 1 < i) /\ (m - 1) + 1 = m
      BY <1>2, <2>3
    <3> QED BY <1>1, <1>4, <3>1
  <2> QED BY <1>2, <2>1, <2>2, <2>3
<1>6. InsertAt(w, i, q[i]) = q
  BY <1>2, <1>3, <1>4, <1>5
<1>7. Total(w) \in Int
  BY <1>1, TotalInt
<1> QED BY <1>1, <1>2, <1>3, <1>6, <1>7 DEF w

LEMMA TotalAdds ==
  ASSUME NEW a \in Seq(Int), NEW b \in Seq(Int), NEW c \in Seq(Int), Len(a) = Len(c), Len(b) = Len(c),
         \A i \in 1..Len(c) : c[i] = a[i] + b[i]
  PROVE  Total(c) = Total(a) + Total(b)
<1>1. PICK A : Sums(A, a) /\ Total(a) = A[Len(a)]
  BY TotalSums
<1>2. PICK B : Sums(B, b) /\ Total(b) = B[Len(b)]
  BY TotalSums
<1> DEFINE n == Len(c)
           P == [m \in 0..n |-> A[m] + B[m]]
<1>3. /\ n \in Nat /\ A \in [0..n -> Int] /\ A[0] = 0 /\ \A m \in 1..n : A[m] = A[m - 1] + a[m]
      /\ B \in [0..n -> Int] /\ B[0] = 0 /\ \A m \in 1..n : B[m] = B[m - 1] + b[m]
  BY <1>1, <1>2 DEF Sums
<1>4. \A m \in 1..n : a[m] \in Int /\ b[m] \in Int /\ c[m] = a[m] + b[m]
  OBVIOUS
<1> HIDE DEF n
<1>5. \A m \in 0..n : P[m] = A[m] + B[m] /\ A[m] \in Int /\ B[m] \in Int
  <2> TAKE m \in 0..n
  <2>1. A[m] \in Int
    BY <1>3
  <2>2. B[m] \in Int
    BY <1>3
  <2>3. P[m] = A[m] + B[m]
    BY Zenon
  <2> QED BY <2>1, <2>2, <2>3
<1>6. P \in [0..n -> Int]
  BY <1>5
<1> HIDE DEF P
<1>7. P[0] = 0
  <2>1. 0 \in 0..n
    BY <1>3
  <2>2. P[0] = A[0] + B[0]
    BY <1>5, <2>1, Zenon
  <2> QED BY <1>3, <2>2
<1>8. ASSUME NEW m \in 1..n
      PROVE  P[m] = P[m - 1] + c[m]
  <2>1. m \in 0..n /\ m - 1 \in 0..n
    BY <1>3
  <2>2. P[m] = A[m] + B[m] /\ P[m - 1] = A[m - 1] + B[m - 1] /\ A[m - 1] \in Int /\ B[m - 1] \in Int
    BY <1>5, <2>1
  <2>3. A[m] = A[m - 1] + a[m] /\ B[m] = B[m - 1] + b[m]
    BY <1>3
  <2>4. a[m] \in Int /\ b[m] \in Int /\ c[m] = a[m] + b[m]
    BY <1>4, Zenon
  <2>5. /\ P[m] = A[m - 1] + a[m] + (B[m - 1] + b[m])
        /\ P[m - 1] + c[m] = A[m - 1] + B[m - 1] + (a[m] + b[m])
    BY <2>2, <2>3, <2>4, Zenon
  <2> DEFINE x == A[m - 1]
             y == B[m - 1]
             u == a[m]
             v == b[m]
  <2>6. x \in Int /\ y \in Int /\ u \in Int /\ v \in Int
    BY <2>2, <2>4
  <2>7. P[m] = x + u + (y + v) /\ P[m - 1] + c[m] = x + y + (u + v)
    BY <2>5
  <2> HIDE DEF x, y, u, v
  <2> QED BY <2>6, <2>7
<1>9. Sums(P, c)
  BY <1>6, <1>7, <1>8 DEF Sums, n
<1>10. Total(c) = P[n]
  BY <1>9, TotalIs DEF n
<1> QED BY <1>1, <1>2, <1>3, <1>5, <1>10 DEF n

LEMMA TotalSpans ==
  ASSUME NEW q \in Seq(Int), NEW g \in [0..Len(q) -> Int],
         \A i \in 1..Len(q) : q[i] = g[i] - g[i - 1]
  PROVE  Total(q) = g[Len(q)] - g[0]
<1> DEFINE n == Len(q)
           P == [m \in 0..n |-> g[m] - g[0]]
<1>1. n \in Nat /\ \A m \in 0..n : g[m] \in Int
  OBVIOUS
<1>2. \A m \in 0..n : P[m] = g[m] - g[0]
  OBVIOUS
<1> HIDE DEF n
<1>3. P \in [0..n -> Int] /\ P[0] = 0
  BY <1>1
<1> HIDE DEF P
<1>4. ASSUME NEW m \in 1..n
      PROVE  P[m] = P[m - 1] + q[m]
  <2>1. m \in 0..n /\ m - 1 \in 0..n /\ 0 \in 0..n /\ m \in 1..Len(q)
    BY <1>1 DEF n
  <2> QED BY <1>1, <1>2, <2>1
<1>5. Sums(P, q)
  BY <1>3, <1>4 DEF Sums, n
<1>6. Total(q) = P[n] /\ n \in 0..n
  BY <1>1, <1>5, TotalIs DEF n
<1> QED BY <1>2, <1>6 DEF n

LEMMA TotalNat ==
  ASSUME NEW q \in Seq(Nat)
  PROVE  Total(q) \in Nat /\ \A i \in 1..Len(q) : q[i] <= Total(q)
<1> DEFINE n == Len(q)
<1>1. q \in Seq(Int) /\ n \in Nat /\ \A m \in 1..n : q[m] \in Nat
  OBVIOUS
<1>2. PICK P : Sums(P, q) /\ Total(q) = P[n]
  BY <1>1, TotalSums
<1>3. P \in [0..n -> Int] /\ P[0] = 0 /\ \A m \in 1..n : P[m] = P[m - 1] + q[m]
  BY <1>2 DEF Sums
<1> HIDE DEF n
<1> DEFINE T == {m \in Nat : m <= n => P[m] \in Nat /\ \A i \in 1..m : q[i] <= P[m]}
<1>4. 0 \in T
  BY <1>3
<1>5. ASSUME NEW m \in T PROVE m + 1 \in T
  <2> SUFFICES ASSUME m + 1 <= n PROVE P[m + 1] \in Nat /\ \A i \in 1..(m + 1) : q[i] <= P[m + 1]
    BY <1>5
  <2>1. m \in Nat /\ m + 1 \in 1..n /\ (m + 1) - 1 = m /\ P[m] \in Nat /\ \A i \in 1..m : q[i] <= P[m]
    BY <1>1, <1>5
  <2>2. q[m + 1] \in Nat /\ P[m + 1] = P[m] + q[m + 1]
    BY <1>1, <1>3, <2>1
  <2>3. ASSUME NEW i \in 1..(m + 1) PROVE q[i] <= P[m + 1]
    <3>1. CASE i = m + 1
      BY <2>1, <2>2, <3>1
    <3>2. CASE i # m + 1
      <4>1. i \in 1..m /\ i \in 1..n
        BY <1>1, <2>1, <3>2
      <4>2. q[i] <= P[m] /\ q[i] \in Nat
        BY <1>1, <2>1, <4>1
      <4> QED BY <2>1, <2>2, <4>2
    <3> QED BY <3>1, <3>2
  <2> QED BY <2>1, <2>2, <2>3
<1> HIDE DEF T
<1>6. T \in SUBSET Nat
  BY DEF T
<1>7. n \in T
  BY <1>1, <1>4, <1>5, <1>6, Induction
<1> QED BY <1>1, <1>2, <1>7 DEF T, n

-----------------------------------------------------------------------------
(* What the elements of a sequence weigh together.                         *)
Weights(W, q) == [i \in DOMAIN q |-> W[q[i]]]
Weight(W, q)  == Total(Weights(W, q))

LEMMA WeightsAre ==
  ASSUME NEW S, NEW W \in [S -> Int], NEW q \in Seq(S)
  PROVE  /\ Weights(W, q) \in Seq(Int) /\ Len(Weights(W, q)) = Len(q) /\ Len(q) \in Nat
         /\ \A i \in 1..Len(q) : Weights(W, q)[i] = W[q[i]] /\ W[q[i]] \in Int /\ q[i] \in S
<1> DEFINE w == Weights(W, q)
<1>1. DOMAIN q = 1..Len(q) /\ Len(q) \in Nat /\ \A i \in 1..Len(q) : q[i] \in S
  OBVIOUS
<1>2. \A i \in 1..Len(q) : W[q[i]] \in Int
  BY <1>1
<1>3. w \in [1..Len(q) -> Int] /\ \A i \in 1..Len(q) : w[i] = W[q[i]]
  BY <1>1, <1>2, Zenon DEF Weights
<1> HIDE DEF w
<1>4. w \in Seq(Int) /\ Len(w) = Len(q)
  BY <1>1, <1>3
<1> QED BY <1>1, <1>2, <1>3, <1>4 DEF w

Weighs(w, W, q) ==
  w \in Seq(Int) /\ Len(w) = Len(q) /\ \A i \in 1..Len(q) : w[i] = W[q[i]]

LEMMA WeightsWeigh ==
  ASSUME NEW S, NEW W \in [S -> Int], NEW q \in Seq(S)
  PROVE  Weighs(Weights(W, q), W, q)
<1>1. /\ Weights(W, q) \in Seq(Int) /\ Len(Weights(W, q)) = Len(q)
      /\ \A i \in 1..Len(q) : Weights(W, q)[i] = W[q[i]]
  BY WeightsAre
<1> QED BY <1>1 DEF Weighs

LEMMA SameNumbers ==
  ASSUME NEW a \in Seq(Int), NEW b \in Seq(Int), Len(a) = Len(b), \A i \in 1..Len(a) : a[i] = b[i]
  PROVE  a = b
OBVIOUS

LEMMA WeightInt ==
  ASSUME NEW S, NEW W \in [S -> Int], NEW q \in Seq(S)
  PROVE  Weight(W, q) \in Int
<1>1. Weights(W, q) \in Seq(Int)
  BY WeightsAre
<1> QED BY <1>1, TotalInt DEF Weight

LEMMA WeightEmpty ==
  ASSUME NEW W
  PROVE  Weight(W, <<>>) = 0
<1>1. Weights(W, <<>>) = <<>>
  BY DEF Weights
<1> QED BY <1>1, TotalEmpty DEF Weight

LEMMA WeightJoined ==
  ASSUME NEW S, NEW W \in [S -> Int], NEW a \in Seq(S), NEW b \in Seq(S)
  PROVE  Weight(W, a \o b) = Weight(W, a) + Weight(W, b)
<1> DEFINE A == Weights(W, a)
           B == Weights(W, b)
           C == Weights(W, a \o b)
<1>1. /\ a \o b \in Seq(S) /\ Len(a \o b) = Len(a) + Len(b) /\ Len(a) \in Nat /\ Len(b) \in Nat
      /\ \A p \in 1..Len(a) : (a \o b)[p] = a[p]
      /\ \A p \in 1..Len(b) : (a \o b)[Len(a) + p] = b[p]
  BY Joined
<1>2. /\ A \in Seq(Int) /\ Len(A) = Len(a) /\ \A i \in 1..Len(a) : A[i] = W[a[i]]
      /\ B \in Seq(Int) /\ Len(B) = Len(b) /\ \A i \in 1..Len(b) : B[i] = W[b[i]]
  <2>1. A \in Seq(Int) /\ Len(A) = Len(a) /\ \A i \in 1..Len(a) : A[i] = W[a[i]]
    <3>1. Weighs(A, W, a)
      BY WeightsWeigh, Zenon
    <3> QED BY <3>1, Zenon DEF Weighs
  <2>2. B \in Seq(Int) /\ Len(B) = Len(b) /\ \A i \in 1..Len(b) : B[i] = W[b[i]]
    <3>1. Weighs(B, W, b)
      BY WeightsWeigh, Zenon
    <3> QED BY <3>1, Zenon DEF Weighs
  <2> QED BY <2>1, <2>2, Zenon
<1>3. C \in Seq(Int) /\ Len(C) = Len(a \o b) /\ \A i \in 1..Len(a \o b) : C[i] = W[(a \o b)[i]]
  <2>1. a \o b \in Seq(S)
    BY <1>1
  <2>2. Weighs(C, W, a \o b)
    BY <2>1, WeightsWeigh, Zenon
  <2> QED BY <2>2, Zenon DEF Weighs
<1> HIDE DEF A, B, C
<1>4. /\ A \o B \in Seq(Int) /\ Len(A \o B) = Len(a) + Len(b)
      /\ \A p \in 1..Len(a) : (A \o B)[p] = A[p]
      /\ \A p \in 1..Len(b) : (A \o B)[Len(a) + p] = B[p]
  <2>1. A \in Seq(Int) /\ B \in Seq(Int)
    BY <1>2
  <2>2. /\ A \o B \in Seq(Int) /\ Len(A \o B) = Len(A) + Len(B)
        /\ \A p \in 1..Len(A) : (A \o B)[p] = A[p]
        /\ \A p \in 1..Len(B) : (A \o B)[Len(A) + p] = B[p]
    BY <2>1
  <2>3. Len(A) = Len(a) /\ Len(B) = Len(b)
    BY <1>2
  <2> QED BY <2>2, <2>3, Zenon
<1>5. ASSUME NEW i \in 1..Len(C)
      PROVE  C[i] = (A \o B)[i]
  <2>1. CASE i <= Len(a)
    <3>1. i \in 1..Len(a) /\ i \in 1..Len(a \o b)
      BY <1>1, <1>3, <2>1
    <3>2. C[i] = W[(a \o b)[i]] /\ (a \o b)[i] = a[i] /\ (A \o B)[i] = A[i] /\ A[i] = W[a[i]]
      BY <1>1, <1>2, <1>3, <1>4, <3>1, Zenon
    <3> QED BY <3>2
  <2>2. CASE i > Len(a)
    <3>1. i - Len(a) \in 1..Len(b) /\ Len(a) + (i - Len(a)) = i /\ i \in 1..Len(a \o b)
      BY <1>1, <1>3, <2>2
    <3>2. (a \o b)[Len(a) + (i - Len(a))] = b[i - Len(a)] /\ (A \o B)[Len(a) + (i - Len(a))] = B[i - Len(a)]
      BY <1>1, <1>4, <3>1, Zenon
    <3>3. C[i] = W[(a \o b)[i]] /\ B[i - Len(a)] = W[b[i - Len(a)]]
      BY <1>2, <1>3, <3>1, Zenon
    <3> QED BY <3>1, <3>2, <3>3, Zenon
  <2>3. i \in Int /\ Len(a) \in Int
    BY <1>1, <1>3
  <2>4. i <= Len(a) \/ i > Len(a)
    BY <2>3
  <2> QED BY <2>1, <2>2, <2>4, Zenon
<1>6. C = A \o B
  BY <1>1, <1>3, <1>4, <1>5, SameNumbers
<1> QED BY <1>2, <1>6, TotalJoined DEF Weight, A, B, C

LEMMA WeightOne ==
  ASSUME NEW S, NEW W \in [S -> Int], NEW e \in S
  PROVE  Weight(W, <<e>>) = W[e]
<1>1. Weights(W, <<e>>) = <<W[e]>>
  BY DEF Weights
<1> QED BY <1>1, TotalOne DEF Weight

LEMMA WeightChanged ==
  ASSUME NEW S, NEW W \in [S -> Int], NEW q \in Seq(S), NEW i \in 1..Len(q), NEW e \in S
  PROVE  Weight(W, [q EXCEPT ![i] = e]) = Weight(W, q) - W[q[i]] + W[e]
<1> DEFINE A == Weights(W, q)
           m == [q EXCEPT ![i] = e]
           C == Weights(W, m)
<1>1. /\ m \in Seq(S) /\ Len(m) = Len(q) /\ m[i] = e /\ \A p \in 1..Len(q) : p # i => m[p] = q[p]
  BY Changed
<1> HIDE DEF m
<1>2. /\ A \in Seq(Int) /\ Len(A) = Len(q) /\ \A p \in 1..Len(q) : A[p] = W[q[p]]
  <2>1. Weighs(A, W, q)
    BY WeightsWeigh, Zenon
  <2> QED BY <2>1, Zenon DEF Weighs
<1>3. /\ C \in Seq(Int) /\ Len(C) = Len(q) /\ \A p \in 1..Len(q) : C[p] = W[m[p]]
  <2>1. m \in Seq(S) /\ Len(m) = Len(q)
    BY <1>1
  <2>2. /\ C \in Seq(Int) /\ Len(C) = Len(m) /\ \A p \in 1..Len(m) : C[p] = W[m[p]]
    <3>1. Weighs(C, W, m)
      BY <2>1, WeightsWeigh, Zenon
    <3> QED BY <3>1, Zenon DEF Weighs
  <2> QED BY <2>1, <2>2, Zenon
<1> HIDE DEF A, C
<1>4. W[e] \in Int /\ i \in 1..Len(A)
  BY <1>2
<1>5. /\ [A EXCEPT ![i] = W[e]] \in Seq(Int) /\ Len([A EXCEPT ![i] = W[e]]) = Len(q)
      /\ \A p \in 1..Len(q) : [A EXCEPT ![i] = W[e]][p] = IF p = i THEN W[e] ELSE A[p]
  BY <1>2, <1>4
<1>6. ASSUME NEW p \in 1..Len(q) PROVE C[p] = [A EXCEPT ![i] = W[e]][p]
  <2>1. C[p] = W[m[p]] /\ A[p] = W[q[p]]
    BY <1>2, <1>3, Zenon
  <2>2. [A EXCEPT ![i] = W[e]][p] = IF p = i THEN W[e] ELSE A[p]
    BY <1>5, Zenon
  <2>3. p # i => m[p] = q[p]
    BY <1>1, Zenon
  <2>4. m[i] = e
    BY <1>1
  <2> QED BY <2>1, <2>2, <2>3, <2>4
<1>7. C = [A EXCEPT ![i] = W[e]]
  BY <1>3, <1>5, <1>6, SameNumbers
<1>8. Total(C) = Total(A) - A[i] + W[e]
  BY <1>2, <1>4, <1>7, TotalChanged
<1>9. A[i] = W[q[i]]
  BY <1>2
<1> QED BY <1>8, <1>9 DEF Weight, A, C, m

LEMMA WeightPutIn ==
  ASSUME NEW S, NEW W \in [S -> Int], NEW q \in Seq(S), NEW i \in 1..(Len(q) + 1), NEW e \in S
  PROVE  Weight(W, InsertAt(q, i, e)) = Weight(W, q) + W[e]
<1> DEFINE A == Weights(W, q)
           m == InsertAt(q, i, e)
           C == Weights(W, m)
           v == W[e]
           D == InsertAt(A, i, v)
           Z == Int
<1>1. /\ m \in Seq(S) /\ Len(m) = Len(q) + 1 /\ m[i] = e
      /\ \A p \in 1..Len(q) : m[IF p < i THEN p ELSE p + 1] = q[p]
  BY PutIn
<1> HIDE DEF m
<1>2. /\ A \in Seq(Int) /\ Len(A) = Len(q) /\ (\A p \in 1..Len(q) : A[p] = W[q[p]]) /\ Len(q) \in Nat
  <2>1. Weighs(A, W, q)
    BY WeightsWeigh, Zenon
  <2>2. Len(q) \in Nat
    OBVIOUS
  <2> QED BY <2>1, <2>2, Zenon DEF Weighs
<1>3. /\ C \in Seq(Int) /\ Len(C) = Len(q) + 1 /\ \A p \in 1..Len(C) : C[p] = W[m[p]]
  <2>1. m \in Seq(S) /\ Len(m) = Len(q) + 1
    BY <1>1
  <2>2. /\ C \in Seq(Int) /\ Len(C) = Len(m) /\ \A p \in 1..Len(m) : C[p] = W[m[p]]
    <3>1. Weighs(C, W, m)
      BY <2>1, WeightsWeigh, Zenon
    <3> QED BY <3>1, Zenon DEF Weighs
  <2> QED BY <2>1, <2>2, Zenon
<1> HIDE DEF A, C
<1>4. v \in Int /\ A \in Seq(Z) /\ v \in Z /\ i \in 1..(Len(A) + 1)
  BY <1>2
<1> HIDE DEF v, Z
<1>5. /\ D \in Seq(Z) /\ Len(D) = Len(A) + 1 /\ D[i] = v
      /\ \A p \in 1..Len(A) : D[IF p < i THEN p ELSE p + 1] = A[p]
  BY <1>4, PutIn
<1>6. D \in Seq(Int) /\ Total(D) = Total(A) + v
  BY <1>2, <1>4, TotalPutIn
<1> HIDE DEF D
<1>7. ASSUME NEW p \in 1..(Len(q) + 1) PROVE C[p] = D[p]
  <2>1. CASE p = i
    BY <1>1, <1>3, <1>5, <2>1 DEF v
  <2>2. CASE p < i
    <3>1. p \in 1..Len(q) /\ p \in 1..Len(A) /\ (IF p < i THEN p ELSE p + 1) = p
      BY <1>2, <2>2
    <3>2. m[p] = q[p] /\ D[p] = A[p]
      BY <1>1, <1>5, <3>1
    <3> QED BY <1>2, <1>3, <3>1, <3>2
  <2>3. CASE p > i
    <3>1. p - 1 \in 1..Len(q) /\ p - 1 \in 1..Len(A) /\ (IF p - 1 < i THEN p - 1 ELSE (p - 1) + 1) = p
      BY <1>2, <2>3
    <3>2. m[p] = q[p - 1] /\ D[p] = A[p - 1]
      BY <1>1, <1>5, <3>1
    <3> QED BY <1>2, <1>3, <3>1, <3>2
  <2> QED BY <1>2, <2>1, <2>2, <2>3
<1>8. C = D
  BY <1>2, <1>3, <1>5, <1>6, <1>7, SameNumbers
<1> QED BY <1>6, <1>8 DEF Weight, A, C, m, v

HasPutIn(m, S, s, i, e) ==
  /\ m \in Seq(S) /\ Len(m) = Len(s) + 1 /\ m[i] = e
  /\ \A p \in 1..Len(s) : m[IF p < i THEN p ELSE p + 1] = s[p]

LEMMA InsertPutsIn ==
  ASSUME NEW S, NEW s \in Seq(S), NEW e \in S, NEW i \in 1..(Len(s) + 1)
  PROVE  HasPutIn(InsertAt(s, i, e), S, s, i, e)
BY PutIn DEF HasPutIn

LEMMA WeightTakenOut ==
  ASSUME NEW S, NEW W \in [S -> Int], NEW q \in Seq(S), NEW i \in 1..Len(q)
  PROVE  Weight(W, RemoveAt(q, i)) = Weight(W, q) - W[q[i]]
<1> DEFINE w == RemoveAt(q, i)
           e == q[i]
<1>1. /\ w \in Seq(S) /\ Len(w) = Len(q) - 1
      /\ \A p \in 1..(Len(q) - 1) : w[p] = q[IF p < i THEN p ELSE p + 1]
  BY TakenOut
<1>2. e \in S /\ Len(q) \in Nat
  OBVIOUS
<1> HIDE DEF w, e
<1>3. i \in 1..(Len(w) + 1)
  BY <1>1, <1>2
<1> DEFINE m == InsertAt(w, i, e)
<1>4. /\ m \in Seq(S) /\ Len(m) = Len(w) + 1 /\ m[i] = e
      /\ \A p \in 1..Len(w) : m[IF p < i THEN p ELSE p + 1] = w[p]
  <2>1. w \in Seq(S) /\ e \in S
    BY <1>1, <1>2
  <2>2. HasPutIn(m, S, w, i, e)
    BY <2>1, <1>3, InsertPutsIn, Zenon
  <2> QED BY <2>2, Zenon DEF HasPutIn
<1>5. Weight(W, m) = Weight(W, w) + W[e]
  BY <1>1, <1>2, <1>3, WeightPutIn
<1> HIDE DEF m
<1>6. ASSUME NEW p \in 1..Len(q) PROVE m[p] = q[p]
  <2>1. CASE p = i
    BY <1>4, <2>1 DEF e
  <2>2. CASE p < i
    <3>1. p \in 1..Len(w) /\ p \in 1..(Len(q) - 1) /\ (IF p < i THEN p ELSE p + 1) = p
      BY <1>1, <1>2, <2>2
    <3> QED BY <1>1, <1>4, <3>1
  <2>3. CASE p > i
    <3>1. p - 1 \in 1..Len(w) /\ p - 1 \in 1..(Len(q) - 1) /\ (IF p - 1 < i THEN p - 1 ELSE (p - 1) + 1) = p
      BY <1>1, <1>2, <2>3
    <3> QED BY <1>1, <1>4, <3>1
  <2> QED BY <1>2, <2>1, <2>2, <2>3
<1>7. m = q
  <2>1. m \in Seq(S) /\ q \in Seq(S) /\ Len(m) = Len(q) /\ Len(q) \in Nat
    BY <1>1, <1>2, <1>4
  <2>2. m \in [1..Len(q) -> S] /\ q \in [1..Len(q) -> S]
    BY <2>1
  <2> QED BY <2>2, <1>6
<1>8. Weight(W, w) \in Int /\ W[e] \in Int
  BY <1>1, <1>2, WeightInt
<1> QED BY <1>5, <1>7, <1>8 DEF w, e

LEMMA WeightMoved ==
  ASSUME NEW S, NEW W \in [S -> Int], NEW q \in Seq(S), NEW i \in 1..Len(q), NEW to \in 1..Len(q)
  PROVE  Weight(W, Moved(q, i, to)) = Weight(W, q)
<1> DEFINE w == RemoveAt(q, i)
           e == q[i]
<1>1. w \in Seq(S) /\ Len(w) = Len(q) - 1
  BY TakenOut
<1>2. Weight(W, w) = Weight(W, q) - W[e]
  BY WeightTakenOut
<1>3. e \in S /\ Len(q) \in Nat
  OBVIOUS
<1>4. Moved(q, i, to) = InsertAt(w, to, e)
  BY DEF Moved
<1>5. Weight(W, q) \in Int
  BY WeightInt
<1> HIDE DEF w, e
<1>6. to \in 1..(Len(w) + 1) /\ W[e] \in Int
  BY <1>1, <1>3
<1>7. Weight(W, InsertAt(w, to, e)) = Weight(W, w) + W[e]
  BY <1>1, <1>3, <1>6, WeightPutIn
<1> QED BY <1>2, <1>4, <1>5, <1>6, <1>7

-----------------------------------------------------------------------------
(* Sequences of sequences, flattened.                                      *)
LEMMA JointsAgree ==
  ASSUME NEW S, NEW q \in Seq(Seq(S)), NEW F, NEW G, Joints(F, S, q), Joints(G, S, q)
  PROVE  F[Len(q)] = G[Len(q)]
<1> DEFINE T == {m \in Nat : m <= Len(q) => F[m] = G[m]}
<1>1. 0 \in T
  BY DEF Joints
<1>2. ASSUME NEW m \in T PROVE m + 1 \in T
  <2> SUFFICES ASSUME m + 1 <= Len(q) PROVE F[m + 1] = G[m + 1]
    BY <1>2
  <2>1. m \in Nat /\ m + 1 \in 1..Len(q) /\ (m + 1) - 1 = m /\ F[m] = G[m]
    BY <1>2
  <2>2. F[m + 1] = F[(m + 1) - 1] \o q[m + 1] /\ G[m + 1] = G[(m + 1) - 1] \o q[m + 1]
    BY <2>1, Zenon DEF Joints
  <2> QED BY <2>1, <2>2, Zenon
<1> HIDE DEF T
<1>3. T \in SUBSET Nat /\ Len(q) \in Nat
  BY DEF T
<1>4. Len(q) \in T
  BY <1>1, <1>2, <1>3, Induction
<1> QED BY <1>3, <1>4 DEF T

LEMMA FlattenBy ==
  ASSUME NEW S, NEW q \in Seq(Seq(S)), NEW F, Joints(F, S, q)
  PROVE  Flatten(q) = F[Len(q)]
<1>1. PICK G : Joints(G, S, q) /\ Flatten(q) = G[Len(q)]
  BY FlattenJoints
<1>2. F[Len(q)] = G[Len(q)]
  BY <1>1, JointsAgree, Zenon
<1> QED BY <1>1, <1>2

LEMMA FlattenOne ==
  ASSUME NEW S, NEW e \in Seq(S)
  PROVE  Flatten(<<e>>) = e
<1> DEFINE q == <<e>>
           F == [m \in 0..1 |-> IF m = 0 THEN <<>> ELSE e]
<1>1. q \in Seq(Seq(S)) /\ Len(q) = 1 /\ q[1] = e
  OBVIOUS
<1>2. F[0] = <<>> /\ F[1] = e /\ F \in [0..1 -> Seq(S)] /\ <<>> \o e = e
  OBVIOUS
<1> HIDE DEF q, F
<1>3. Joints(F, S, q)
  BY <1>1, <1>2 DEF Joints
<1>4. Flatten(q) = F[1]
  BY <1>1, <1>3, FlattenBy
<1> QED BY <1>2, <1>4 DEF q

LEMMA FlattenJoined ==
  ASSUME NEW S, NEW a \in Seq(Seq(S)), NEW b \in Seq(Seq(S))
  PROVE  Flatten(a \o b) = Flatten(a) \o Flatten(b)
<1> DEFINE na == Len(a)
           nb == Len(b)
           c == a \o b
<1>1. PICK A : Joints(A, S, a) /\ Flatten(a) = A[na]
  BY FlattenJoints
<1>2. PICK B : Joints(B, S, b) /\ Flatten(b) = B[nb]
  BY FlattenJoints
<1>3. /\ na \in Nat /\ A \in [0..na -> Seq(S)] /\ A[0] = <<>> /\ \A m \in 1..na : A[m] = A[m - 1] \o a[m]
      /\ nb \in Nat /\ B \in [0..nb -> Seq(S)] /\ B[0] = <<>> /\ \A m \in 1..nb : B[m] = B[m - 1] \o b[m]
  <2>1. na \in Nat /\ nb \in Nat
    OBVIOUS
  <2> QED BY <1>1, <1>2, <2>1, Zenon DEF Joints
<1>4. /\ c \in Seq(Seq(S)) /\ Len(c) = na + nb
      /\ \A p \in 1..na : c[p] = a[p]
      /\ \A p \in 1..nb : c[na + p] = b[p]
  BY Joined
<1>5. \A p \in 1..nb : b[p] \in Seq(S)
  OBVIOUS
<1> HIDE DEF na, nb, c
<1> DEFINE F == [m \in 0..(na + nb) |-> IF m <= na THEN A[m] ELSE A[na] \o B[m - na]]
<1>6. A[na] \in Seq(S) /\ \A m \in 0..nb : B[m] \in Seq(S) /\ A[na] \o B[m] \in Seq(S)
  <2>1. A[na] \in Seq(S)
    BY <1>3
  <2>2. \A m \in 0..nb : B[m] \in Seq(S)
    BY <1>3
  <2>3. \A x, y \in Seq(S) : x \o y \in Seq(S)
    OBVIOUS
  <2> QED BY <2>1, <2>2, <2>3, Zenon
<1>7. /\ F \in [0..(na + nb) -> Seq(S)]
      /\ \A m \in 0..(na + nb) : F[m] = IF m <= na THEN A[m] ELSE A[na] \o B[m - na]
  <2>1. ASSUME NEW m \in 0..(na + nb)
        PROVE  (IF m <= na THEN A[m] ELSE A[na] \o B[m - na]) \in Seq(S)
    <3>1. CASE m <= na
      <4>1. m \in 0..na
        BY <1>3, <3>1
      <4>2. A[m] \in Seq(S)
        BY <1>3, <4>1
      <4> QED BY <3>1, <4>2
    <3>2. CASE ~(m <= na)
      <4>1. m - na \in 0..nb
        BY <1>3, <3>2
      <4> QED BY <1>6, <3>2, <4>1
    <3> QED BY <3>1, <3>2
  <2> QED BY <2>1, Zenon
<1> HIDE DEF F
<1>8. F[0] = <<>>
  BY <1>3, <1>7
<1>9. ASSUME NEW m \in 1..(na + nb) PROVE F[m] = F[m - 1] \o c[m]
  <2>0. m \in 0..(na + nb) /\ m - 1 \in 0..(na + nb) /\ m \in Int /\ na \in Int
    BY <1>3
  <2>1. CASE m <= na
    <3>1. m \in 1..na /\ m - 1 <= na
      BY <1>3, <2>1
    <3>2. F[m] = A[m] /\ F[m - 1] = A[m - 1] /\ c[m] = a[m] /\ A[m] = A[m - 1] \o a[m]
      BY <1>3, <1>4, <1>7, <2>0, <2>1, <3>1
    <3> QED BY <3>2, Zenon
  <2>2. CASE m = na + 1
    <3>1. 1 \in 1..nb /\ m - 1 = na /\ ~(m <= na) /\ m - na = 1 /\ 1 - 1 = 0 /\ na <= na /\ na + 1 = m
      BY <1>3, <2>2
    <3>2. F[m] = A[na] \o B[1] /\ F[m - 1] = A[na]
      BY <1>7, <2>0, <3>1
    <3>3. B[1] = B[1 - 1] \o b[1] /\ c[na + 1] = b[1]
      BY <1>3, <1>4, <3>1, Zenon
    <3>4. B[1] = <<>> \o b[1]
      BY <1>3, <3>1, <3>3
    <3>5. b[1] \in Seq(S)
      BY <1>5, <3>1
    <3>6. <<>> \o b[1] = b[1]
      BY <3>5
    <3> QED BY <3>1, <3>2, <3>3, <3>4, <3>6
  <2>3. CASE m > na + 1
    <3>1. m - na \in 1..nb /\ (m - na) - 1 \in 0..nb /\ ~(m <= na) /\ ~(m - 1 <= na) /\ (m - na) - 1 = (m - 1) - na
          /\ na + (m - na) = m /\ m - na \in 0..nb
      BY <1>3, <2>0, <2>3
    <3>2. F[m] = A[na] \o B[m - na] /\ F[m - 1] = A[na] \o B[(m - 1) - na]
      BY <1>7, <2>0, <3>1, Zenon
    <3>3. B[m - na] = B[(m - na) - 1] \o b[m - na] /\ c[na + (m - na)] = b[m - na]
      BY <1>3, <1>4, <3>1, Zenon
    <3> DEFINE u == A[na]
               v == B[(m - na) - 1]
               w == b[m - na]
    <3>4. u \in Seq(S) /\ v \in Seq(S) /\ w \in Seq(S)
      BY <1>5, <1>6, <3>1
    <3>5. F[m] = u \o (v \o w) /\ F[m - 1] = u \o v /\ c[m] = w
      BY <3>1, <3>2, <3>3
    <3> HIDE DEF u, v, w
    <3>6. (u \o v) \o w = u \o (v \o w)
      BY <3>4, ConcatAssociative, SMTT(30), ZenonT(30)
    <3> QED BY <3>5, <3>6, Zenon
  <2>4. m <= na \/ m = na + 1 \/ m > na + 1
    BY <2>0
  <2> QED BY <2>1, <2>2, <2>3, <2>4, Zenon
<1>10. Joints(F, S, c)
  BY <1>4, <1>7, <1>8, <1>9 DEF Joints
<1>11. Flatten(c) = F[na + nb]
  BY <1>4, <1>10, FlattenBy
<1>12. F[na + nb] = A[na] \o B[nb]
  <2>1. na + nb \in 0..(na + nb) /\ (na + nb) - na = nb /\ (na + nb <= na => nb = 0) /\ nb >= 0 /\ na + 0 = na
    BY <1>3
  <2>2. CASE nb = 0
    <3>1. F[na + nb] = A[na]
      BY <1>3, <1>7, <2>1, <2>2
    <3>2. B[nb] = <<>> /\ A[na] \o <<>> = A[na]
      BY <1>3, <1>6, <2>2
    <3> QED BY <3>1, <3>2
  <2>3. CASE nb # 0
    BY <1>7, <2>1, <2>3
  <2> QED BY <2>2, <2>3
<1> QED BY <1>1, <1>2, <1>11, <1>12 DEF c

LEMMA FlattenFrom ==
  ASSUME NEW S, NEW q \in Seq(Seq(S)), NEW e \in Range(Flatten(q))
  PROVE  \E i \in 1..Len(q) : e \in Range(q[i])
<1> DEFINE n == Len(q)
           Seen(m) == UNION {Range(q[i]) : i \in 1..m}
<1>1. PICK F : Joints(F, S, q) /\ Flatten(q) = F[n]
  BY FlattenJoints
<1>2. n \in Nat /\ \A i \in 1..n : q[i] \in Seq(S)
  OBVIOUS
<1>3. F \in [0..n -> Seq(S)] /\ F[0] = <<>> /\ \A m \in 1..n : F[m] = F[m - 1] \o q[m]
  BY <1>1, Zenon DEF Joints
<1> HIDE DEF n
<1> DEFINE T == {m \in Nat : m <= n => Range(F[m]) \subseteq Seen(m)}
<1>4. 0 \in T
  BY <1>3 DEF Range
<1>5. ASSUME NEW m \in T PROVE m + 1 \in T
  <2> SUFFICES ASSUME m + 1 <= n PROVE Range(F[m + 1]) \subseteq Seen(m + 1)
    BY <1>5
  <2>1. m \in Nat /\ m + 1 \in 1..n /\ (m + 1) - 1 = m /\ m \in 0..n /\ Range(F[m]) \subseteq Seen(m)
    BY <1>2, <1>5
  <2>2. F[m + 1] = F[m] \o q[m + 1]
    BY <1>3, <2>1
  <2>3. F[m] \in Seq(S) /\ q[m + 1] \in Seq(S)
    BY <1>2, <1>3, <2>1
  <2>4. Range(F[m + 1]) = Range(F[m]) \cup Range(q[m + 1])
    BY <2>2, <2>3, RangeConcatenation
  <2>5. Seen(m) \subseteq Seen(m + 1) /\ Range(q[m + 1]) \subseteq Seen(m + 1)
    <3>1. 1..m \subseteq 1..(m + 1) /\ m + 1 \in 1..(m + 1)
      BY <2>1
    <3> QED BY <3>1, Zenon
  <2> QED BY <2>1, <2>4, <2>5
<1> HIDE DEF T
<1>6. T \in SUBSET Nat
  BY DEF T
<1>7. n \in T
  BY <1>2, <1>4, <1>5, <1>6, Induction
<1>8. Range(F[n]) \subseteq Seen(n)
  BY <1>2, <1>7 DEF T
<1> QED BY <1>1, <1>8 DEF n

(* What the elements of all the sequences weigh together.                  *)
LEMMA WeightFlatten ==
  ASSUME NEW S, NEW W \in [S -> Int], NEW q \in Seq(Seq(S))
  PROVE  LET w == [i \in DOMAIN q |-> Weight(W, q[i])]
         IN  w \in Seq(Int) /\ Len(w) = Len(q) /\ Weight(W, Flatten(q)) = Total(w)
<1> DEFINE n == Len(q)
           w == [i \in DOMAIN q |-> Weight(W, q[i])]
<1>1. PICK F : Joints(F, S, q) /\ Flatten(q) = F[n]
  BY FlattenJoints
<1>2. n \in Nat /\ DOMAIN q = 1..n /\ \A i \in 1..n : q[i] \in Seq(S)
  OBVIOUS
<1>3. F \in [0..n -> Seq(S)] /\ F[0] = <<>> /\ \A m \in 1..n : F[m] = F[m - 1] \o q[m]
  BY <1>1, Zenon DEF Joints
<1>4. ASSUME NEW i \in 1..n PROVE w[i] = Weight(W, q[i]) /\ Weight(W, q[i]) \in Int
  <2>1. q[i] \in Seq(S)
    BY <1>2
  <2>2. Weight(W, q[i]) \in Int
    BY <2>1, WeightInt, Zenon
  <2> QED BY <1>2, <2>2, Zenon
<1>5. w \in Seq(Int) /\ Len(w) = n
  <2>1. \A i \in 1..n : Weight(W, q[i]) \in Int
    BY <1>4
  <2> HIDE DEF n
  <2> DEFINE v == [i \in 1..n |-> Weight(W, q[i])]
  <2>2. v \in Seq(Int) /\ Len(v) = n
    BY <1>2, <2>1
  <2> QED BY <1>2, <2>2
<1> HIDE DEF n, w
<1> DEFINE P == [m \in 0..n |-> Weight(W, F[m])]
<1>6. ASSUME NEW m \in 0..n PROVE P[m] = Weight(W, F[m]) /\ Weight(W, F[m]) \in Int
  <2>1. F[m] \in Seq(S)
    BY <1>3
  <2>2. Weight(W, F[m]) \in Int
    BY <2>1, WeightInt, Zenon
  <2> QED BY <2>2, Zenon
<1>7. P \in [0..n -> Int]
  BY <1>6
<1> HIDE DEF P
<1>8. P[0] = 0
  <2>1. 0 \in 0..n
    BY <1>2
  <2> QED BY <1>3, <1>6, <2>1, WeightEmpty, Zenon
<1>9. ASSUME NEW m \in 1..n PROVE P[m] = P[m - 1] + w[m]
  <2>1. m \in 0..n /\ m - 1 \in 0..n
    BY <1>2
  <2>2. F[m - 1] \in Seq(S) /\ q[m] \in Seq(S)
    BY <1>2, <1>3, <2>1
  <2>3. Weight(W, F[m - 1] \o q[m]) = Weight(W, F[m - 1]) + Weight(W, q[m])
    BY <2>2, WeightJoined, Zenon
  <2> QED BY <1>3, <1>4, <1>6, <2>1, <2>3, Zenon
<1>10. Sums(P, w)
  BY <1>5, <1>7, <1>8, <1>9 DEF Sums
<1>11. Total(w) = P[n]
  BY <1>5, <1>10, TotalIs
<1>12. n \in 0..n
  BY <1>2
<1> QED BY <1>1, <1>5, <1>6, <1>11, <1>12 DEF n, w

-----------------------------------------------------------------------------
(* A piece of samples: as many as there are follow one another from a      *)
(* start time on, give or take, and the last is of the end time.           *)
Piece(q, start, end, period, by) ==
  /\ q \in Seq(Int) /\ q # <<>> /\ q[Len(q)] = end
  /\ \A j \in 1..Len(q) : Near(q[j], start + (j - 1) * period, by)

LEMMA NearAfter ==
  ASSUME NEW x \in Int, NEW y \in Int, NEW d \in Nat, Near(x, y, d),
         NEW z \in Int, NEW g \in Int, NEW t \in Nat, z - x - g \in -t..t
  PROVE  Near(z, y + g, d + t)
BY DEF Near

LEMMA NearBeyond ==
  ASSUME NEW x \in Int, NEW y \in Int, NEW d \in Nat, Near(x, y, d),
         NEW z \in Int, NEW g \in Int, NEW t \in Nat, Near(z, x + g, t)
  PROVE  Near(z, y + g, d + t)
BY DEF Near

LEMMA PieceJoined ==
  ASSUME NEW a, NEW s1 \in Int, NEW e1 \in Int, NEW b, NEW s2 \in Int, NEW e2 \in Int, NEW p \in Int,
         NEW d1 \in Nat, NEW d2 \in Nat, NEW t \in Nat,
         Piece(a, s1, e1, p, d1), Piece(b, s2, e2, p, d2), s2 - e1 - p \in -t..t
  PROVE  Piece(a \o b, s1, e2, p, d1 + d2 + t)
<1> DEFINE na == Len(a)
           nb == Len(b)
           c == a \o b
           d == d1 + d2 + t
<1>1. /\ a \in Seq(Int) /\ a # <<>> /\ a[na] = e1
      /\ \A j \in 1..na : Near(a[j], s1 + (j - 1) * p, d1)
  BY Zenon DEF Piece
<1>2. /\ b \in Seq(Int) /\ b # <<>> /\ b[nb] = e2
      /\ \A j \in 1..nb : Near(b[j], s2 + (j - 1) * p, d2)
  BY Zenon DEF Piece
<1>3. na \in Nat \ {0} /\ nb \in Nat \ {0}
  BY <1>1, <1>2
<1>4. /\ c \in Seq(Int) /\ Len(c) = na + nb
      /\ \A j \in 1..na : c[j] = a[j]
      /\ \A j \in 1..nb : c[na + j] = b[j]
  BY <1>1, <1>2, Joined
<1>5. (\A j \in 1..na : a[j] \in Int) /\ (\A j \in 1..nb : b[j] \in Int)
  BY <1>1, <1>2, SMTT(30)
<1> HIDE DEF na, nb, c
<1>6. c # <<>> /\ c[Len(c)] = e2
  <2>1. nb \in 1..nb
    BY <1>3
  <2>2. Len(c) # 0
    BY <1>3, <1>4
  <2> QED BY <1>2, <1>4, <2>1, <2>2, SMTT(30)
<1>7. PICK u \in Int : u = (na - 1) * p
  BY <1>3
<1>8. Near(e1, s1 + u, d1)
  <2>1. na \in 1..na
    BY <1>3
  <2> QED BY <1>1, <1>7, <2>1
<1>9. ASSUME NEW j \in 1..Len(c) PROVE Near(c[j], s1 + (j - 1) * p, d)
  <2>0. j \in 1..(na + nb)
    BY <1>4
  <2>1. CASE j <= na
    <3>1. j \in 1..na /\ a[j] \in Int
      BY <1>3, <1>5, <2>0, <2>1
    <3>2. Near(a[j], s1 + (j - 1) * p, d1) /\ c[j] = a[j]
      BY <1>1, <1>4, <3>1
    <3>3. PICK v \in Int : v = (j - 1) * p
      BY <3>1
    <3> QED BY <3>1, <3>2, <3>3 DEF Near
  <2>2. CASE j > na
    <3>1. PICK i \in 1..nb : j = na + i
      <4>1. j - na \in 1..nb /\ j = na + (j - na)
        BY <1>3, <2>0, <2>2
      <4> QED BY <4>1
    <3>2. Near(b[i], s2 + (i - 1) * p, d2) /\ c[j] = b[i] /\ b[i] \in Int
      BY <1>2, <1>4, <1>5, <3>1
    <3>3. PICK v \in Int : v = (i - 1) * p
      BY <3>1
    <3>4. (j - 1) * p = u + p + v
      <4>1. j - 1 = (na - 1) + 1 + (i - 1) /\ na \in Int /\ i \in Int
        BY <1>3, <3>1
      <4>2. ((na - 1) + 1 + (i - 1)) * p = (na - 1) * p + p + (i - 1) * p
        BY <4>1
      <4> QED BY <1>7, <3>3, <4>1, <4>2
    <3>5. Near(s2, (s1 + u) + p, d1 + t)
      <4>1. s1 + u \in Int
        BY <1>7
      <4> QED BY <1>8, <4>1, NearAfter, Zenon
    <3>6. Near(b[i], ((s1 + u) + p) + v, (d1 + t) + d2)
      <4>1. (s1 + u) + p \in Int /\ d1 + t \in Nat /\ v \in Int /\ b[i] \in Int
        BY <1>7, <3>2, <3>3
      <4>2. Near(b[i], s2 + v, d2)
        BY <3>2, <3>3, Zenon
      <4> QED BY <3>5, <4>1, <4>2, NearBeyond, Zenon
    <3>7. ((s1 + u) + p) + v = s1 + (u + p + v) /\ (d1 + t) + d2 = d
      BY <1>7, <3>3
    <3> QED BY <3>2, <3>4, <3>6, <3>7, Zenon
  <2>3. j \in Int /\ na \in Int
    BY <1>3
  <2> QED BY <2>1, <2>2, <2>3
<1> QED BY <1>4, <1>6, <1>9, Zenon DEF Piece, c

LEMMA PieceWidens ==
  ASSUME NEW q, NEW s \in Int, NEW e, NEW p \in Int, NEW d \in Nat, NEW d2 \in Nat, d <= d2, Piece(q, s, e, p, d)
  PROVE  Piece(q, s, e, p, d2)
<1>1. /\ q \in Seq(Int) /\ q # <<>> /\ q[Len(q)] = e
      /\ \A j \in 1..Len(q) : Near(q[j], s + (j - 1) * p, d)
  BY Zenon DEF Piece
<1>2. ASSUME NEW j \in 1..Len(q) PROVE Near(q[j], s + (j - 1) * p, d2)
  <2>1. PICK v \in Int : v = (j - 1) * p
    OBVIOUS
  <2>2. q[j] \in Int /\ Near(q[j], s + (j - 1) * p, d)
    BY <1>1
  <2> QED BY <2>1, <2>2 DEF Near
<1> QED BY <1>1, <1>2, Zenon DEF Piece

LEMMA TimesPiece ==
  ASSUME NEW r \in Records
  PROVE  Piece(Times(r), r.start, EndTime(r), r.period, 0)
<1> DEFINE q == Times(r)
<1>1. r.start \in Int /\ r.n \in Nat \ {0} /\ r.period \in Int
  BY RecordsAre
<1>2. \A j \in 1..r.n : q[j] = r.start + (j - 1) * r.period /\ q[j] \in Int
  BY <1>1 DEF Times
<1>3. q \in Seq(Int) /\ Len(q) = r.n
  <2>1. q \in [1..r.n -> Int]
    BY <1>2, Zenon DEF Times
  <2> HIDE DEF q
  <2> QED BY <1>1, <2>1
<1> HIDE DEF q
<1>4. q # <<>> /\ q[Len(q)] = EndTime(r)
  <2>1. r.n \in 1..r.n /\ Len(q) # 0
    BY <1>1, <1>3
  <2> QED BY <1>2, <1>3, <2>1 DEF EndTime
<1>5. ASSUME NEW j \in 1..Len(q) PROVE Near(q[j], r.start + (j - 1) * r.period, 0)
  <2>1. q[j] = r.start + (j - 1) * r.period /\ q[j] \in Int
    BY <1>2, <1>3
  <2> QED BY <2>1 DEF Near
<1> QED BY <1>3, <1>4, <1>5 DEF Piece, q

(* What is left of a piece when its first samples are taken.               *)
LEMMA PieceRest ==
  ASSUME NEW q, NEW s \in Int, NEW e, NEW p \in Int, NEW d \in Nat, Piece(q, s, e, p, d),
         NEW n \in Nat, n < Len(q)
  PROVE  Piece(SubSeq(q, n + 1, Len(q)), s + n * p, e, p, d)
<1> DEFINE len == Len(q)
           c == SubSeq(q, n + 1, len)
<1>1. /\ q \in Seq(Int) /\ q[len] = e /\ len \in Nat
      /\ \A j \in 1..len : Near(q[j], s + (j - 1) * p, d)
  BY DEF Piece
<1>2. c \in Seq(Int) /\ Len(c) = len - n /\ \A j \in 1..(len - n) : c[j] = q[n + j]
  BY <1>1
<1> HIDE DEF len, c
<1>3. n < len
  BY DEF len
<1>4. c # <<>> /\ c[Len(c)] = e
  <2>1. len - n \in 1..(len - n) /\ n + (len - n) = len /\ len - n # 0
    BY <1>1, <1>3
  <2> QED BY <1>1, <1>2, <2>1
<1>5. ASSUME NEW j \in 1..Len(c) PROVE Near(c[j], s + n * p + (j - 1) * p, d)
  <2>1. j \in 1..(len - n) /\ n + j \in 1..len
    BY <1>1, <1>2, <1>3
  <2>2. Near(q[n + j], s + ((n + j) - 1) * p, d) /\ c[j] = q[n + j]
    BY <1>1, <1>2, <2>1
  <2>3. ((n + j) - 1) * p = n * p + (j - 1) * p
    <3>1. j \in Int
      OBVIOUS
    <3> QED BY <3>1
  <2>4. s + ((n + j) - 1) * p = s + n * p + (j - 1) * p
    <3>1. n * p \in Int /\ (j - 1) * p \in Int
      OBVIOUS
    <3> QED BY <2>3, <3>1
  <2> QED BY <2>2, <2>4
<1> QED BY <1>2, <1>4, <1>5, Zenon DEF Piece, c, len

-----------------------------------------------------------------------------
(* A segment and the records it was made of.                               *)
AllData(x)    == \A r \in Range(x.recs) : r.data
TimesOf(recs) == [j \in DOMAIN recs |-> Times(recs[j])]
Chained(recs) == \A j \in 1..(Len(recs) - 1) : Meet(EndTime(recs[j]), recs[j + 1].start, recs[j])
Leeway(x)     == (Len(x.recs) - 1) * (x.period \div 2)

SegmentInv(x, alt, fl) ==
  /\ \A r \in Range(x.recs) : r.period = x.period
  /\ x.end = EndTime(x.recs[Len(x.recs)])
  /\ ~alt => /\ x.start = x.recs[1].start /\ Chained(x.recs)
             /\ AllData(x) => x.samples = Flatten(TimesOf(x.recs))
  /\ ~fl /\ AllData(x) => Piece(x.samples, x.start, x.end, x.period, Leeway(x))

LEMMA TimesOfAre ==
  ASSUME NEW q \in Seq(Records)
  PROVE  TimesOf(q) \in Seq(Seq(Int)) /\ Len(TimesOf(q)) = Len(q) /\ \A j \in 1..Len(q) : TimesOf(q)[j] = Times(q[j])
<1>1. DOMAIN q = 1..Len(q) /\ Len(q) \in Nat /\ \A j \in 1..Len(q) : q[j] \in Records
  OBVIOUS
<1>2. \A j \in 1..Len(q) : Times(q[j]) \in Seq(Int)
  BY <1>1, RecordsAre
<1> DEFINE V == Seq(Int)
           w == [j \in 1..Len(q) |-> Times(q[j])]
<1>3. w \in [1..Len(q) -> V] /\ \A j \in 1..Len(q) : w[j] = Times(q[j])
  BY <1>2
<1>4. TimesOf(q) = w
  BY <1>1, Zenon DEF TimesOf
<1> HIDE DEF w, V
<1>5. w \in Seq(V) /\ Len(w) = Len(q)
  BY <1>1, <1>3
<1> QED BY <1>3, <1>4, <1>5 DEF V

LEMMA OneInv ==
  ASSUME NEW r \in Records, NEW alt, NEW fl
  PROVE  SegmentInv(mstl3_msr2seg(r), alt, fl)
<1> DEFINE x == mstl3_msr2seg(r)
<1>1. /\ x.start = r.start /\ x.end = EndTime(r) /\ x.period = r.period
      /\ x.samples = Decoded(r) /\ x.recs = <<r>> /\ Range(x.recs) = {r}
  BY OneRecord
<1> HIDE DEF x
<1>2. Len(x.recs) = 1 /\ x.recs[1] = r
  BY <1>1
<1>3. Chained(x.recs)
  BY <1>2 DEF Chained
<1>4. AllData(x) => x.samples = Times(r)
  BY <1>1 DEF AllData, Decoded
<1>5. Flatten(TimesOf(x.recs)) = Times(r)
  <2>1. TimesOf(x.recs) = <<Times(r)>>
    BY <1>1 DEF TimesOf
  <2>2. Times(r) \in Seq(Int)
    BY RecordsAre
  <2> QED BY <2>1, <2>2, FlattenOne
<1>6. Leeway(x) = 0
  <2>1. r.period \div 2 \in Int
    BY RecordsAre
  <2> QED BY <1>1, <1>2, <2>1 DEF Leeway
<1>7. AllData(x) => Piece(x.samples, x.start, x.end, x.period, Leeway(x))
  BY <1>1, <1>4, <1>6, TimesPiece, Zenon
<1> QED BY <1>1, <1>2, <1>3, <1>4, <1>5, <1>7 DEF SegmentInv, x

(* One segment is two, one after the other.                                *)
JoinOf(x, a, b) ==
  /\ x \in Segment /\ x.start = a.start /\ x.end = b.end /\ x.period = a.period
  /\ x.samples = a.samples \o b.samples /\ x.recs = a.recs \o b.recs

LEMMA JoinedAre ==
  ASSUME NEW a \in Segment, NEW b \in Segment, NEW x, JoinOf(x, a, b)
  PROVE  /\ x \in Segment
         /\ Range(x.recs) = Range(a.recs) \cup Range(b.recs)
         /\ Len(x.recs) = Len(a.recs) + Len(b.recs)
         /\ Len(x.samples) = Len(a.samples) + Len(b.samples)
<1>1. /\ a.recs \in Seq(Records) /\ b.recs \in Seq(Records)
      /\ a.samples \in Seq(Int) /\ b.samples \in Seq(Int)
  BY SegmentsAre
<1>2. x \in Segment /\ x.samples = a.samples \o b.samples /\ x.recs = a.recs \o b.recs
  BY Zenon DEF JoinOf
<1>3. Range(a.recs \o b.recs) = Range(a.recs) \cup Range(b.recs)
  BY <1>1, RangeConcatenation
<1>4. Len(a.recs \o b.recs) = Len(a.recs) + Len(b.recs)
  BY <1>1, Joined
<1>5. Len(a.samples \o b.samples) = Len(a.samples) + Len(b.samples)
  BY <1>1, Joined
<1> QED BY <1>2, <1>3, <1>4, <1>5, Zenon

LEMMA JoinInv ==
  ASSUME NEW a \in Segment, NEW b \in Segment, NEW x, JoinOf(x, a, b), Continues(a, b),
         NEW alt, NEW fl, SegmentInv(a, alt, fl), SegmentInv(b, alt, fl)
  PROVE  SegmentInv(x, alt, fl)
<1> DEFINE na == Len(a.recs)
           nb == Len(b.recs)
           p == a.period
<1>1. /\ x.start = a.start /\ x.end = b.end /\ x.period = a.period
      /\ x.samples = a.samples \o b.samples /\ x.recs = a.recs \o b.recs
  BY Zenon DEF JoinOf
<1>2. /\ a.start \in Int /\ a.end \in Int /\ p \in Nat \ {0} /\ a.recs \in Seq(Records) /\ na \in Nat \ {0}
      /\ b.start \in Int /\ b.end \in Int /\ b.recs \in Seq(Records) /\ nb \in Nat \ {0}
  BY SegmentsAre
<1>3. Range(x.recs) = Range(a.recs) \cup Range(b.recs)
  BY JoinedAre
<1>4. /\ Len(x.recs) = na + nb /\ (\A j \in 1..na : x.recs[j] = a.recs[j])
      /\ \A j \in 1..nb : x.recs[na + j] = b.recs[j]
  <2>1. a.recs \in Seq(Records) /\ b.recs \in Seq(Records)
    BY <1>2
  <2>2. /\ Len(a.recs \o b.recs) = na + nb /\ (\A j \in 1..na : (a.recs \o b.recs)[j] = a.recs[j])
        /\ \A j \in 1..nb : (a.recs \o b.recs)[na + j] = b.recs[j]
    <3> DEFINE q1 == a.recs
               q2 == b.recs
    <3>1. q1 \in Seq(Records) /\ q2 \in Seq(Records)
      BY <2>1
    <3> HIDE DEF q1, q2
    <3>2. /\ Len(q1 \o q2) = Len(q1) + Len(q2) /\ (\A j \in 1..Len(q1) : (q1 \o q2)[j] = q1[j])
          /\ \A j \in 1..Len(q2) : (q1 \o q2)[Len(q1) + j] = q2[j]
      BY <3>1, Joined
    <3> QED BY <3>2, Zenon DEF q1, q2, na, nb
  <2> QED BY <1>1, <2>2, Zenon
<1>5. b.period = p /\ b.start - a.end - p \in -(p \div 2)..(p \div 2)
  BY DEF Continues
<1>6. /\ \A r \in Range(a.recs) : r.period = p
      /\ \A r \in Range(b.recs) : r.period = p
      /\ a.end = EndTime(a.recs[na]) /\ b.end = EndTime(b.recs[nb])
  BY <1>5, Zenon DEF SegmentInv
<1> HIDE DEF na, nb, p
<1>7. \A r \in Range(x.recs) : r.period = x.period
  BY <1>1, <1>3, <1>6 DEF p
<1>8. x.end = EndTime(x.recs[Len(x.recs)])
  <2>1. nb \in 1..nb
    BY <1>2
  <2> QED BY <1>1, <1>4, <1>6, <2>1
<1>9. AllData(x) <=> AllData(a) /\ AllData(b)
  BY <1>3 DEF AllData
<1>10. ASSUME ~alt PROVE x.start = x.recs[1].start /\ Chained(x.recs)
  <2>1. a.start = a.recs[1].start /\ Chained(a.recs) /\ b.start = b.recs[1].start /\ Chained(b.recs)
    BY <1>10, Zenon DEF SegmentInv
  <2>2. 1 \in 1..na /\ 1 \in 1..nb /\ na \in 1..na
    BY <1>2
  <2>3. x.start = x.recs[1].start
    BY <1>1, <1>4, <2>1, <2>2
  <2>4. ASSUME NEW j \in 1..(Len(x.recs) - 1)
        PROVE  Meet(EndTime(x.recs[j]), x.recs[j + 1].start, x.recs[j])
    <3>0. j \in 1..(na + nb - 1)
      BY <1>2, <1>4
    <3>1. CASE j < na
      <4>1. j \in 1..na /\ j + 1 \in 1..na /\ j \in 1..(na - 1)
        BY <1>2, <3>0, <3>1
      <4>2. x.recs[j] = a.recs[j] /\ x.recs[j + 1] = a.recs[j + 1]
        BY <1>4, <4>1, Zenon
      <4>3. Meet(EndTime(a.recs[j]), a.recs[j + 1].start, a.recs[j])
        BY <2>1, <4>1 DEF Chained, na
      <4> QED BY <4>2, <4>3
    <3>2. CASE j = na
      <4>1. x.recs[j] = a.recs[na] /\ x.recs[j + 1] = b.recs[1]
        BY <1>4, <2>2, <3>2
      <4>2. a.recs[na].period = p
        <5>1. a.recs[na] \in Range(a.recs)
          BY <1>2, <2>2, RangeIs DEF na
        <5> QED BY <1>6, <5>1
      <4>3. Meet(a.end, b.start, a.recs[na])
        BY <1>5, <4>2 DEF Meet, Tolerance
      <4> QED BY <1>6, <2>1, <4>1, <4>3
    <3>3. CASE j > na
      <4>1. PICK i \in 1..(nb - 1) : j = na + i /\ j + 1 = na + (i + 1) /\ i \in 1..nb /\ i + 1 \in 1..nb
        <5>1. j - na \in 1..(nb - 1)
          BY <1>2, <3>0, <3>3
        <5>2. /\ j = na + (j - na) /\ j + 1 = na + ((j - na) + 1)
              /\ j - na \in 1..nb /\ (j - na) + 1 \in 1..nb
          BY <1>2, <5>1
        <5> QED BY <5>1, <5>2
      <4>2. x.recs[j] = b.recs[i] /\ x.recs[j + 1] = b.recs[i + 1]
        BY <1>4, <4>1, Zenon
      <4>3. Meet(EndTime(b.recs[i]), b.recs[i + 1].start, b.recs[i])
        BY <2>1, <4>1 DEF Chained, nb
      <4> QED BY <4>2, <4>3
    <3>4. j \in Int /\ na \in Int
      BY <1>2
    <3> QED BY <3>1, <3>2, <3>3, <3>4
  <2> QED BY <2>3, <2>4 DEF Chained
<1>11. ASSUME ~alt, AllData(x) PROVE x.samples = Flatten(TimesOf(x.recs))
  <2>1. a.samples = Flatten(TimesOf(a.recs)) /\ b.samples = Flatten(TimesOf(b.recs))
    BY <1>9, <1>11, Zenon DEF SegmentInv
  <2>2. /\ TimesOf(a.recs) \in Seq(Seq(Int)) /\ Len(TimesOf(a.recs)) = na
        /\ \A j \in 1..na : TimesOf(a.recs)[j] = Times(a.recs[j])
    BY <1>2, TimesOfAre DEF na
  <2>3. /\ TimesOf(b.recs) \in Seq(Seq(Int)) /\ Len(TimesOf(b.recs)) = nb
        /\ \A j \in 1..nb : TimesOf(b.recs)[j] = Times(b.recs[j])
    BY <1>2, TimesOfAre DEF nb
  <2>4. /\ TimesOf(x.recs) \in Seq(Seq(Int)) /\ Len(TimesOf(x.recs)) = na + nb
        /\ \A j \in 1..(na + nb) : TimesOf(x.recs)[j] = Times(x.recs[j])
    <3>1. x.recs \in Seq(Records)
      BY <1>1, <1>2, Joined
    <3> QED BY <1>4, <3>1, TimesOfAre
  <2> DEFINE A == TimesOf(a.recs)
             B == TimesOf(b.recs)
             C == TimesOf(x.recs)
  <2> HIDE DEF A, B, C
  <2>5. /\ A \o B \in Seq(Seq(Int)) /\ Len(A \o B) = na + nb
        /\ (\A j \in 1..na : (A \o B)[j] = A[j]) /\ (\A j \in 1..nb : (A \o B)[na + j] = B[j])
    <3>1. A \in Seq(Seq(Int)) /\ Len(A) = na /\ B \in Seq(Seq(Int)) /\ Len(B) = nb
      BY <2>2, <2>3 DEF A, B
    <3> DEFINE V == Seq(Int)
    <3>2. A \in Seq(V) /\ B \in Seq(V)
      BY <3>1
    <3> HIDE DEF V
    <3>3. /\ A \o B \in Seq(V) /\ Len(A \o B) = Len(A) + Len(B)
          /\ (\A j \in 1..Len(A) : (A \o B)[j] = A[j]) /\ (\A j \in 1..Len(B) : (A \o B)[Len(A) + j] = B[j])
      BY <3>2, Joined
    <3> QED BY <3>1, <3>3, Zenon DEF V
  <2>6. ASSUME NEW j \in 1..(na + nb) PROVE C[j] = (A \o B)[j]
    <3>1. CASE j <= na
      <4>1. j \in 1..na
        BY <1>2, <3>1
      <4> QED BY <1>4, <2>2, <2>4, <2>5, <4>1, ZenonT(30) DEF A, C
    <3>2. CASE j > na
      <4>1. PICK i \in 1..nb : j = na + i
        <5>1. j - na \in 1..nb /\ j = na + (j - na)
          BY <1>2, <3>2
        <5> QED BY <5>1
      <4> QED BY <1>4, <2>3, <2>4, <2>5, <4>1, Zenon DEF B, C
    <3>3. j <= na \/ j > na
      BY <1>2
    <3> QED BY <3>1, <3>2, <3>3, Zenon
  <2>7. C = A \o B
    <3> DEFINE V == Seq(Int)
    <3>1. C \in Seq(V) /\ A \o B \in Seq(V) /\ Len(C) = Len(A \o B) /\ Len(C) = na + nb
      BY <2>4, <2>5 DEF C
    <3> HIDE DEF V
    <3> DEFINE D == A \o B
    <3> HIDE DEF D
    <3>2. \A j \in 1..Len(C) : C[j] = D[j]
      BY <2>6, <3>1 DEF D
    <3>3. C \in Seq(V) /\ D \in Seq(V) /\ Len(C) = Len(D)
      BY <3>1 DEF D
    <3> QED BY <3>2, <3>3, SMTT(30) DEF D
  <2>8. Flatten(A \o B) = Flatten(A) \o Flatten(B)
    <3>1. A \in Seq(Seq(Int)) /\ B \in Seq(Seq(Int))
      BY <2>2, <2>3 DEF A, B
    <3> QED BY <3>1, FlattenJoined
  <2> QED BY <1>1, <2>1, <2>7, <2>8, Zenon DEF A, B, C
<1>12. ASSUME ~fl, AllData(x) PROVE Piece(x.samples, x.start, x.end, x.period, Leeway(x))
  <2>1. Piece(a.samples, a.start, a.end, a.period, Leeway(a)) /\ Piece(b.samples, b.start, b.end, b.period, Leeway(b))
    BY <1>9, <1>12, Zenon DEF SegmentInv
  <2> DEFINE t == p \div 2
  <2>2. t \in Nat
    BY <1>2
  <2> HIDE DEF t
  <2>3. Leeway(a) = (na - 1) * t /\ Leeway(b) = (nb - 1) * t /\ Leeway(x) = (na + nb - 1) * t
    BY <1>1, <1>4, <1>5 DEF Leeway, na, nb, p, t
  <2>4. ASSUME NEW i \in Nat, NEW j \in Nat PROVE i * t \in Nat /\ i * t + j * t + t = (i + j + 1) * t
    BY <2>2
  <2>5. na - 1 \in Nat /\ nb - 1 \in Nat /\ (na - 1) + (nb - 1) + 1 = na + nb - 1
    BY <1>2
  <2>6. Leeway(a) \in Nat /\ Leeway(b) \in Nat /\ Leeway(a) + Leeway(b) + t = Leeway(x)
    <3>1. /\ (na - 1) * t \in Nat /\ (nb - 1) * t \in Nat
          /\ (na - 1) * t + (nb - 1) * t + t = ((na - 1) + (nb - 1) + 1) * t
      BY <2>4, <2>5
    <3> QED BY <2>3, <2>5, <3>1
  <2>7. Piece(a.samples \o b.samples, a.start, b.end, p, Leeway(a) + Leeway(b) + t)
    <3>1. Piece(a.samples, a.start, a.end, p, Leeway(a)) /\ Piece(b.samples, b.start, b.end, p, Leeway(b))
      BY <1>5, <2>1 DEF p
    <3>2. b.start - a.end - p \in -t..t /\ p \in Int
      BY <1>2, <1>5 DEF t
    <3> QED BY <1>2, <2>2, <2>6, <3>1, <3>2, PieceJoined, Zenon
  <2> QED BY <1>1, <2>6, <2>7, Zenon DEF p
<1> QED BY <1>7, <1>8, <1>10, <1>11, <1>12 DEF SegmentInv

LEMMA EndedJoins ==
  ASSUME NEW a \in Segment, NEW r \in Records
  PROVE  JoinOf(Ended(a, r), a, mstl3_msr2seg(r))
<1>1. /\ mstl3_msr2seg(r).end = EndTime(r) /\ mstl3_msr2seg(r).samples = Decoded(r)
      /\ mstl3_msr2seg(r).recs = <<r>>
  BY OneRecord
<1>2. Ended(a, r) \in Segment
  BY MadeOfRecord
<1>3. a.recs \in Seq(Records)
  BY SegmentsAre
<1>4. Append(a.recs, r) = a.recs \o <<r>>
  BY <1>3, AppendIsConcat
<1>5. /\ Ended(a, r).start = a.start /\ Ended(a, r).end = EndTime(r) /\ Ended(a, r).period = a.period
      /\ Ended(a, r).samples = a.samples \o Decoded(r) /\ Ended(a, r).recs = Append(a.recs, r)
  BY DEF Ended, Segment
<1> QED BY <1>1, <1>2, <1>4, <1>5 DEF JoinOf

LEMMA BegunJoins ==
  ASSUME NEW a \in Segment, NEW r \in Records, a.period = r.period
  PROVE  JoinOf(Begun(a, r), mstl3_msr2seg(r), a)
<1>1. /\ mstl3_msr2seg(r).start = r.start /\ mstl3_msr2seg(r).samples = Decoded(r)
      /\ mstl3_msr2seg(r).recs = <<r>> /\ mstl3_msr2seg(r).period = r.period
  BY OneRecord
<1>2. Begun(a, r) \in Segment
  BY MadeOfRecord
<1>3. /\ Begun(a, r).start = r.start /\ Begun(a, r).end = a.end /\ Begun(a, r).period = a.period
      /\ Begun(a, r).samples = Decoded(r) \o a.samples /\ Begun(a, r).recs = <<r>> \o a.recs
  BY DEF Begun, Segment
<1> QED BY <1>1, <1>2, <1>3 DEF JoinOf

LEMMA MergedJoins ==
  ASSUME NEW a \in Segment, NEW b \in Segment, NEW r \in Records
  PROVE  JoinOf(Merged(a, b, r), Ended(a, r), b)
<1>1. Ended(a, r) \in Segment
  BY MadeOfRecord
<1> DEFINE e == Ended(a, r)
           x == mstl3_addsegtoseg(e, b)
<1> HIDE DEF e
<1>2. e \in Segment
  BY <1>1 DEF e
<1>3. x \in Segment
  BY <1>2, MadeOfTwo
<1>4. /\ x.start = e.start /\ x.end = b.end /\ x.period = e.period
      /\ x.samples = e.samples \o b.samples /\ x.recs = e.recs \o b.recs
  BY <1>2 DEF mstl3_addsegtoseg, Segment
<1>5. JoinOf(x, e, b)
  BY <1>3, <1>4 DEF JoinOf
<1> QED BY <1>5, Zenon DEF Merged, e

LEMMA EndedInv ==
  ASSUME NEW a \in Segment, NEW r \in Records, EndsBefore(a, r), NEW alt, NEW fl, SegmentInv(a, alt, fl)
  PROVE  SegmentInv(Ended(a, r), alt, fl)
<1>1. JoinOf(Ended(a, r), a, mstl3_msr2seg(r)) /\ Continues(a, mstl3_msr2seg(r))
  BY EndedJoins, FitsIs
<1>2. mstl3_msr2seg(r) \in Segment /\ SegmentInv(mstl3_msr2seg(r), alt, fl)
  BY OneRecord, OneInv
<1> QED BY <1>1, <1>2, JoinInv, Zenon

LEMMA BegunInv ==
  ASSUME NEW a \in Segment, NEW r \in Records, StartsAfter(a, r), NEW alt, NEW fl, SegmentInv(a, alt, fl)
  PROVE  SegmentInv(Begun(a, r), alt, fl)
<1>1. a.period = r.period
  BY DEF StartsAfter
<1>2. JoinOf(Begun(a, r), mstl3_msr2seg(r), a) /\ Continues(mstl3_msr2seg(r), a)
  BY <1>1, BegunJoins, FitsIs
<1>3. mstl3_msr2seg(r) \in Segment /\ SegmentInv(mstl3_msr2seg(r), alt, fl)
  BY OneRecord, OneInv
<1> QED BY <1>2, <1>3, JoinInv, Zenon

LEMMA MergedInv ==
  ASSUME NEW a \in Segment, NEW b \in Segment, NEW r \in Records, EndsBefore(a, r), StartsAfter(b, r),
         NEW alt, NEW fl, SegmentInv(a, alt, fl), SegmentInv(b, alt, fl)
  PROVE  SegmentInv(Merged(a, b, r), alt, fl)
<1> DEFINE e == Ended(a, r)
<1>1. e \in Segment /\ SegmentInv(e, alt, fl)
  BY MadeOfRecord, EndedInv
<1>2. JoinOf(Merged(a, b, r), e, b)
  BY MergedJoins
<1>3. Continues(e, b)
  <2>1. Continues(mstl3_msr2seg(r), b) /\ mstl3_msr2seg(r).end = EndTime(r) /\ mstl3_msr2seg(r).period = r.period
    BY FitsIs, OneRecord
  <2>2. e.end = EndTime(r) /\ e.period = a.period /\ a.period = r.period
    BY DEF Ended, Segment, EndsBefore
  <2> HIDE DEF e
  <2> QED BY <2>1, <2>2 DEF Continues
<1> HIDE DEF e
<1> QED BY <1>1, <1>2, <1>3, JoinInv, Zenon

-----------------------------------------------------------------------------
(* The segments gain a record: one record more, and its samples.           *)
RecordCount == [x \in Segment |-> Len(x.recs)]
SampleCount == [x \in Segment |-> Len(x.samples)]

LEMMA CountsAre ==
  /\ RecordCount \in [Segment -> Int] /\ SampleCount \in [Segment -> Int]
  /\ \A x \in Segment : RecordCount[x] = Len(x.recs) /\ Len(x.recs) \in Nat \ {0}
  /\ \A x \in Segment : SampleCount[x] = Len(x.samples) /\ Len(x.samples) \in Nat
<1>1. ASSUME NEW x \in Segment PROVE Len(x.recs) \in Nat \ {0} /\ Len(x.samples) \in Nat
  BY SegmentsAre
<1> QED BY <1>1 DEF RecordCount, SampleCount

SegmentsInv(segs, alt, fl) == \A x \in Range(segs) : SegmentInv(x, alt, fl)

Gains(w, s, r, alt, fl) ==
  /\ w \in Seq(Segment) /\ Of(w) = Of(s) \cup {r}
  /\ Weight(RecordCount, w) = Weight(RecordCount, s) + 1
  /\ Weight(SampleCount, w) = Weight(SampleCount, s) + Len(Decoded(r))
  /\ SegmentsInv(s, alt, fl) => SegmentsInv(w, alt, fl)

LEMMA OfIs ==
  ASSUME NEW s \in Seq(Segment)
  PROVE  Of(s) = UNION {Range(x.recs) : x \in Range(s)} /\ Of(s) \subseteq Records
<1>1. DOMAIN s = 1..Len(s) /\ \A e : e \in Range(s) <=> \E p \in 1..Len(s) : e = s[p]
  BY RangeIs
<1>2. Of(s) = UNION {Range(x.recs) : x \in Range(s)}
  BY <1>1 DEF Of
<1>3. \A x \in Range(s) : Range(x.recs) \subseteq Records
  <2> TAKE x \in Range(s)
  <2>1. x \in Segment
    BY <1>1
  <2>2. x.recs \in Seq(Records)
    BY <2>1, SegmentsAre
  <2> QED BY <2>2, RangeIs
<1> QED BY <1>2, <1>3

(* The segment of the record itself is put in.                             *)
LEMMA GainsNew ==
  ASSUME NEW s \in Seq(Segment), NEW r \in Records, NEW i \in 1..(Len(s) + 1), NEW alt, NEW fl
  PROVE  Gains(InsertAt(s, i, mstl3_msr2seg(r)), s, r, alt, fl)
<1> DEFINE x == mstl3_msr2seg(r)
           w == InsertAt(s, i, x)
<1>1. x \in Segment /\ x.recs = <<r>> /\ Range(x.recs) = {r} /\ x.samples = Decoded(r)
  BY OneRecord
<1>2. SegmentInv(x, alt, fl)
  BY OneInv
<1> HIDE DEF x
<1>3. w \in Seq(Segment) /\ Range(w) = Range(s) \cup {x}
  <2>1. w \in Seq(Segment)
    BY <1>1, PutIn
  <2>2. Range(w) = Range(s) \cup {x}
    BY <1>1, RangePutIn
  <2> QED BY <2>1, <2>2
<1>4. Of(w) = Of(s) \cup {r}
  <2>1. Of(w) = UNION {Range(y.recs) : y \in Range(w)} /\ Of(s) = UNION {Range(y.recs) : y \in Range(s)}
    BY <1>3, OfIs, Zenon
  <2> HIDE DEF w
  <2> QED BY <1>1, <1>3, <2>1
<1>5. RecordCount[x] = 1 /\ SampleCount[x] = Len(Decoded(r))
  BY <1>1, CountsAre
<1>6. Weight(RecordCount, w) = Weight(RecordCount, s) + RecordCount[x]
  <2>1. RecordCount \in [Segment -> Int]
    BY CountsAre
  <2> QED BY <1>1, <2>1, WeightPutIn, Zenon
<1>7. Weight(SampleCount, w) = Weight(SampleCount, s) + SampleCount[x]
  <2>1. SampleCount \in [Segment -> Int]
    BY CountsAre
  <2> QED BY <1>1, <2>1, WeightPutIn, Zenon
<1> HIDE DEF w
<1>8. SegmentsInv(s, alt, fl) => SegmentsInv(w, alt, fl)
  BY <1>2, <1>3 DEF SegmentsInv
<1> QED BY <1>3, <1>4, <1>5, <1>6, <1>7, <1>8, Zenon DEF Gains, w, x

(* A segment is replaced by one with the record.                           *)
LEMMA GainsAt ==
  ASSUME NEW s \in Seq(Segment), NEW r \in Records, NEW i \in 1..Len(s), NEW y \in Segment, NEW alt, NEW fl,
         Range(y.recs) = Range(s[i].recs) \cup {r}, Len(y.recs) = Len(s[i].recs) + 1,
         Len(y.samples) = Len(s[i].samples) + Len(Decoded(r)),
         SegmentInv(s[i], alt, fl) => SegmentInv(y, alt, fl)
  PROVE  Gains([s EXCEPT ![i] = y], s, r, alt, fl)
<1> DEFINE x == s[i]
           w == [s EXCEPT ![i] = y]
<1>1. x \in Segment /\ x \in Range(s)
  BY RangeIs
<1>2. /\ w \in Seq(Segment)
      /\ Range(w) \subseteq Range(s) \cup {y} /\ y \in Range(w) /\ Range(s) \subseteq Range(w) \cup {x}
  BY Changed
<1>3. Of(w) = UNION {Range(z.recs) : z \in Range(w)} /\ Of(s) = UNION {Range(z.recs) : z \in Range(s)}
  BY <1>2, OfIs, Zenon
<1>4. Weight(RecordCount, w) = Weight(RecordCount, s) - RecordCount[x] + RecordCount[y]
  <2>1. RecordCount \in [Segment -> Int]
    BY CountsAre
  <2> QED BY <2>1, WeightChanged, Zenon
<1>5. Weight(SampleCount, w) = Weight(SampleCount, s) - SampleCount[x] + SampleCount[y]
  <2>1. SampleCount \in [Segment -> Int]
    BY CountsAre
  <2> QED BY <2>1, WeightChanged, Zenon
<1>6. Weight(RecordCount, s) \in Int /\ Weight(SampleCount, s) \in Int
  BY CountsAre, WeightInt
<1> HIDE DEF x, w
<1>7. /\ Range(y.recs) = Range(x.recs) \cup {r} /\ Len(y.recs) = Len(x.recs) + 1
      /\ Len(y.samples) = Len(x.samples) + Len(Decoded(r))
      /\ SegmentInv(x, alt, fl) => SegmentInv(y, alt, fl)
  BY DEF x
<1>8. Of(w) = Of(s) \cup {r}
  BY <1>1, <1>2, <1>3, <1>7
<1>9. SegmentsInv(s, alt, fl) => SegmentsInv(w, alt, fl)
  BY <1>1, <1>2, <1>7 DEF SegmentsInv
<1>10. /\ RecordCount[x] = Len(x.recs) /\ RecordCount[y] = Len(y.recs)
       /\ SampleCount[x] = Len(x.samples) /\ SampleCount[y] = Len(y.samples)
       /\ Len(x.recs) \in Int /\ Len(x.samples) \in Int
  BY <1>1, CountsAre
<1>11. Len(Decoded(r)) \in Int
  BY RecordsAre
<1>12. Weight(RecordCount, w) = Weight(RecordCount, s) + 1
  BY <1>4, <1>6, <1>7, <1>10
<1>13. Weight(SampleCount, w) = Weight(SampleCount, s) + Len(Decoded(r))
  BY <1>5, <1>6, <1>7, <1>10, <1>11
<1> QED BY <1>2, <1>8, <1>9, <1>12, <1>13, Zenon DEF Gains, w

LEMMA GainsEnded ==
  ASSUME NEW s \in Seq(Segment), NEW r \in Records, NEW i \in 1..Len(s), EndsBefore(s[i], r), NEW alt, NEW fl
  PROVE  Gains([s EXCEPT ![i] = Ended(s[i], r)], s, r, alt, fl)
<1> DEFINE x == s[i]
           y == Ended(x, r)
<1>1. x \in Segment
  OBVIOUS
<1> HIDE DEF x
<1>2. JoinOf(y, x, mstl3_msr2seg(r)) /\ y \in Segment
  BY <1>1, EndedJoins, MadeOfRecord
<1>3. /\ mstl3_msr2seg(r) \in Segment /\ Range(mstl3_msr2seg(r).recs) = {r}
      /\ Len(mstl3_msr2seg(r).recs) = 1 /\ mstl3_msr2seg(r).samples = Decoded(r)
  <2> DEFINE z == mstl3_msr2seg(r)
  <2>1. z \in Segment /\ z.recs = <<r>> /\ Range(z.recs) = {r} /\ z.samples = Decoded(r)
    BY OneRecord
  <2> HIDE DEF z
  <2>2. Len(z.recs) = 1
    BY <2>1
  <2> QED BY <2>1, <2>2 DEF z
<1>4. /\ Range(y.recs) = Range(x.recs) \cup {r} /\ Len(y.recs) = Len(x.recs) + 1
      /\ Len(y.samples) = Len(x.samples) + Len(Decoded(r))
  <2>1. /\ Range(y.recs) = Range(x.recs) \cup Range(mstl3_msr2seg(r).recs)
        /\ Len(y.recs) = Len(x.recs) + Len(mstl3_msr2seg(r).recs)
        /\ Len(y.samples) = Len(x.samples) + Len(mstl3_msr2seg(r).samples)
    BY <1>1, <1>2, <1>3, JoinedAre, Zenon
  <2> QED BY <1>3, <2>1, Zenon
<1>5. SegmentInv(x, alt, fl) => SegmentInv(y, alt, fl)
  BY <1>1, EndedInv DEF x
<1> HIDE DEF y
<1>6. Gains([s EXCEPT ![i] = y], s, r, alt, fl)
  BY <1>2, <1>4, <1>5, GainsAt, Zenon DEF x
<1> QED BY <1>6, Zenon DEF x, y

LEMMA GainsBegun ==
  ASSUME NEW s \in Seq(Segment), NEW r \in Records, NEW i \in 1..Len(s), StartsAfter(s[i], r), NEW alt, NEW fl
  PROVE  Gains([s EXCEPT ![i] = Begun(s[i], r)], s, r, alt, fl)
<1> DEFINE x == s[i]
           y == Begun(x, r)
<1>1. x \in Segment /\ x.period = r.period
  BY DEF StartsAfter
<1> HIDE DEF x
<1>2. JoinOf(y, mstl3_msr2seg(r), x) /\ y \in Segment
  BY <1>1, BegunJoins, MadeOfRecord
<1>3. /\ mstl3_msr2seg(r) \in Segment /\ Range(mstl3_msr2seg(r).recs) = {r}
      /\ Len(mstl3_msr2seg(r).recs) = 1 /\ mstl3_msr2seg(r).samples = Decoded(r)
  <2> DEFINE z == mstl3_msr2seg(r)
  <2>1. z \in Segment /\ z.recs = <<r>> /\ Range(z.recs) = {r} /\ z.samples = Decoded(r)
    BY OneRecord
  <2> HIDE DEF z
  <2>2. Len(z.recs) = 1
    BY <2>1
  <2> QED BY <2>1, <2>2 DEF z
<1>4. /\ Range(y.recs) = Range(x.recs) \cup {r} /\ Len(y.recs) = Len(x.recs) + 1
      /\ Len(y.samples) = Len(x.samples) + Len(Decoded(r))
  <2>1. /\ Range(y.recs) = {r} \cup Range(x.recs) /\ Len(y.recs) = 1 + Len(x.recs)
        /\ Len(y.samples) = Len(Decoded(r)) + Len(x.samples)
    <3>1. /\ Range(y.recs) = Range(mstl3_msr2seg(r).recs) \cup Range(x.recs)
          /\ Len(y.recs) = Len(mstl3_msr2seg(r).recs) + Len(x.recs)
          /\ Len(y.samples) = Len(mstl3_msr2seg(r).samples) + Len(x.samples)
      BY <1>1, <1>2, <1>3, JoinedAre, Zenon
    <3> QED BY <1>3, <3>1, Zenon
  <2>2. Len(x.recs) \in Int /\ Len(x.samples) \in Int /\ Len(Decoded(r)) \in Int
    BY <1>1, SegmentsAre, RecordsAre
  <2> QED BY <2>1, <2>2
<1>5. SegmentInv(x, alt, fl) => SegmentInv(y, alt, fl)
  BY <1>1, BegunInv DEF x
<1> HIDE DEF y
<1>6. Gains([s EXCEPT ![i] = y], s, r, alt, fl)
  BY <1>2, <1>4, <1>5, GainsAt, Zenon DEF x
<1> QED BY <1>6, Zenon DEF x, y

LEMMA GainsMerged ==
  ASSUME NEW s \in Seq(Segment), NEW r \in Records, NEW i \in 1..Len(s), NEW j \in 1..Len(s), i # j,
         EndsBefore(s[i], r), StartsAfter(s[j], r), NEW alt, NEW fl
  PROVE  Gains(RemoveAt([s EXCEPT ![i] = Merged(s[i], s[j], r)], j), s, r, alt, fl)
<1> DEFINE a == s[i]
           b == s[j]
           e == Ended(a, r)
           y == Merged(a, b, r)
           m == [s EXCEPT ![i] = y]
           w == RemoveAt(m, j)
           p == IF j < i THEN i - 1 ELSE i
<1>1. a \in Segment /\ b \in Segment /\ a \in Range(s) /\ b \in Range(s)
  BY RangeIs
<1> HIDE DEF a, b
<1>2. JoinOf(e, a, mstl3_msr2seg(r)) /\ e \in Segment /\ JoinOf(y, e, b) /\ y \in Segment
  BY <1>1, EndedJoins, MergedJoins, MadeOfRecord, MadeOfTwo DEF Merged
<1>3. /\ mstl3_msr2seg(r) \in Segment /\ Range(mstl3_msr2seg(r).recs) = {r}
      /\ Len(mstl3_msr2seg(r).recs) = 1 /\ mstl3_msr2seg(r).samples = Decoded(r)
  <2> DEFINE z == mstl3_msr2seg(r)
  <2>1. z \in Segment /\ z.recs = <<r>> /\ Range(z.recs) = {r} /\ z.samples = Decoded(r)
    BY OneRecord
  <2> HIDE DEF z
  <2>2. Len(z.recs) = 1
    BY <2>1
  <2> QED BY <2>1, <2>2 DEF z
<1> HIDE DEF e
<1>4. /\ Range(y.recs) = Range(a.recs) \cup {r} \cup Range(b.recs)
      /\ Len(y.recs) = Len(a.recs) + 1 + Len(b.recs)
      /\ Len(y.samples) = Len(a.samples) + Len(Decoded(r)) + Len(b.samples)
  <2>1. /\ Range(e.recs) = Range(a.recs) \cup Range(mstl3_msr2seg(r).recs)
        /\ Len(e.recs) = Len(a.recs) + Len(mstl3_msr2seg(r).recs)
        /\ Len(e.samples) = Len(a.samples) + Len(mstl3_msr2seg(r).samples)
    BY <1>1, <1>2, <1>3, JoinedAre, ZenonT(30)
  <2>2. /\ Range(y.recs) = Range(e.recs) \cup Range(b.recs)
        /\ Len(y.recs) = Len(e.recs) + Len(b.recs)
        /\ Len(y.samples) = Len(e.samples) + Len(b.samples)
    BY <1>1, <1>2, JoinedAre, ZenonT(30)
  <2> QED BY <1>3, <2>1, <2>2, Zenon
<1>5. SegmentInv(a, alt, fl) /\ SegmentInv(b, alt, fl) => SegmentInv(y, alt, fl)
  BY <1>1, MergedInv DEF a, b
<1> HIDE DEF y
<1>6. m \in Seq(Segment) /\ Len(m) = Len(s) /\ m[j] = b
  <2>1. m \in Seq(Segment) /\ Len(m) = Len(s) /\ \A q \in 1..Len(s) : q # i => m[q] = s[q]
    BY <1>2, Changed
  <2> HIDE DEF m
  <2> QED BY <2>1 DEF b
<1>8. /\ w \in Seq(Segment) /\ Range(w) \subseteq Range(s) \cup {y} /\ y \in Range(w)
      /\ Range(s) \subseteq Range(w) \cup {a, b}
  <2>1. w \in Seq(Segment) /\ TookIn(w, s, i, j, y, p)
    BY <1>2, TakenIn, Zenon
  <2> QED BY <2>1, Zenon DEF TookIn, a, b
<1>9. Of(w) = UNION {Range(z.recs) : z \in Range(w)} /\ Of(s) = UNION {Range(z.recs) : z \in Range(s)}
  BY <1>8, OfIs, Zenon
<1>10. /\ Weight(RecordCount, m) = Weight(RecordCount, s) - RecordCount[a] + RecordCount[y]
       /\ Weight(RecordCount, w) = Weight(RecordCount, m) - RecordCount[b]
  <2>1. RecordCount \in [Segment -> Int]
    BY CountsAre
  <2>2. Weight(RecordCount, m) = Weight(RecordCount, s) - RecordCount[a] + RecordCount[y]
    BY <1>2, <2>1, WeightChanged, Zenon DEF a
  <2>3. j \in 1..Len(m)
    BY <1>6
  <2> HIDE DEF m
  <2>4. Weight(RecordCount, w) = Weight(RecordCount, m) - RecordCount[m[j]]
    BY <1>6, <2>1, <2>3, WeightTakenOut, Zenon
  <2> QED BY <1>6, <2>2, <2>4, Zenon DEF m
<1>11. /\ Weight(SampleCount, m) = Weight(SampleCount, s) - SampleCount[a] + SampleCount[y]
       /\ Weight(SampleCount, w) = Weight(SampleCount, m) - SampleCount[b]
  <2>1. SampleCount \in [Segment -> Int]
    BY CountsAre
  <2>2. Weight(SampleCount, m) = Weight(SampleCount, s) - SampleCount[a] + SampleCount[y]
    BY <1>2, <2>1, WeightChanged, Zenon DEF a
  <2>3. j \in 1..Len(m)
    BY <1>6
  <2> HIDE DEF m
  <2>4. Weight(SampleCount, w) = Weight(SampleCount, m) - SampleCount[m[j]]
    BY <1>6, <2>1, <2>3, WeightTakenOut, Zenon
  <2> QED BY <1>6, <2>2, <2>4, Zenon DEF m
<1>12. Weight(RecordCount, s) \in Int /\ Weight(SampleCount, s) \in Int
  BY CountsAre, WeightInt
<1> HIDE DEF w, m
<1>13. /\ RecordCount[a] = Len(a.recs) /\ RecordCount[b] = Len(b.recs) /\ RecordCount[y] = Len(y.recs)
       /\ Len(a.recs) \in Int /\ Len(b.recs) \in Int
  BY <1>1, <1>2, CountsAre
<1>14. /\ SampleCount[a] = Len(a.samples) /\ SampleCount[b] = Len(b.samples) /\ SampleCount[y] = Len(y.samples)
       /\ Len(a.samples) \in Int /\ Len(b.samples) \in Int
  BY <1>1, <1>2, CountsAre
<1>15. Len(Decoded(r)) \in Int
  BY RecordsAre
<1>16. Of(w) = Of(s) \cup {r}
  BY <1>1, <1>4, <1>8, <1>9
<1>17. SegmentsInv(s, alt, fl) => SegmentsInv(w, alt, fl)
  BY <1>1, <1>5, <1>8 DEF SegmentsInv
<1>18. Weight(RecordCount, w) = Weight(RecordCount, s) + 1
  <2>1. Len(y.recs) = Len(a.recs) + 1 + Len(b.recs)
    BY <1>4
  <2>2. Weight(RecordCount, m) = Weight(RecordCount, s) - Len(a.recs) + Len(y.recs)
    BY <1>10, <1>13, Zenon
  <2>3. Weight(RecordCount, w) = Weight(RecordCount, m) - Len(b.recs)
    BY <1>10, <1>13, Zenon
  <2> DEFINE ws == Weight(RecordCount, s)
             wm == Weight(RecordCount, m)
             ww == Weight(RecordCount, w)
             la == Len(a.recs)
             lb == Len(b.recs)
             ly == Len(y.recs)
  <2>4. /\ ws \in Int /\ la \in Int /\ lb \in Int
        /\ ly = la + 1 + lb /\ wm = ws - la + ly /\ ww = wm - lb
    BY <1>12, <1>13, <2>1, <2>2, <2>3
  <2> HIDE DEF ws, wm, ww, la, lb, ly
  <2>5. ww = ws + 1
    BY <2>4
  <2> QED BY <2>5 DEF ws, ww
<1>19. Weight(SampleCount, w) = Weight(SampleCount, s) + Len(Decoded(r))
  <2>1. Len(y.samples) = Len(a.samples) + Len(Decoded(r)) + Len(b.samples)
    BY <1>4
  <2>2. Weight(SampleCount, m) = Weight(SampleCount, s) - Len(a.samples) + Len(y.samples)
    BY <1>11, <1>14, Zenon
  <2>3. Weight(SampleCount, w) = Weight(SampleCount, m) - Len(b.samples)
    BY <1>11, <1>14, Zenon
  <2> DEFINE ws == Weight(SampleCount, s)
             wm == Weight(SampleCount, m)
             ww == Weight(SampleCount, w)
             la == Len(a.samples)
             lb == Len(b.samples)
             lr == Len(Decoded(r))
             ly == Len(y.samples)
  <2>4. /\ ws \in Int /\ la \in Int /\ lb \in Int /\ lr \in Int
        /\ ly = la + lr + lb /\ wm = ws - la + ly /\ ww = wm - lb
    BY <1>12, <1>14, <1>15, <2>1, <2>2, <2>3
  <2> HIDE DEF ws, wm, ww, la, lb, ly, lr
  <2>5. ww = ws + lr
    BY <2>4
  <2> QED BY <2>5 DEF ws, ww, lr
<1>20. Gains(w, s, r, alt, fl)
  BY <1>8, <1>16, <1>17, <1>18, <1>19, Zenon DEF Gains
<1> QED BY <1>20, Zenon DEF w, m, y, a, b

(* The order of the segments is no matter.                                 *)
LEMMA GainsSorted ==
  ASSUME NEW s \in Seq(Segment), NEW r \in Records, NEW alt, NEW fl,
         NEW m \in Seq(Segment), NEW i \in 1..Len(m), Gains(m, s, r, alt, fl)
  PROVE  Gains(Sorted(m, i), s, r, alt, fl)
<1> DEFINE w == Sorted(m, i)
<1>1. PICK to \in 1..Len(m) : w = Moved(m, i, to)
  BY SortedMoves
<1>2. w \in Seq(Segment) /\ Range(w) = Range(m)
  BY SortedElements
<1>3. Weight(RecordCount, w) = Weight(RecordCount, m)
  <2>1. RecordCount \in [Segment -> Int]
    BY CountsAre
  <2>2. Weight(RecordCount, Moved(m, i, to)) = Weight(RecordCount, m)
    BY <2>1, WeightMoved, Zenon
  <2> QED BY <1>1, <2>2, Zenon
<1>4. Weight(SampleCount, w) = Weight(SampleCount, m)
  <2>1. SampleCount \in [Segment -> Int]
    BY CountsAre
  <2>2. Weight(SampleCount, Moved(m, i, to)) = Weight(SampleCount, m)
    BY <2>1, WeightMoved, Zenon
  <2> QED BY <1>1, <2>2, Zenon
<1> HIDE DEF w
<1>5. Of(w) = Of(m)
  BY <1>2, OfIs
<1>6. SegmentsInv(m, alt, fl) => SegmentsInv(w, alt, fl)
  BY <1>2 DEF SegmentsInv
<1>7. /\ Of(m) = Of(s) \cup {r}
      /\ Weight(RecordCount, m) = Weight(RecordCount, s) + 1
      /\ Weight(SampleCount, m) = Weight(SampleCount, s) + Len(Decoded(r))
      /\ SegmentsInv(s, alt, fl) => SegmentsInv(m, alt, fl)
  BY Zenon DEF Gains
<1>8. Gains(w, s, r, alt, fl)
  BY <1>2, <1>3, <1>4, <1>5, <1>6, <1>7, Zenon DEF Gains
<1> QED BY <1>8 DEF w

-----------------------------------------------------------------------------
(* What becomes of a record: it is refused, or an entry gains it.          *)
EntryGains(u, t, r, alt, fl) == u.sid = t.sid /\ Gains(u.segs, t.segs, r, alt, fl)

Taken(k, r) ==
  \/ UNCHANGED <<traces, adds, taken>>
  \/ /\ Counts(r)
     /\ \E u \in Entry : traces' = [traces EXCEPT ![k] = u] /\ EntryGains(u, traces[k], r, altered, flushed)

LEMMA CoveredTakes ==
  ASSUME traces \in Seq(Entry), NEW k \in DOMAIN traces, NEW r \in Records,
         NEW m \in Seq(Segment), NEW i \in 1..Len(m), Covered(k, r, m, i), Counts(r),
         Gains(m, traces[k].segs, r, altered, flushed)
  PROVE  Taken(k, r)
<1> DEFINE t == traces[k]
           u == Grown(t, r, m, i)
<1>1. t \in Entry
  OBVIOUS
<1>2. traces' = [traces EXCEPT ![k] = u]
  BY Zenon DEF Covered
<1>3. t.segs \in Seq(Segment)
  BY <1>1, EntriesAre
<1>4. Gains(Sorted(m, i), t.segs, r, altered, flushed)
  BY <1>3, GainsSorted, Zenon
<1> HIDE DEF t
<1>5. u \in Entry /\ u.sid = t.sid /\ u.segs = Sorted(m, i)
  BY <1>1, GrownIs
<1> HIDE DEF u
<1>6. EntryGains(u, t, r, altered, flushed)
  BY <1>4, <1>5, Zenon DEF EntryGains
<1> QED BY <1>2, <1>5, <1>6, Zenon DEF Taken, t

LEMMA AppendsTake ==
  ASSUME traces \in Seq(Entry), NEW k \in DOMAIN traces, NEW r \in Records,
         NEW i \in 1..Len(traces[k].segs), EndsBefore(traces[k].segs[i], r), Appends(k, r, i)
  PROVE  Taken(k, r)
<1> DEFINE t == traces[k]
           m == [t.segs EXCEPT ![i] = Ended(t.segs[i], r)]
<1>1. t \in Entry
  OBVIOUS
<1>2. t.segs \in Seq(Segment) /\ t.segs[i] \in Segment
  BY <1>1, EntriesAre
<1>3. CASE ~CanAdd(t.segs[i], r)
  BY <1>3, Zenon DEF Appends, Taken
<1>4. CASE CanAdd(t.segs[i], r)
  <2>1. Covered(k, r, m, i) /\ Counts(r)
    BY <1>4, Zenon DEF Appends
  <2>2. Gains(m, t.segs, r, altered, flushed)
    BY <1>2, GainsEnded, Zenon
  <2>3. m \in Seq(Segment) /\ i \in 1..Len(m)
    <3>1. Ended(t.segs[i], r) \in Segment
      BY <1>2, MadeOfRecord
    <3> QED BY <1>2, <3>1
  <2> HIDE DEF m
  <2> QED BY <2>1, <2>2, <2>3, CoveredTakes, Zenon
<1> QED BY <1>3, <1>4

LEMMA PrependsTake ==
  ASSUME traces \in Seq(Entry), NEW k \in DOMAIN traces, NEW r \in Records,
         NEW i \in 1..Len(traces[k].segs), StartsAfter(traces[k].segs[i], r), Prepends(k, r, i)
  PROVE  Taken(k, r)
<1> DEFINE t == traces[k]
           m == [t.segs EXCEPT ![i] = Begun(t.segs[i], r)]
<1>1. t \in Entry
  OBVIOUS
<1>2. t.segs \in Seq(Segment) /\ t.segs[i] \in Segment
  BY <1>1, EntriesAre
<1>3. CASE ~CanAdd(t.segs[i], r)
  BY <1>3, Zenon DEF Prepends, Taken
<1>4. CASE CanAdd(t.segs[i], r)
  <2>1. Covered(k, r, m, i) /\ Counts(r)
    BY <1>4, Zenon DEF Prepends
  <2>2. Gains(m, t.segs, r, altered, flushed)
    BY <1>2, GainsBegun, Zenon
  <2>3. m \in Seq(Segment) /\ i \in 1..Len(m)
    <3>1. Begun(t.segs[i], r) \in Segment
      BY <1>2, MadeOfRecord
    <3> QED BY <1>2, <3>1
  <2> HIDE DEF m
  <2> QED BY <2>1, <2>2, <2>3, CoveredTakes, Zenon
<1> QED BY <1>3, <1>4

LEMMA NewSegmentTakes ==
  ASSUME traces \in Seq(Entry), NEW k \in DOMAIN traces, NEW r \in Records,
         NEW i \in 1..(Len(traces[k].segs) + 1), StartsSegment(k, r, i)
  PROVE  Taken(k, r)
<1> DEFINE t == traces[k]
           m == InsertAt(t.segs, i, mstl3_msr2seg(r))
<1>1. t \in Entry
  OBVIOUS
<1>2. t.segs \in Seq(Segment) /\ Len(t.segs) \in Nat /\ mstl3_msr2seg(r) \in Segment
  BY <1>1, EntriesAre, OneRecord
<1>3. Covered(k, r, m, i) /\ Counts(r)
  BY Zenon DEF StartsSegment
<1>4. Gains(m, t.segs, r, altered, flushed)
  BY <1>2, GainsNew, Zenon
<1>5. m \in Seq(Segment) /\ i \in 1..Len(m)
  <2>1. m \in Seq(Segment) /\ Len(m) = Len(t.segs) + 1
    BY <1>2, PutIn
  <2> HIDE DEF t, m
  <2>2. i \in 1..(Len(t.segs) + 1)
    BY DEF t
  <2> QED BY <1>2, <2>1, <2>2
<1> HIDE DEF m
<1> QED BY <1>3, <1>4, <1>5, CoveredTakes, Zenon

LEMMA JoinsTake ==
  ASSUME traces \in Seq(Entry), NEW k \in DOMAIN traces, NEW r \in Records,
         NEW i \in 1..Len(traces[k].segs), NEW j \in 1..Len(traces[k].segs), i # j,
         EndsBefore(traces[k].segs[i], r), StartsAfter(traces[k].segs[j], r), Joins(k, r, i, j)
  PROVE  Taken(k, r)
<1> DEFINE t == traces[k]
           a == t.segs[i]
           b == t.segs[j]
           same == b.samples = <<>> \/ b.type = Ended(a, r).type
<1>1. t \in Entry /\ t.segs \in Seq(Segment) /\ a \in Segment /\ b \in Segment
  <2>1. t \in Entry
    OBVIOUS
  <2> QED BY <2>1, EntriesAre
<1>2. CASE ~CanAdd(a, r)
  BY <1>2, Zenon DEF Joins, Taken
<1>3. CASE CanAdd(a, r) /\ same
  <2> DEFINE m == RemoveAt([t.segs EXCEPT ![i] = Merged(a, b, r)], j)
             p == IF j < i THEN i - 1 ELSE i
  <2>1. Covered(k, r, m, p) /\ Counts(r)
    BY <1>3, Zenon DEF Joins, Merged
  <2>2. m \in Seq(Segment) /\ p \in 1..Len(m)
    <3>1. Merged(a, b, r) \in Segment
      BY <1>1, MadeOfRecord, MadeOfTwo DEF Merged
    <3>2. t.segs \in Seq(Segment)
      BY <1>1
    <3>3. m \in Seq(Segment) /\ TookIn(m, t.segs, i, j, Merged(a, b, r), p)
      BY <3>1, <3>2, TakenIn, Zenon
    <3> QED BY <3>3, Zenon DEF TookIn
  <2>3. Gains(m, t.segs, r, altered, flushed)
    BY <1>1, GainsMerged, Zenon
  <2> HIDE DEF m, p
  <2> QED BY <2>1, <2>2, <2>3, CoveredTakes, Zenon
<1>4. CASE CanAdd(a, r) /\ ~same
  <2> DEFINE m == [t.segs EXCEPT ![i] = Ended(a, r)]
             u == [t EXCEPT !.segs = m]
  <2>1. traces' = [traces EXCEPT ![k].segs[i] = Ended(a, r)] /\ Counts(r)
    BY <1>4, Zenon DEF Joins
  <2>2. traces' = [traces EXCEPT ![k] = u]
    BY <2>1
  <2>3. Gains(m, t.segs, r, altered, flushed)
    BY <1>1, GainsEnded, Zenon
  <2>4. m \in Seq(Segment) /\ m # <<>>
    <3>1. Ended(a, r) \in Segment
      BY <1>1, MadeOfRecord
    <3>2. m \in Seq(Segment) /\ Len(m) = Len(t.segs) /\ Len(t.segs) \in Nat \ {0}
      BY <1>1, <3>1, EntriesAre
    <3> QED BY <3>2
  <2> HIDE DEF m
  <2>5. u \in Entry /\ u.sid = t.sid /\ u.segs = m
    BY <1>1, <2>4 DEF Entry
  <2> HIDE DEF u
  <2>6. EntryGains(u, t, r, altered, flushed)
    BY <2>3, <2>5, Zenon DEF EntryGains
  <2> QED BY <2>1, <2>2, <2>5, <2>6, Zenon DEF Taken
<1> QED BY <1>2, <1>3, <1>4

LEMMA SimpleTakes ==
  ASSUME traces \in Seq(Entry), NEW k \in DOMAIN traces, NEW r \in Records, Simple(k, r)
  PROVE  Taken(k, r)
<1> DEFINE t == traces[k]
<1>1. t.segs \in Seq(Segment) /\ Len(t.segs) \in Nat \ {0}
  <2>1. t \in Entry
    OBVIOUS
  <2> QED BY <2>1, EntriesAre
<1>2. CASE AtEnd(t, r) /\ Appends(k, r, Len(t.segs))
  <2>1. EndsBefore(t.segs[Len(t.segs)], r)
    BY <1>2, Zenon DEF AtEnd, Last
  <2>2. Len(t.segs) \in 1..Len(t.segs)
    BY <1>1
  <2> QED BY <1>2, <2>1, <2>2, AppendsTake, Zenon
<1>3. CASE \E i \in {1, Len(t.segs) + 1} : StartsSegment(k, r, i)
  <2>1. PICK i \in {1, Len(t.segs) + 1} : StartsSegment(k, r, i)
    BY <1>3
  <2>2. i \in 1..(Len(t.segs) + 1)
    BY <1>1
  <2> QED BY <2>1, <2>2, NewSegmentTakes, Zenon
<1>4. CASE AtStart(t, r) /\ Prepends(k, r, 1)
  <2>1. StartsAfter(t.segs[1], r)
    BY <1>1, <1>4 DEF AtStart
  <2>2. 1 \in 1..Len(t.segs)
    BY <1>1
  <2> QED BY <1>4, <2>1, <2>2, PrependsTake, Zenon
<1> QED BY <1>2, <1>3, <1>4 DEF Simple

LEMMA SearchesTake ==
  ASSUME traces \in Seq(Entry), NEW k \in DOMAIN traces, NEW r \in Records, Searches(k, r)
  PROVE  Taken(k, r)
<1> DEFINE t == traces[k]
           after == FitAfter(t.segs, r)
           before == FitBefore(t.segs, r)
           first == Least(before \cup after)
<1>1. t.segs \in Seq(Segment) /\ Len(t.segs) \in Nat
  <2>1. t \in Entry
    OBVIOUS
  <2> QED BY <2>1, EntriesAre
<1>2. before \subseteq 1..Len(t.segs) /\ after \subseteq 1..Len(t.segs)
  <2>1. Scanned(t.segs, r) \subseteq 1..Len(t.segs)
    BY <1>1, ScannedIs
  <2> QED BY <2>1 DEF FitAfter, FitBefore
<1>3. /\ \A i \in before : EndsBefore(t.segs[i], r) /\ ~FirstOf(i, after)
      /\ \A i \in after : StartsAfter(t.segs[i], r)
  BY DEF FitBefore, FitAfter
<1>4. \/ StartsSegment(k, r, FollowSeg(t.segs, r) + 1)
      \/ before # {} /\ after # {} /\ Joins(k, r, Least(before), Least(after))
      \/ before # {} /\ Appends(k, r, Least(before))
      \/ after # {} /\ Prepends(k, r, Least(after))
      \/ before \cup after # {} /\ first \in before /\ Appends(k, r, first)
      \/ before \cup after # {} /\ first \notin before /\ Prepends(k, r, first)
  BY Zenon DEF Searches, FitBefore, FitAfter
<1> HIDE DEF before, after, first
<1>5. /\ before # {} => Least(before) \in before
      /\ after # {} => Least(after) \in after /\ FirstOf(Least(after), after)
      /\ before \cup after # {} => first \in before \cup after
  <2>1. before \in SUBSET Nat /\ after \in SUBSET Nat /\ before \cup after \in SUBSET Nat
    BY <1>1, <1>2
  <2> QED BY <2>1, LeastIs DEF FirstOf, first
<1>6. CASE StartsSegment(k, r, FollowSeg(t.segs, r) + 1)
  <2>1. FollowSeg(t.segs, r) \in 0..Len(t.segs)
    BY <1>1, ScannedIs
  <2>2. FollowSeg(t.segs, r) + 1 \in 1..(Len(t.segs) + 1)
    BY <1>1, <2>1
  <2> QED BY <1>6, <2>2, NewSegmentTakes, Zenon
<1>7. CASE before # {} /\ after # {} /\ Joins(k, r, Least(before), Least(after))
  <2>1. Least(before) \in 1..Len(t.segs) /\ Least(after) \in 1..Len(t.segs)
    BY <1>2, <1>5, <1>7
  <2>2. EndsBefore(t.segs[Least(before)], r) /\ StartsAfter(t.segs[Least(after)], r)
    BY <1>3, <1>5, <1>7
  <2>3. Least(before) # Least(after)
    BY <1>3, <1>5, <1>7
  <2> QED BY <1>7, <2>1, <2>2, <2>3, JoinsTake, Zenon
<1>8. CASE \E i \in before : Appends(k, r, i)
  <2>1. PICK i \in before : Appends(k, r, i)
    BY <1>8
  <2>2. i \in 1..Len(t.segs) /\ EndsBefore(t.segs[i], r)
    BY <1>2, <1>3
  <2> QED BY <2>1, <2>2, AppendsTake, Zenon
<1>9. CASE \E i \in after : Prepends(k, r, i)
  <2>1. PICK i \in after : Prepends(k, r, i)
    BY <1>9
  <2>2. i \in 1..Len(t.segs) /\ StartsAfter(t.segs[i], r)
    BY <1>2, <1>3
  <2> QED BY <2>1, <2>2, PrependsTake, Zenon
<1> QED BY <1>4, <1>5, <1>6, <1>7, <1>8, <1>9

-----------------------------------------------------------------------------
(* The whole list: its records and samples are those that were added.      *)
EntryRecords == [t \in Entry |-> Weight(RecordCount, t.segs)]
EntrySamples == [t \in Entry |-> Weight(SampleCount, t.segs)]

Written == [sid : Int, version : Nat, start : Int, samples : Seq(Int)]
WrittenSamples == [w \in Written |-> Len(w.samples)]

LEMMA EntryCountsAre ==
  /\ EntryRecords \in [Entry -> Int] /\ EntrySamples \in [Entry -> Int]
  /\ \A t \in Entry : EntryRecords[t] = Weight(RecordCount, t.segs) /\ EntrySamples[t] = Weight(SampleCount, t.segs)
<1>1. ASSUME NEW t \in Entry PROVE Weight(RecordCount, t.segs) \in Int /\ Weight(SampleCount, t.segs) \in Int
  <2>1. t.segs \in Seq(Segment) /\ RecordCount \in [Segment -> Int] /\ SampleCount \in [Segment -> Int]
    BY EntriesAre, CountsAre
  <2> QED BY <2>1, WeightInt
<1>2. /\ \A t \in Entry : Weight(RecordCount, t.segs) \in Int
      /\ \A t \in Entry : Weight(SampleCount, t.segs) \in Int
  BY <1>1
<1>3. EntryRecords \in [Entry -> Int] /\ \A t \in Entry : EntryRecords[t] = Weight(RecordCount, t.segs)
  BY <1>2, Zenon DEF EntryRecords
<1>4. EntrySamples \in [Entry -> Int] /\ \A t \in Entry : EntrySamples[t] = Weight(SampleCount, t.segs)
  BY <1>2, Zenon DEF EntrySamples
<1> QED BY <1>3, <1>4, Zenon

LEMMA WrittenCountsAre ==
  WrittenSamples \in [Written -> Int] /\ \A w \in Written : WrittenSamples[w] = Len(w.samples) /\ Len(w.samples) \in Nat
<1>1. ASSUME NEW w \in Written PROVE Len(w.samples) \in Nat
  BY DEF Written
<1> QED BY <1>1 DEF WrittenSamples

AddedOf(ts, sid) == UNION {Of(ts[k].segs) : k \in {k \in DOMAIN ts : ts[k].sid = sid}}

Punctual(w, R, n) ==
  Even(R) => \A r \in R : \A j \in DOMAIN w.samples :
               Near(w.samples[j], w.start + (j - 1) * r.period, n * Tolerance(r))

FollowInv ==
  /\ written \in Seq(Written) /\ adds \in Nat /\ (flushed => altered)
  /\ \A k \in 1..Len(traces) : SegmentsInv(traces[k].segs, altered, flushed)
  /\ Weight(EntryRecords, traces) = adds
  /\ taken = Weight(WrittenSamples, written) + Weight(EntrySamples, traces)
  /\ \A w \in Range(written) :
       /\ AddedOf(traces, w.sid) # {}
       /\ ~flushed => Punctual(w, AddedOf(traces, w.sid), adds)

LEMMA AddedOfIs ==
  ASSUME NEW ts \in Seq(Entry), NEW sid
  PROVE  /\ AddedOf(ts, sid) = UNION {Of(t.segs) : t \in {t \in Range(ts) : t.sid = sid}}
         /\ AddedOf(ts, sid) \subseteq Records
<1>1. DOMAIN ts = 1..Len(ts) /\ \A e : e \in Range(ts) <=> \E p \in 1..Len(ts) : e = ts[p]
  BY RangeIs
<1>2. AddedOf(ts, sid) = UNION {Of(t.segs) : t \in {t \in Range(ts) : t.sid = sid}}
  BY <1>1 DEF AddedOf
<1>3. \A t \in Range(ts) : Of(t.segs) \subseteq Records
  <2> TAKE t \in Range(ts)
  <2>1. t \in Entry
    BY <1>1
  <2>2. t.segs \in Seq(Segment)
    BY <2>1, EntriesAre
  <2> QED BY <2>2, OfIs
<1> QED BY <1>2, <1>3

LEMMA AddedOfGains ==
  ASSUME NEW ts \in Seq(Entry), NEW k \in 1..Len(ts), NEW u \in Entry, NEW r, u.sid = ts[k].sid,
         Of(u.segs) = Of(ts[k].segs) \cup {r}, NEW sid
  PROVE  AddedOf([ts EXCEPT ![k] = u], sid) \in {AddedOf(ts, sid), AddedOf(ts, sid) \cup {r}}
<1> DEFINE t == ts[k]
           us == [ts EXCEPT ![k] = u]
<1>1. t \in Range(ts)
  BY RangeIs
<1>2. us \in Seq(Entry) /\ Range(us) \subseteq Range(ts) \cup {u} /\ u \in Range(us) /\ Range(ts) \subseteq Range(us) \cup {t}
  BY Changed
<1>3. u.sid = t.sid /\ Of(u.segs) = Of(t.segs) \cup {r}
  OBVIOUS
<1> HIDE DEF t, us
<1>4. /\ AddedOf(ts, sid) = UNION {Of(e.segs) : e \in {e \in Range(ts) : e.sid = sid}}
      /\ AddedOf(us, sid) = UNION {Of(e.segs) : e \in {e \in Range(us) : e.sid = sid}}
  BY <1>2, AddedOfIs
<1>5. AddedOf(ts, sid) \subseteq AddedOf(us, sid)
  BY <1>1, <1>2, <1>3, <1>4
<1>6. AddedOf(us, sid) \subseteq AddedOf(ts, sid) \cup {r}
  BY <1>1, <1>2, <1>3, <1>4
<1>7. AddedOf(us, sid) = AddedOf(ts, sid) \/ AddedOf(us, sid) = AddedOf(ts, sid) \cup {r}
  BY <1>5, <1>6
<1> QED BY <1>7 DEF us

LEMMA AddedOfNew ==
  ASSUME NEW ts \in Seq(Entry), NEW c \in 1..(Len(ts) + 1), NEW u \in Entry, NEW r, Of(u.segs) = {r}, NEW sid
  PROVE  AddedOf(InsertAt(ts, c, u), sid) \in {AddedOf(ts, sid), AddedOf(ts, sid) \cup {r}}
<1> DEFINE us == InsertAt(ts, c, u)
<1>1. us \in Seq(Entry)
  BY PutIn
<1>2. Range(us) = Range(ts) \cup {u}
  BY RangePutIn
<1> HIDE DEF us
<1>3. /\ AddedOf(ts, sid) = UNION {Of(e.segs) : e \in {e \in Range(ts) : e.sid = sid}}
      /\ AddedOf(us, sid) = UNION {Of(e.segs) : e \in {e \in Range(us) : e.sid = sid}}
  BY <1>1, AddedOfIs
<1>4. AddedOf(ts, sid) \subseteq AddedOf(us, sid) /\ AddedOf(us, sid) \subseteq AddedOf(ts, sid) \cup {r}
  BY <1>2, <1>3
<1>5. AddedOf(us, sid) = AddedOf(ts, sid) \/ AddedOf(us, sid) = AddedOf(ts, sid) \cup {r}
  BY <1>4
<1> QED BY <1>5 DEF us

LEMMA PunctualGrows ==
  ASSUME NEW w \in Written, NEW R \in SUBSET Records, R # {}, NEW r \in Records, NEW R2 \in {R, R \cup {r}},
         NEW n \in Nat, Punctual(w, R, n)
  PROVE  Punctual(w, R2, n + 1)
<1> SUFFICES ASSUME Even(R2), NEW q \in R2, NEW j \in DOMAIN w.samples
             PROVE  Near(w.samples[j], w.start + (j - 1) * q.period, (n + 1) * Tolerance(q))
  BY Zenon DEF Punctual
<1>1. Even(R)
  BY DEF Even
<1>2. PICK s \in R : TRUE
  OBVIOUS
<1>3. q.period = s.period /\ q \in Records /\ s \in Records
  BY <1>2 DEF Even
<1>4. Near(w.samples[j], w.start + (j - 1) * s.period, n * Tolerance(s))
  BY <1>1, <1>2, Zenon DEF Punctual
<1>5. Tolerance(q) = Tolerance(s)
  BY <1>3 DEF Tolerance
<1>6. w.start \in Int /\ w.samples[j] \in Int /\ j \in Int
  BY DEF Written
<1>7. s.period \in Nat /\ Tolerance(s) \in Nat
  <2>1. s.period \in Nat \ {0}
    BY <1>3, RecordsAre
  <2> QED BY <2>1 DEF Tolerance
<1> DEFINE y == w.start + (j - 1) * s.period
           d == n * Tolerance(s)
           x == w.samples[j]
<1>8. y \in Int /\ x \in Int /\ d \in Nat /\ (n + 1) * Tolerance(s) = d + Tolerance(s)
  BY <1>6, <1>7
<1>9. Near(x, y, d)
  BY <1>4
<1> HIDE DEF x, y, d
<1>10. Near(x, y, d + Tolerance(s))
  BY <1>7, <1>8, <1>9 DEF Near
<1> QED BY <1>3, <1>5, <1>8, <1>10, Zenon DEF x, y

LEMMA WrittenFollows ==
  ASSUME written \in Seq(Written), traces \in Seq(Entry), traces' \in Seq(Entry), adds \in Nat, NEW r \in Records,
         \A sid : AddedOf(traces', sid) \in {AddedOf(traces, sid), AddedOf(traces, sid) \cup {r}},
         UNCHANGED <<written, flushed>>, adds' = adds + 1,
         \A w \in Range(written) : /\ AddedOf(traces, w.sid) # {}
                                   /\ ~flushed => Punctual(w, AddedOf(traces, w.sid), adds)
  PROVE  \A w \in Range(written') : /\ AddedOf(traces', w.sid) # {}
                                    /\ ~flushed' => Punctual(w, AddedOf(traces', w.sid), adds')
<1> SUFFICES ASSUME NEW w \in Range(written)
             PROVE  /\ AddedOf(traces', w.sid) # {}
                    /\ ~flushed => Punctual(w, AddedOf(traces', w.sid), adds + 1)
  OBVIOUS
<1> DEFINE R == AddedOf(traces, w.sid)
           R2 == AddedOf(traces', w.sid)
<1>1. w \in Written
  BY RangeIs
<1>2. R \in SUBSET Records
  BY AddedOfIs
<1>3. R # {} /\ R2 \in {R, R \cup {r}} /\ (~flushed => Punctual(w, R, adds))
  OBVIOUS
<1> HIDE DEF R, R2
<1>4. R2 # {}
  BY <1>3
<1>5. ~flushed => Punctual(w, R2, adds + 1)
  BY <1>1, <1>2, <1>3, PunctualGrows, Zenon
<1> QED BY <1>4, <1>5 DEF R2

LEMMA FreshFollows ==
  ASSUME NEW r \in Records, NEW alt, NEW fl
  PROVE  /\ SegmentsInv(Fresh(r).segs, alt, fl) /\ Of(Fresh(r).segs) = {r}
         /\ EntryRecords[Fresh(r)] = 1 /\ EntrySamples[Fresh(r)] = Len(Decoded(r))
<1> DEFINE x == mstl3_msr2seg(r)
           u == Fresh(r)
<1>1. x \in Segment /\ x.recs = <<r>> /\ Range(x.recs) = {r} /\ x.samples = Decoded(r)
  BY OneRecord
<1>2. SegmentInv(x, alt, fl)
  BY OneInv
<1>3. u \in Entry /\ u.segs = <<x>>
  <2>1. u \in Entry
    BY FreshIs
  <2> QED BY <2>1 DEF Fresh
<1> HIDE DEF x, u
<1>4. <<x>> \in Seq(Segment) /\ Range(<<x>>) = {x}
  BY <1>1, RangeOne
<1>5. Of(<<x>>) = {r}
  <2>1. Of(<<x>>) = UNION {Range(y.recs) : y \in Range(<<x>>)}
    BY <1>4, OfIs, Zenon
  <2> QED BY <1>1, <1>4, <2>1
<1>6. RecordCount \in [Segment -> Int] /\ SampleCount \in [Segment -> Int]
  BY CountsAre
<1>7. RecordCount[x] = 1 /\ SampleCount[x] = Len(Decoded(r))
  BY <1>1, CountsAre
<1>8. Weight(RecordCount, <<x>>) = RecordCount[x] /\ Weight(SampleCount, <<x>>) = SampleCount[x]
  BY <1>1, <1>6, WeightOne, Zenon
<1>9. EntryRecords[u] = Weight(RecordCount, u.segs) /\ EntrySamples[u] = Weight(SampleCount, u.segs)
  BY <1>3, EntryCountsAre
<1>10. SegmentsInv(<<x>>, alt, fl)
  BY <1>2, <1>4 DEF SegmentsInv
<1> QED BY <1>3, <1>5, <1>7, <1>8, <1>9, <1>10, Zenon DEF u

(* A record is added.                                                      *)
LEMMA NewEntryFollows ==
  ASSUME TraceInv, FollowInv, NEW r \in Records, NEW c \in 1..(Len(traces) + 1),
         traces' = InsertAt(traces, c, Fresh(r)), Counts(r), UNCHANGED <<heal, split, listed, written, packs, flushed, altered>>
  PROVE  FollowInv'
<1> DEFINE u == Fresh(r)
           ts == InsertAt(traces, c, u)
<1>1. traces \in Seq(Entry) /\ u \in Entry
  BY FreshIs DEF TraceInv, ListInv
<1>2. /\ SegmentsInv(u.segs, altered, flushed) /\ Of(u.segs) = {r}
      /\ EntryRecords[u] = 1 /\ EntrySamples[u] = Len(Decoded(r))
  BY FreshFollows, Zenon
<1> HIDE DEF u
<1>3. ts \in Seq(Entry) /\ Range(ts) = Range(traces) \cup {u}
  <2>1. ts \in Seq(Entry)
    BY <1>1, PutIn
  <2>2. Range(ts) = Range(traces) \cup {u}
    BY <1>1, RangePutIn
  <2> QED BY <2>1, <2>2
<1>4. traces' = ts
  BY DEF u
<1>5. \A sid : AddedOf(ts, sid) \in {AddedOf(traces, sid), AddedOf(traces, sid) \cup {r}}
  BY <1>1, <1>2, AddedOfNew, Zenon
<1>6. Weight(EntryRecords, ts) = Weight(EntryRecords, traces) + EntryRecords[u]
  <2>1. EntryRecords \in [Entry -> Int]
    BY EntryCountsAre
  <2> QED BY <1>1, <2>1, WeightPutIn, Zenon
<1>7. Weight(EntrySamples, ts) = Weight(EntrySamples, traces) + EntrySamples[u]
  <2>1. EntrySamples \in [Entry -> Int]
    BY EntryCountsAre
  <2> QED BY <1>1, <2>1, WeightPutIn, Zenon
<1> HIDE DEF ts
<1>8. /\ written \in Seq(Written) /\ adds \in Nat /\ (flushed => altered)
      /\ \A k \in 1..Len(traces) : SegmentsInv(traces[k].segs, altered, flushed)
      /\ Weight(EntryRecords, traces) = adds
      /\ taken = Weight(WrittenSamples, written) + Weight(EntrySamples, traces)
      /\ \A w \in Range(written) :
           /\ AddedOf(traces, w.sid) # {}
           /\ ~flushed => Punctual(w, AddedOf(traces, w.sid), adds)
  BY Zenon DEF FollowInv
<1>9. adds' = adds + 1 /\ taken' = taken + Len(Decoded(r))
  BY DEF Counts
<1>10. \A k \in 1..Len(ts) : SegmentsInv(ts[k].segs, altered, flushed)
  <2>1. \A e : e \in Range(ts) <=> \E p \in 1..Len(ts) : e = ts[p]
    BY <1>3, RangeIs
  <2>2. \A e : e \in Range(traces) <=> \E p \in 1..Len(traces) : e = traces[p]
    BY <1>1, RangeIs
  <2> QED BY <1>2, <1>3, <1>8, <2>1, <2>2
<1>11. \A w \in Range(written') : /\ AddedOf(traces', w.sid) # {}
                                  /\ ~flushed' => Punctual(w, AddedOf(traces', w.sid), adds')
  <2>1. /\ \A sid : AddedOf(traces', sid) \in {AddedOf(traces, sid), AddedOf(traces, sid) \cup {r}}
        /\ traces' \in Seq(Entry)
    BY <1>3, <1>4, <1>5
  <2>2. UNCHANGED <<written, flushed>>
    OBVIOUS
  <2> QED BY <1>1, <1>8, <1>9, <2>1, <2>2, WrittenFollows, Zenon
<1>12. Weight(EntrySamples, traces) \in Int /\ Weight(WrittenSamples, written) \in Int
  BY <1>1, <1>8, EntryCountsAre, WrittenCountsAre, WeightInt
<1>13. Len(Decoded(r)) \in Int
  BY RecordsAre
<1>14. Weight(EntryRecords, ts) = adds + 1
  BY <1>2, <1>6, <1>8
<1>15. taken' = Weight(WrittenSamples, written) + Weight(EntrySamples, ts)
  BY <1>2, <1>7, <1>8, <1>9, <1>12, <1>13
<1>16. adds + 1 \in Nat
  BY <1>8
<1> QED BY <1>4, <1>8, <1>9, <1>10, <1>11, <1>14, <1>15, <1>16 DEF FollowInv

LEMMA TakenFollows ==
  ASSUME TraceInv, FollowInv, NEW r \in Records, NEW k \in DOMAIN traces, Taken(k, r),
         UNCHANGED <<heal, split, listed, written, packs, flushed, altered>>
  PROVE  FollowInv'
<1>0. /\ written \in Seq(Written) /\ adds \in Nat /\ (flushed => altered)
      /\ \A j \in 1..Len(traces) : SegmentsInv(traces[j].segs, altered, flushed)
      /\ Weight(EntryRecords, traces) = adds
      /\ taken = Weight(WrittenSamples, written) + Weight(EntrySamples, traces)
      /\ \A w \in Range(written) :
           /\ AddedOf(traces, w.sid) # {}
           /\ ~flushed => Punctual(w, AddedOf(traces, w.sid), adds)
  BY Zenon DEF FollowInv
<1>1. CASE UNCHANGED <<traces, adds, taken>>
  BY <1>1 DEF FollowInv
<1>2. CASE /\ Counts(r)
           /\ \E u \in Entry : traces' = [traces EXCEPT ![k] = u] /\ EntryGains(u, traces[k], r, altered, flushed)
  <2>1. PICK u \in Entry : traces' = [traces EXCEPT ![k] = u] /\ EntryGains(u, traces[k], r, altered, flushed)
    BY <1>2
  <2> DEFINE t == traces[k]
             ts == [traces EXCEPT ![k] = u]
  <2>2. traces \in Seq(Entry) /\ t \in Entry /\ k \in 1..Len(traces)
    BY DEF TraceInv, ListInv
  <2>3. /\ u.sid = t.sid /\ Of(u.segs) = Of(t.segs) \cup {r}
        /\ Weight(RecordCount, u.segs) = Weight(RecordCount, t.segs) + 1
        /\ Weight(SampleCount, u.segs) = Weight(SampleCount, t.segs) + Len(Decoded(r))
        /\ SegmentsInv(t.segs, altered, flushed) => SegmentsInv(u.segs, altered, flushed)
    BY <2>1, Zenon DEF EntryGains, Gains
  <2>4. ts \in Seq(Entry) /\ Len(ts) = Len(traces) /\ ts[k] = u /\ \A p \in 1..Len(traces) : p # k => ts[p] = traces[p]
    BY <2>2, Changed
  <2>5. \A sid : AddedOf(ts, sid) \in {AddedOf(traces, sid), AddedOf(traces, sid) \cup {r}}
    BY <2>2, <2>3, AddedOfGains, Zenon
  <2>6. Weight(EntryRecords, ts) = Weight(EntryRecords, traces) - EntryRecords[t] + EntryRecords[u]
    <3>1. EntryRecords \in [Entry -> Int]
      BY EntryCountsAre
    <3> QED BY <2>2, <3>1, WeightChanged, Zenon
  <2>7. Weight(EntrySamples, ts) = Weight(EntrySamples, traces) - EntrySamples[t] + EntrySamples[u]
    <3>1. EntrySamples \in [Entry -> Int]
      BY EntryCountsAre
    <3> QED BY <2>2, <3>1, WeightChanged, Zenon
  <2>8. traces' = ts
    BY <2>1
  <2>9. SegmentsInv(t.segs, altered, flushed)
    BY <1>0, <2>2
  <2> HIDE DEF t, ts
  <2>10. adds' = adds + 1 /\ taken' = taken + Len(Decoded(r))
    BY <1>2 DEF Counts
  <2>11. /\ EntryRecords[t] \in Int /\ EntrySamples[t] \in Int /\ Len(Decoded(r)) \in Int
         /\ EntryRecords[u] = EntryRecords[t] + 1 /\ EntrySamples[u] = EntrySamples[t] + Len(Decoded(r))
    BY <2>2, <2>3, EntryCountsAre, RecordsAre
  <2>12. Weight(EntrySamples, traces) \in Int /\ Weight(WrittenSamples, written) \in Int
    BY <1>0, <2>2, EntryCountsAre, WrittenCountsAre, WeightInt
  <2>13. Weight(EntryRecords, ts) = adds + 1
    BY <1>0, <2>6, <2>11
  <2>14. taken' = Weight(WrittenSamples, written) + Weight(EntrySamples, ts)
    BY <1>0, <2>7, <2>10, <2>11, <2>12
  <2>15. \A j \in 1..Len(ts) : SegmentsInv(ts[j].segs, altered, flushed)
    BY <1>0, <2>3, <2>4, <2>9
  <2>16. \A w \in Range(written') : /\ AddedOf(traces', w.sid) # {}
                                    /\ ~flushed' => Punctual(w, AddedOf(traces', w.sid), adds')
    <3>1. /\ \A sid : AddedOf(traces', sid) \in {AddedOf(traces, sid), AddedOf(traces, sid) \cup {r}}
          /\ traces' \in Seq(Entry)
      BY <2>4, <2>5, <2>8
    <3>2. UNCHANGED <<written, flushed>>
      OBVIOUS
    <3> QED BY <1>0, <2>2, <2>10, <3>1, <3>2, WrittenFollows, Zenon
  <2>17. adds + 1 \in Nat
    BY <1>0
  <2> QED BY <1>0, <2>8, <2>10, <2>13, <2>14, <2>15, <2>16, <2>17 DEF FollowInv
<1> QED BY <1>1, <1>2 DEF Taken

LEMMA AddsFollow ==
  ASSUME TraceInv, FollowInv, mstl3_addmsr
  PROVE  FollowInv'
<1>1. UNCHANGED <<heal, split, listed, written, packs, flushed, altered>>
  BY DEF mstl3_addmsr
<1>2. PICK r \in Records :
        \/ mstl3_addID(r) /\ Counts(r)
        \/ \E k \in mstl3_findID(r.sid, IF split THEN r.version ELSE 0) : Simple(k, r) \/ Searches(k, r)
  BY Zenon DEF mstl3_addmsr
<1>3. traces \in Seq(Entry)
  BY DEF TraceInv, ListInv
<1>4. CASE mstl3_addID(r) /\ Counts(r)
  <2> DEFINE version == IF split THEN r.version ELSE 0
             lower == {k \in DOMAIN traces :
                       traces[k].sid < r.sid \/ (traces[k].sid = r.sid /\ traces[k].pubversion < version)}
  <2>1. traces' = InsertAt(traces, Cardinality(lower) + 1, Fresh(r))
    BY <1>4, Zenon DEF mstl3_addID, Fresh
  <2>2. lower \subseteq 1..Len(traces) /\ Len(traces) \in Nat
    BY <1>3
  <2> HIDE DEF lower
  <2>3. IsFiniteSet(1..Len(traces)) /\ Cardinality(1..Len(traces)) = Len(traces)
    <3>1. /\ IsFiniteSet(1..Len(traces))
          /\ Cardinality(1..Len(traces)) = IF 1 > Len(traces) THEN 0 ELSE Len(traces) - 1 + 1
      BY <2>2, FS_Interval
    <3> QED BY <2>2, <3>1
  <2>4. IsFiniteSet(lower) /\ Cardinality(lower) <= Len(traces)
    BY <2>2, <2>3, FS_Subset
  <2>5. Cardinality(lower) \in Nat
    BY <2>4, FS_CardinalityType
  <2>6. Cardinality(lower) + 1 \in 1..(Len(traces) + 1)
    BY <2>2, <2>4, <2>5
  <2> QED BY <1>1, <1>4, <2>1, <2>6, NewEntryFollows, Zenon
<1>5. CASE \E k \in mstl3_findID(r.sid, IF split THEN r.version ELSE 0) : Simple(k, r) \/ Searches(k, r)
  <2>1. PICK k \in DOMAIN traces : Simple(k, r) \/ Searches(k, r)
    BY <1>5, Zenon DEF mstl3_findID
  <2>2. Taken(k, r)
    BY <1>3, <2>1, SimpleTakes, SearchesTake, Zenon
  <2> QED BY <1>1, <2>2, TakenFollows, Zenon
<1> QED BY <1>2, <1>4, <1>5

-----------------------------------------------------------------------------
(* A segment is unpacked or converted: its records stay.                   *)
LEMMA WithFollows ==
  ASSUME NEW t \in Entry, NEW i \in 1..Len(t.segs), NEW y \in Segment, y.recs = t.segs[i].recs,
         NEW alt, NEW fl, NEW alt2, SegmentsInv(t.segs, alt, fl),
         \A x \in Segment : SegmentInv(x, alt, fl) => SegmentInv(x, alt2, fl),
         SegmentInv(y, alt2, fl)
  PROVE  LET u == With(t, i, y)
         IN  /\ u \in Entry /\ u.sid = t.sid /\ Of(u.segs) = Of(t.segs) /\ SegmentsInv(u.segs, alt2, fl)
             /\ EntryRecords[u] = EntryRecords[t]
             /\ EntrySamples[u] = EntrySamples[t] - Len(t.segs[i].samples) + Len(y.samples)
<1> DEFINE s == t.segs
           x == s[i]
           w == [s EXCEPT ![i] = y]
           u == With(t, i, y)
<1>1. s \in Seq(Segment) /\ x \in Segment /\ x \in Range(s)
  <2>1. s \in Seq(Segment)
    BY EntriesAre
  <2> QED BY <2>1, RangeIs
<1>2. u \in Entry /\ u.sid = t.sid
  BY WithIs
<1>3. u.segs = w
  BY DEF With, Entry
<1>4. i \in 1..Len(s) /\ y.recs = x.recs
  OBVIOUS
<1> HIDE DEF s, u
<1>5. /\ w \in Seq(Segment)
      /\ Range(w) \subseteq Range(s) \cup {y} /\ y \in Range(w) /\ Range(s) \subseteq Range(w) \cup {x}
  BY <1>1, <1>4, Changed
<1>6. Of(w) = Of(s)
  <2>1. /\ Of(w) = UNION {Range(z.recs) : z \in Range(w)}
        /\ Of(s) = UNION {Range(z.recs) : z \in Range(s)}
    BY <1>1, <1>5, OfIs, Zenon
  <2> HIDE DEF w, x
  <2> QED BY <1>1, <1>4, <1>5, <2>1
<1>7. Weight(RecordCount, w) = Weight(RecordCount, s) - RecordCount[x] + RecordCount[y]
  <2>1. RecordCount \in [Segment -> Int]
    BY CountsAre
  <2> QED BY <1>1, <1>4, <2>1, WeightChanged, ZenonT(30)
<1>8. Weight(SampleCount, w) = Weight(SampleCount, s) - SampleCount[x] + SampleCount[y]
  <2>1. SampleCount \in [Segment -> Int]
    BY CountsAre
  <2> QED BY <1>1, <1>4, <2>1, WeightChanged, ZenonT(30)
<1>9. Weight(RecordCount, s) \in Int
  BY <1>1, CountsAre, WeightInt
<1>10. SegmentsInv(s, alt, fl)
  BY DEF s
<1> HIDE DEF w, x
<1>11. /\ RecordCount[x] = Len(x.recs) /\ RecordCount[y] = Len(y.recs) /\ Len(x.recs) \in Int
       /\ SampleCount[x] = Len(x.samples) /\ SampleCount[y] = Len(y.samples)
  BY <1>1, CountsAre
<1>12. SegmentsInv(w, alt2, fl)
  <2>1. \A z \in Range(s) : z \in Segment
    BY <1>1, RangeIs
  <2> QED BY <1>5, <1>10, <2>1 DEF SegmentsInv
<1>13. Weight(RecordCount, w) = Weight(RecordCount, s)
  BY <1>4, <1>7, <1>9, <1>11
<1>14. Weight(SampleCount, w) = Weight(SampleCount, s) - Len(x.samples) + Len(y.samples)
  BY <1>8, <1>11, Zenon
<1>15. /\ EntryRecords[u] = Weight(RecordCount, w) /\ EntrySamples[u] = Weight(SampleCount, w)
       /\ EntryRecords[t] = Weight(RecordCount, s) /\ EntrySamples[t] = Weight(SampleCount, s)
  BY <1>2, <1>3, EntryCountsAre DEF s
<1> QED BY <1>2, <1>3, <1>6, <1>12, <1>13, <1>14, <1>15, Zenon DEF u, x, s

LEMMA AddedOfSame ==
  ASSUME NEW ts \in Seq(Entry), NEW us \in Seq(Entry), Len(us) = Len(ts),
         \A k \in 1..Len(ts) : us[k].sid = ts[k].sid /\ Of(us[k].segs) = Of(ts[k].segs), NEW sid
  PROVE  AddedOf(us, sid) = AddedOf(ts, sid)
<1>1. DOMAIN us = 1..Len(ts) /\ DOMAIN ts = 1..Len(ts)
  OBVIOUS
<1> QED BY <1>1 DEF AddedOf

(* The sums as they are written in the model.                              *)
LEMMA TallyIs ==
  ASSUME NEW ts \in Seq(Entry)
  PROVE  /\ Weight(EntryRecords, ts) =
              Total([k \in DOMAIN ts |-> Total([i \in DOMAIN ts[k].segs |-> Len(ts[k].segs[i].recs)])])
         /\ Weight(EntrySamples, ts) =
              Total([k \in DOMAIN ts |-> Total([i \in DOMAIN ts[k].segs |-> Len(ts[k].segs[i].samples)])])
<1>1. ASSUME NEW k \in DOMAIN ts
      PROVE  /\ EntryRecords[ts[k]] = Total([i \in DOMAIN ts[k].segs |-> Len(ts[k].segs[i].recs)])
             /\ EntrySamples[ts[k]] = Total([i \in DOMAIN ts[k].segs |-> Len(ts[k].segs[i].samples)])
  <2> DEFINE t == ts[k]
  <2>1. t \in Entry
    OBVIOUS
  <2> HIDE DEF t
  <2>2. t.segs \in Seq(Segment)
    BY <2>1, EntriesAre
  <2>3. \A i \in DOMAIN t.segs : t.segs[i] \in Segment
    BY <2>2
  <2>4. \A i \in DOMAIN t.segs : /\ RecordCount[t.segs[i]] = Len(t.segs[i].recs)
                                 /\ SampleCount[t.segs[i]] = Len(t.segs[i].samples)
    BY <2>3, CountsAre
  <2>5. /\ Weights(RecordCount, t.segs) = [i \in DOMAIN t.segs |-> Len(t.segs[i].recs)]
        /\ Weights(SampleCount, t.segs) = [i \in DOMAIN t.segs |-> Len(t.segs[i].samples)]
    BY <2>4, Zenon DEF Weights
  <2>6. EntryRecords[t] = Weight(RecordCount, t.segs) /\ EntrySamples[t] = Weight(SampleCount, t.segs)
    BY <2>1, EntryCountsAre
  <2>7. /\ EntryRecords[t] = Total([i \in DOMAIN t.segs |-> Len(t.segs[i].recs)])
        /\ EntrySamples[t] = Total([i \in DOMAIN t.segs |-> Len(t.segs[i].samples)])
    BY <2>5, <2>6, Zenon DEF Weight
  <2> QED BY <2>7, Zenon DEF t
<1>2. /\ Weights(EntryRecords, ts) =
           [k \in DOMAIN ts |-> Total([i \in DOMAIN ts[k].segs |-> Len(ts[k].segs[i].recs)])]
      /\ Weights(EntrySamples, ts) =
           [k \in DOMAIN ts |-> Total([i \in DOMAIN ts[k].segs |-> Len(ts[k].segs[i].samples)])]
  BY <1>1, Zenon DEF Weights
<1> QED BY <1>2, Zenon DEF Weight

LEMMA WrittenTallyIs ==
  ASSUME NEW ws \in Seq(Written)
  PROVE  Weight(WrittenSamples, ws) = Total([i \in DOMAIN ws |-> Len(ws[i].samples)])
<1>1. \A i \in DOMAIN ws : ws[i] \in Written
  OBVIOUS
<1>2. \A i \in DOMAIN ws : WrittenSamples[ws[i]] = Len(ws[i].samples)
  BY <1>1, WrittenCountsAre
<1>3. Weights(WrittenSamples, ws) = [i \in DOMAIN ws |-> Len(ws[i].samples)]
  BY <1>2, Zenon DEF Weights
<1> QED BY <1>3, Zenon DEF Weight

LEMMA OneFollows ==
  ASSUME TraceInv, FollowInv, NEW k \in DOMAIN traces, NEW i \in 1..Len(traces[k].segs), NEW y \in Segment,
         y.recs = traces[k].segs[i].recs, traces' = [traces EXCEPT ![k] = With(traces[k], i, y)],
         UNCHANGED <<written, adds, flushed>>, altered' \in {altered, TRUE},
         SegmentInv(y, altered', flushed)
  PROVE  /\ traces' \in Seq(Entry)
         /\ Weight(EntrySamples, traces') =
              Weight(EntrySamples, traces) - Len(traces[k].segs[i].samples) + Len(y.samples)
         /\ taken' = Weight(WrittenSamples, written) + Weight(EntrySamples, traces') => FollowInv'
<1>0. /\ written \in Seq(Written) /\ adds \in Nat /\ (flushed => altered)
      /\ \A j \in 1..Len(traces) : SegmentsInv(traces[j].segs, altered, flushed)
      /\ Weight(EntryRecords, traces) = adds
      /\ \A w \in Range(written) :
           /\ AddedOf(traces, w.sid) # {}
           /\ ~flushed => Punctual(w, AddedOf(traces, w.sid), adds)
  BY Zenon DEF FollowInv
<1> DEFINE t == traces[k]
           u == With(t, i, y)
           ts == [traces EXCEPT ![k] = u]
<1>1. traces \in Seq(Entry) /\ t \in Entry /\ k \in 1..Len(traces)
  BY DEF TraceInv, ListInv
<1>2. \A x \in Segment : SegmentInv(x, altered, flushed) => SegmentInv(x, altered', flushed)
  <2>1. CASE altered' = altered
    BY <2>1
  <2>2. CASE altered' = TRUE
    BY <2>2, Zenon DEF SegmentInv
  <2> QED BY <2>1, <2>2
<1>3. SegmentsInv(t.segs, altered, flushed)
  BY <1>0, <1>1
<1>4. /\ u \in Entry /\ u.sid = t.sid /\ Of(u.segs) = Of(t.segs) /\ SegmentsInv(u.segs, altered', flushed)
      /\ EntryRecords[u] = EntryRecords[t]
      /\ EntrySamples[u] = EntrySamples[t] - Len(t.segs[i].samples) + Len(y.samples)
  BY <1>1, <1>2, <1>3, WithFollows, Zenon
<1>5. Len(t.segs[i].samples) \in Int
  <2>1. t.segs[i] \in Segment
    BY <1>1, EntriesAre
  <2> QED BY <2>1, SegmentsAre
<1>6. traces' = ts
  OBVIOUS
<1> HIDE DEF u
<1>7. ts \in Seq(Entry) /\ Len(ts) = Len(traces) /\ ts[k] = u /\ \A p \in 1..Len(traces) : p # k => ts[p] = traces[p]
  BY <1>1, <1>4, Changed
<1>8. Weight(EntryRecords, ts) = Weight(EntryRecords, traces) - EntryRecords[t] + EntryRecords[u]
  <2>1. EntryRecords \in [Entry -> Int]
    BY EntryCountsAre
  <2>2. traces \in Seq(Entry) /\ u \in Entry /\ k \in 1..Len(traces)
    BY <1>1, <1>4
  <2> QED BY <2>1, <2>2, WeightChanged, Zenon
<1>9. Weight(EntrySamples, ts) = Weight(EntrySamples, traces) - EntrySamples[t] + EntrySamples[u]
  <2>1. EntrySamples \in [Entry -> Int]
    BY EntryCountsAre
  <2>2. traces \in Seq(Entry) /\ u \in Entry /\ k \in 1..Len(traces)
    BY <1>1, <1>4
  <2> QED BY <2>1, <2>2, WeightChanged, Zenon
<1> HIDE DEF ts
<1>10. \A p \in 1..Len(traces) : ts[p].sid = traces[p].sid /\ Of(ts[p].segs) = Of(traces[p].segs)
  BY <1>4, <1>7
<1>11. \A sid : AddedOf(ts, sid) = AddedOf(traces, sid)
  BY <1>1, <1>7, <1>10, AddedOfSame, Zenon
<1>12. \A j \in 1..Len(ts) : SegmentsInv(ts[j].segs, altered', flushed)
  <2>1. \A p \in 1..Len(traces) : SegmentsInv(traces[p].segs, altered', flushed)
    <3> TAKE p \in 1..Len(traces)
    <3>1. SegmentsInv(traces[p].segs, altered, flushed) /\ traces[p] \in Entry
      BY <1>0, <1>1
    <3>2. \A x \in Range(traces[p].segs) : x \in Segment
      BY <3>1, EntriesAre
    <3> QED BY <1>2, <3>1, <3>2 DEF SegmentsInv
  <2> QED BY <1>4, <1>7, <2>1
<1>13. /\ EntryRecords[t] \in Int /\ EntrySamples[t] \in Int /\ Weight(EntrySamples, traces) \in Int
  BY <1>1, EntryCountsAre, WeightInt
<1>14. Weight(EntryRecords, ts) = adds
  BY <1>0, <1>4, <1>8, <1>13
<1>15. Weight(EntrySamples, ts) = Weight(EntrySamples, traces) - Len(t.segs[i].samples) + Len(y.samples)
  <2>1. Len(y.samples) \in Int
    BY SegmentsAre
  <2> QED BY <1>4, <1>5, <1>9, <1>13, <2>1
<1>16. flushed' => altered'
  BY <1>0
<1>17. ASSUME taken' = Weight(WrittenSamples, written) + Weight(EntrySamples, traces') PROVE FollowInv'
  BY <1>0, <1>6, <1>11, <1>12, <1>14, <1>16, <1>17 DEF FollowInv
<1> QED BY <1>6, <1>7, <1>15, <1>17 DEF t

LEMMA UnpackedInv ==
  ASSUME NEW x \in Segment, NEW alt, NEW fl, SegmentInv(x, alt, fl), fl => alt
  PROVE  SegmentInv(Unpacked(x), alt, fl)
<1> DEFINE y == Unpacked(x)
<1>1. y.start = x.start /\ y.end = x.end /\ y.period = x.period /\ y.recs = x.recs
  BY UnpackedIs
<1>2. x.samples # <<>> => y = x
  BY Zenon DEF Unpacked
<1> HIDE DEF y
<1>3. /\ \A r \in Range(x.recs) : r.period = x.period
      /\ x.end = EndTime(x.recs[Len(x.recs)])
      /\ ~alt => /\ x.start = x.recs[1].start /\ Chained(x.recs)
                 /\ AllData(x) => x.samples = Flatten(TimesOf(x.recs))
      /\ ~fl /\ AllData(x) => Piece(x.samples, x.start, x.end, x.period, Leeway(x))
  BY Zenon DEF SegmentInv
<1>4. CASE x.samples # <<>>
  BY <1>2, <1>4 DEF y
<1>5. CASE x.samples = <<>>
  <2>1. ~AllData(x) \/ (fl /\ alt)
    BY <1>3, <1>5 DEF Piece
  <2>2. AllData(y) <=> AllData(x)
    BY <1>1 DEF AllData
  <2> QED BY <1>1, <1>3, <2>1, <2>2, Zenon DEF SegmentInv, y
<1> QED BY <1>4, <1>5

LEMMA UnpackFollows ==
  ASSUME TraceInv, FollowInv, mstl3_unpack_recordlist
  PROVE  FollowInv'
<1>1. /\ \E k \in DOMAIN traces : \E i \in DOMAIN traces[k].segs :
           traces' = [traces EXCEPT ![k].segs[i] = Unpacked(traces[k].segs[i])]
      /\ UNCHANGED <<written, adds, flushed, altered>>
  BY DEF mstl3_unpack_recordlist, OneSegment
<1>2. PICK k \in DOMAIN traces : \E i \in DOMAIN traces[k].segs :
        traces' = [traces EXCEPT ![k].segs[i] = Unpacked(traces[k].segs[i])]
  BY <1>1
<1>3. PICK i \in DOMAIN traces[k].segs :
        traces' = [traces EXCEPT ![k].segs[i] = Unpacked(traces[k].segs[i])]
  BY <1>2
<1> DEFINE t == traces[k]
           x == t.segs[i]
           y == Unpacked(x)
<1>4. traces \in Seq(Entry) /\ t \in Entry /\ k \in 1..Len(traces)
  BY DEF TraceInv, ListInv
<1>5. i \in 1..Len(t.segs) /\ x \in Segment /\ x \in Range(t.segs)
  <2>1. t.segs \in Seq(Segment)
    BY <1>4, EntriesAre
  <2> QED BY <2>1, RangeIs
<1>6. SegmentInv(x, altered, flushed) /\ (flushed => altered)
  BY <1>4, <1>5 DEF FollowInv, SegmentsInv
<1>7. y \in Segment /\ y.recs = x.recs /\ SegmentInv(y, altered, flushed)
  BY <1>5, <1>6, UnpackedIs, UnpackedInv
<1>8. traces' = [traces EXCEPT ![k] = With(t, i, y)]
  BY <1>3 DEF With
<1> HIDE DEF y
<1>9. /\ traces' \in Seq(Entry)
      /\ taken' = Weight(WrittenSamples, written) + Weight(EntrySamples, traces') => FollowInv'
  <2>1. UNCHANGED <<written, adds, flushed>> /\ altered' \in {altered, TRUE} /\ SegmentInv(y, altered', flushed)
    BY <1>1, <1>7
  <2> QED BY <1>5, <1>7, <1>8, <2>1, OneFollows, Zenon
<1>10. taken' = Weight(EntrySamples, traces') + Weight(WrittenSamples, written)
  <2>1. taken' = Total([j \in DOMAIN traces' |->
                          Total([n \in DOMAIN traces'[j].segs |-> Len(traces'[j].segs[n].samples)])])
                 + Total([n \in DOMAIN written |-> Len(written[n].samples)])
    BY Zenon DEF mstl3_unpack_recordlist
  <2>2. written \in Seq(Written)
    BY DEF FollowInv
  <2>3. /\ Weight(EntrySamples, traces') =
             Total([j \in DOMAIN traces' |->
                          Total([n \in DOMAIN traces'[j].segs |-> Len(traces'[j].segs[n].samples)])])
    BY <1>9, TallyIs, Zenon
  <2>4. Weight(WrittenSamples, written) = Total([n \in DOMAIN written |-> Len(written[n].samples)])
    BY <2>2, WrittenTallyIs, Zenon
  <2> QED BY <2>1, <2>3, <2>4, Zenon
<1>11. Weight(EntrySamples, traces') \in Int /\ Weight(WrittenSamples, written) \in Int
  <2>1. written \in Seq(Written)
    BY DEF FollowInv
  <2> QED BY <1>9, <2>1, EntryCountsAre, WrittenCountsAre, WeightInt
<1>12. taken' = Weight(WrittenSamples, written) + Weight(EntrySamples, traces')
  BY <1>10, <1>11
<1> QED BY <1>9, <1>12

LEMMA ConvertFollows ==
  ASSUME TraceInv, FollowInv, mstl3_convertsamples
  PROVE  FollowInv'
<1>1. PICK type \in Numeric, k \in DOMAIN traces : \E i \in DOMAIN traces[k].segs :
        traces' = [traces EXCEPT ![k].segs[i] =
                     [traces[k].segs[i] EXCEPT !.type = IF @ \in Numeric \cup {"none"} THEN type ELSE @]]
  BY DEF mstl3_convertsamples, OneSegment
<1>2. UNCHANGED <<written, adds, taken, flushed>> /\ altered' = TRUE
  BY DEF mstl3_convertsamples, OneSegment
<1>3. PICK i \in DOMAIN traces[k].segs :
        traces' = [traces EXCEPT ![k].segs[i] =
                     [traces[k].segs[i] EXCEPT !.type = IF @ \in Numeric \cup {"none"} THEN type ELSE @]]
  BY <1>1
<1> DEFINE t == traces[k]
           x == t.segs[i]
           y == [x EXCEPT !.type = IF @ \in Numeric \cup {"none"} THEN type ELSE @]
<1>4. traces \in Seq(Entry) /\ t \in Entry /\ k \in 1..Len(traces)
  BY DEF TraceInv, ListInv
<1>5. i \in 1..Len(t.segs) /\ x \in Segment /\ x \in Range(t.segs)
  <2>1. t.segs \in Seq(Segment)
    BY <1>4, EntriesAre
  <2> QED BY <2>1, RangeIs
<1>6. SegmentInv(x, altered, flushed)
  BY <1>4, <1>5 DEF FollowInv, SegmentsInv
<1>7. traces' = [traces EXCEPT ![k].segs[i] = y]
  BY <1>3
<1>8. /\ y \in Segment /\ y.recs = x.recs /\ y.samples = x.samples /\ y.start = x.start
      /\ y.end = x.end /\ y.period = x.period
  <2> HIDE DEF x
  <2>1. y \in Segment
    BY <1>5, ConvertedIs
  <2> QED BY <1>5, <2>1 DEF Segment
<1> HIDE DEF y, x
<1>9. SegmentInv(y, TRUE, flushed)
  <2>1. /\ \A r \in Range(x.recs) : r.period = x.period
        /\ x.end = EndTime(x.recs[Len(x.recs)])
        /\ ~flushed /\ AllData(x) => Piece(x.samples, x.start, x.end, x.period, Leeway(x))
    BY <1>6, Zenon DEF SegmentInv
  <2>2. (AllData(y) <=> AllData(x)) /\ Leeway(y) = Leeway(x)
    BY <1>8 DEF AllData, Leeway
  <2> QED BY <1>8, <2>1, <2>2, Zenon DEF SegmentInv
<1>10. traces' = [traces EXCEPT ![k] = With(t, i, y)]
  BY <1>7 DEF With
<1>11. /\ traces' \in Seq(Entry)
       /\ Weight(EntrySamples, traces') = Weight(EntrySamples, traces) - Len(x.samples) + Len(y.samples)
       /\ taken' = Weight(WrittenSamples, written) + Weight(EntrySamples, traces') => FollowInv'
  <2>1. UNCHANGED <<written, adds, flushed>> /\ altered' \in {altered, TRUE} /\ SegmentInv(y, altered', flushed)
    BY <1>2, <1>9
  <2> QED BY <1>5, <1>8, <1>10, <2>1, OneFollows, Zenon DEF x
<1>12. Weight(EntrySamples, traces) \in Int /\ Len(x.samples) \in Int
  <2>1. EntrySamples \in [Entry -> Int]
    BY EntryCountsAre
  <2>2. x.samples \in Seq(Int)
    BY <1>5, SegmentsAre
  <2> QED BY <1>4, <2>1, <2>2, WeightInt
<1>13. Weight(EntrySamples, traces') = Weight(EntrySamples, traces)
  BY <1>8, <1>11, <1>12
<1>14. taken' = Weight(WrittenSamples, written) + Weight(EntrySamples, traces')
  BY <1>2, <1>13 DEF FollowInv
<1> QED BY <1>11, <1>14

-----------------------------------------------------------------------------
(* What is packed of a segment, and what is left of it.                    *)
LEMMA DivIs ==
  ASSUME NEW n \in Nat, NEW d \in Nat \ {0}
  PROVE  n \div d \in Nat /\ (n \div d) * d <= n /\ n < (n \div d) * d + d
<1>1. n \div d \in Int /\ n - (n \div d) * d \in 0..(d - 1)
  OBVIOUS
<1>2. n \div d \in Nat
  OBVIOUS
<1>3. PICK q \in Nat : q = n \div d
  BY <1>2
<1>4. PICK m \in Nat : m = q * d
  BY <1>3
<1>5. n - m \in 0..(d - 1)
  BY <1>1, <1>3, <1>4
<1>6. m <= n /\ n < m + d
  BY <1>5
<1> QED BY <1>2, <1>3, <1>4, <1>6

LEMMA PackCountIs ==
  ASSUME NEW x \in Segment, NEW flush \in BOOLEAN
  PROVE  LET n == PackCount(x, flush)
             len == Len(x.samples)
         IN  /\ n \in Nat /\ n <= len
             /\ ~flush /\ len # 0 => n < len
<1> DEFINE len == Len(x.samples)
           n == PackCount(x, flush)
<1>1. len \in Nat
  BY SegmentsAre
<1>2. PerRecord \in Nat \ {0}
  BY TraceAssumption, Zenon
<1>3. n = IF flush THEN len ELSE IF len = 0 THEN 0 ELSE ((len - 1) \div PerRecord) * PerRecord
  BY Zenon DEF PackCount
<1> HIDE DEF n, len
<1>4. ASSUME len # 0
      PROVE  ((len - 1) \div PerRecord) * PerRecord \in Nat /\ ((len - 1) \div PerRecord) * PerRecord <= len - 1
  <2>1. len - 1 \in Nat
    BY <1>1, <1>4
  <2>2. (len - 1) \div PerRecord \in Nat /\ ((len - 1) \div PerRecord) * PerRecord <= len - 1
    BY <1>2, <2>1, DivIs, Zenon
  <2>3. PICK q \in Nat : q = (len - 1) \div PerRecord
    BY <2>2
  <2>4. q * PerRecord \in Nat
    BY <1>2
  <2> QED BY <2>2, <2>3, <2>4
<1>5. CASE flush
  BY <1>1, <1>3, <1>5 DEF n, len
<1>6. CASE ~flush /\ len = 0
  BY <1>1, <1>3, <1>6 DEF n, len
<1>7. CASE ~flush /\ len # 0
  <2>1. PICK v \in Int : v = ((len - 1) \div PerRecord) * PerRecord /\ v \in Nat /\ v <= len - 1
    BY <1>4, <1>7
  <2>2. n = v
    BY <1>3, <1>7, <2>1
  <2> QED BY <1>1, <2>1, <2>2 DEF n, len
<1> QED BY <1>5, <1>6, <1>7 DEF n, len

Since(fl, flush, fl2) == (fl => fl2) /\ (flush => fl2)

LEMMA RemainingFollows ==
  ASSUME NEW x \in Segment, NEW flush \in BOOLEAN, NEW alt, NEW fl, SegmentInv(x, alt, fl),
         NEW fl2, Since(fl, flush, fl2)
  PROVE  LET y == Remaining(x, flush)
         IN  /\ y \in Segment /\ y.recs = x.recs
             /\ Len(y.samples) = Len(x.samples) - PackCount(x, flush)
             /\ SegmentInv(y, TRUE, fl2)
<1> DEFINE n == PackCount(x, flush)
           len == Len(x.samples)
           y == Remaining(x, flush)
           start == IF n = len THEN x.end ELSE x.start + n * x.period
           samples == SubSeq(x.samples, n + 1, len)
           count == x.count - n
<1>1. /\ x.start \in Int /\ x.end \in Int /\ x.period \in Nat \ {0}
      /\ x.samples \in Seq(Int) /\ len \in Nat
  BY SegmentsAre
<1>2. n \in Nat /\ n <= len /\ (~flush /\ len # 0 => n < len)
  BY PackCountIs
<1>3. y = IF n = 0 THEN x ELSE [x EXCEPT !.start = start, !.samples = samples, !.count = count]
  BY DEF Remaining
<1>4. y \in Segment
  BY RemainingIs
<1> HIDE DEF n, y
<1>5. /\ \A r \in Range(x.recs) : r.period = x.period
      /\ x.end = EndTime(x.recs[Len(x.recs)])
      /\ ~fl /\ AllData(x) => Piece(x.samples, x.start, x.end, x.period, Leeway(x))
  BY Zenon DEF SegmentInv
<1>6. CASE n = 0
  <2>1. y = x
    BY <1>3, <1>6
  <2>2. SegmentInv(y, TRUE, fl2)
    BY <1>5, <2>1 DEF SegmentInv, Since
  <2>3. y.recs = x.recs /\ Len(y.samples) = len - n
    BY <1>1, <1>6, <2>1
  <2> QED BY <1>4, <2>2, <2>3, Zenon DEF n, y
<1>7. CASE n # 0
  <2>1. y = [x EXCEPT !.start = start, !.samples = samples, !.count = count]
    BY <1>3, <1>7
  <2>2. Len(samples) = len - n
    BY <1>1, <1>2, <1>7
  <2> HIDE DEF start, samples, count
  <2>3. /\ y.start = start /\ y.end = x.end /\ y.period = x.period
        /\ y.samples = samples /\ y.recs = x.recs
    BY <2>1 DEF Segment
  <2>4. (AllData(y) <=> AllData(x)) /\ Leeway(y) = Leeway(x)
    BY <2>3 DEF AllData, Leeway
  <2>5. ASSUME ~fl, ~flush, AllData(x) PROVE Piece(y.samples, y.start, y.end, y.period, Leeway(y))
    <3>1. Piece(x.samples, x.start, x.end, x.period, Leeway(x))
      BY <1>5, <2>5
    <3>2. n < len
      BY <1>1, <1>2, <1>7, <2>5
    <3>3. start = x.start + n * x.period
      BY <1>1, <1>2, <3>2 DEF start
    <3>4. Leeway(x) \in Nat
      <4>1. Len(x.recs) \in Nat \ {0} /\ x.period \div 2 \in Nat
        BY <1>1, CountsAre
      <4>2. Len(x.recs) - 1 \in Nat
        BY <4>1
      <4> QED BY <4>1, <4>2 DEF Leeway
    <3>5. Piece(SubSeq(x.samples, n + 1, len), x.start + n * x.period, x.end, x.period, Leeway(x))
      <4>1. x.start \in Int /\ x.period \in Int
        BY <1>1
      <4> QED BY <1>2, <3>1, <3>2, <3>4, <4>1, PieceRest, Zenon
    <3> QED BY <2>3, <2>4, <3>3, <3>5, Zenon DEF samples
  <2>6. SegmentInv(y, TRUE, fl2)
    BY <1>5, <2>3, <2>4, <2>5 DEF SegmentInv, Since
  <2> QED BY <1>4, <2>2, <2>3, <2>6, Zenon DEF n, y
<1> QED BY <1>6, <1>7

-----------------------------------------------------------------------------
(* The records packed of a segment: all of as many samples as fit, but the *)
(* last.                                                                   *)
Upto(n, i)   == IF i * PerRecord < n THEN i * PerRecord ELSE n
Chunk(q, n, i) == SubSeq(q, (i - 1) * PerRecord + 1, Upto(n, i))
Chunks(n)    == (n + PerRecord - 1) \div PerRecord

LEMMA ChunksAre ==
  ASSUME NEW n \in Nat
  PROVE  /\ Chunks(n) \in Nat /\ PerRecord \in Nat \ {0}
         /\ Upto(n, 0) = 0 /\ Upto(n, Chunks(n)) = n
         /\ \A i \in 0..Chunks(n) : Upto(n, i) \in Nat /\ Upto(n, i) <= n
         /\ \A i \in 1..Chunks(n) : /\ (i - 1) * PerRecord \in Nat
                                    /\ Upto(n, i - 1) = (i - 1) * PerRecord
                                    /\ Upto(n, i - 1) < Upto(n, i)
<1>1. PerRecord \in Nat \ {0}
  BY TraceAssumption, Zenon
<1> DEFINE P == PerRecord
           K == Chunks(n)
<1>2. K \in Nat /\ K * P <= n + P - 1 /\ n + P - 1 < K * P + P
  <2>1. n + P - 1 \in Nat
    BY <1>1
  <2> QED BY <1>1, <2>1, DivIs, Zenon DEF Chunks
<1> HIDE DEF P, K
<1>3. \A i \in Nat : i * P \in Nat
  BY <1>1 DEF P
<1>4. \A i \in Nat : Upto(n, i) = IF i * P < n THEN i * P ELSE n
  BY DEF Upto, P
<1>5. \A i \in 0..K : Upto(n, i) \in Nat /\ Upto(n, i) <= n
  <2> TAKE i \in 0..K
  <2>1. i \in Nat
    BY <1>2
  <2>2. PICK v \in Nat : v = i * P
    BY <1>3, <2>1
  <2> QED BY <1>4, <2>1, <2>2
<1>6. Upto(n, 0) = 0
  <2>1. 0 * P = 0
    BY <1>1 DEF P
  <2> QED BY <1>4, <2>1
<1>7. Upto(n, K) = n
  <2>1. PICK v \in Nat : v = K * P
    BY <1>2, <1>3
  <2>2. P \in Nat
    BY <1>1 DEF P
  <2> QED BY <1>2, <1>4, <2>1, <2>2
<1>8. ASSUME NEW i \in 1..K
      PROVE  (i - 1) * P \in Nat /\ Upto(n, i - 1) = (i - 1) * P /\ Upto(n, i - 1) < Upto(n, i)
  <2>1. i \in Nat /\ i - 1 \in Nat /\ P \in Nat \ {0} /\ K - i \in Nat
    BY <1>1, <1>2 DEF P
  <2>2. PICK v \in Nat : v = i * P
    BY <1>3, <2>1
  <2>3. (i - 1) * P = v - P
    BY <2>1, <2>2
  <2>4. v <= K * P
    <3>1. PICK d \in Nat : d = K - i
      BY <2>1
    <3>2. K = i + d
      BY <1>2, <2>1, <3>1
    <3>3. K * P = i * P + d * P /\ d * P \in Nat
      BY <1>3, <2>1, <3>2
    <3> QED BY <2>2, <3>3
  <2>5. PICK m \in Nat : m = K * P
    BY <1>2, <1>3
  <2>6. v - P < n
    BY <1>2, <2>1, <2>2, <2>4, <2>5
  <2>7. v - P \in Nat
    BY <1>3, <2>1, <2>3
  <2>8. Upto(n, i - 1) = v - P
    <3>1. Upto(n, i - 1) = IF (i - 1) * P < n THEN (i - 1) * P ELSE n
      BY <1>4, <2>1
    <3> QED BY <2>3, <2>6, <3>1
  <2>9. Upto(n, i) = IF v < n THEN v ELSE n
    BY <1>4, <2>1, <2>2
  <2> QED BY <2>1, <2>2, <2>3, <2>6, <2>7, <2>8, <2>9
<1> QED BY <1>1, <1>2, <1>5, <1>6, <1>7, <1>8 DEF P, K

LEMMA ChunkIs ==
  ASSUME NEW q \in Seq(Int), NEW n \in Nat, n <= Len(q), NEW i \in 1..Chunks(n)
  PROVE  LET c == Chunk(q, n, i)
         IN  /\ c \in Seq(Int) /\ Len(c) = Upto(n, i) - Upto(n, i - 1)
             /\ \A j \in 1..Len(c) : /\ (i - 1) * PerRecord + j \in 1..Len(q)
                                     /\ c[j] = q[(i - 1) * PerRecord + j]
<1>1. /\ i \in 0..Chunks(n) /\ Upto(n, i - 1) = (i - 1) * PerRecord /\ (i - 1) * PerRecord \in Nat
      /\ Upto(n, i - 1) < Upto(n, i)
  BY ChunksAre
<1>2. Upto(n, i) \in Nat /\ Upto(n, i) <= n
  BY <1>1, ChunksAre, Zenon
<1>3. PICK a \in Nat : a = (i - 1) * PerRecord
  BY <1>1
<1>4. PICK b \in Nat : b = Upto(n, i)
  BY <1>2
<1>5. a < b /\ b <= Len(q) /\ Len(q) \in Nat
  BY <1>1, <1>2, <1>3, <1>4
<1>6. LET c == SubSeq(q, a + 1, b)
      IN  /\ c \in Seq(Int) /\ Len(c) = b - a
          /\ \A j \in 1..Len(c) : a + j \in 1..Len(q) /\ c[j] = q[a + j]
  <2> DEFINE c == SubSeq(q, a + 1, b)
  <2>1. c \in Seq(Int) /\ Len(c) = b - a /\ \A j \in 1..(b - a) : c[j] = q[a + j]
    BY <1>5, SMTT(30)
  <2>2. \A j \in 1..(b - a) : a + j \in 1..Len(q)
    BY <1>5
  <2> QED BY <2>1, <2>2, Zenon
<1>7. Chunk(q, n, i) = SubSeq(q, a + 1, b)
  BY <1>3, <1>4, Zenon DEF Chunk
<1> QED BY <1>1, <1>3, <1>4, <1>6, <1>7, Zenon

LEMMA EmittedEmpty ==
  ASSUME NEW t \in Entry, NEW x \in Segment, NEW flush \in BOOLEAN, x.samples = <<>>
  PROVE  LET E == Emitted(t, x, flush)
         IN  /\ E \in Seq(Written) /\ Weight(WrittenSamples, E) = PackCount(x, flush)
             /\ \A w \in Range(E) : w.sid = t.sid /\ DOMAIN w.samples = {}
<1> DEFINE w == [sid |-> t.sid, version |-> t.pubversion, start |-> x.start, samples |-> <<>>]
<1>1. Emitted(t, x, flush) = <<w>>
  BY DEF Emitted
<1>2. w \in Written /\ w.samples = <<>> /\ w.sid = t.sid
  <2>1. t.sid \in Int /\ t.pubversion \in Nat /\ x.start \in Int
    BY EntriesAre, SegmentsAre
  <2>2. <<>> \in Seq(Int)
    OBVIOUS
  <2> QED BY <2>1, <2>2 DEF Written
<1> HIDE DEF w
<1>3. WrittenSamples[w] = 0
  <2>1. Len(w.samples) = 0
    BY <1>2
  <2> QED BY <1>2, <2>1, WrittenCountsAre
<1>4. <<w>> \in Seq(Written) /\ Range(<<w>>) = {w}
  BY <1>2 DEF Range
<1>5. Weight(WrittenSamples, <<w>>) = 0
  <2>1. WrittenSamples \in [Written -> Int]
    BY WrittenCountsAre
  <2> QED BY <1>2, <1>3, <2>1, WeightOne, Zenon
<1>6. PackCount(x, flush) = 0
  <2>1. Len(x.samples) = 0
    OBVIOUS
  <2> QED BY <2>1, PackCountIs
<1> QED BY <1>1, <1>2, <1>4, <1>5, <1>6

LEMMA EmittedFull ==
  ASSUME NEW t \in Entry, NEW x \in Segment, NEW flush \in BOOLEAN, x.samples # <<>>
  PROVE  LET E == Emitted(t, x, flush)
             n == PackCount(x, flush)
         IN  /\ E \in Seq(Written) /\ Len(E) = Chunks(n)
             /\ \A i \in 1..Chunks(n) :
                  /\ E[i].sid = t.sid /\ E[i].start = x.start + (i - 1) * PerRecord * x.period
                  /\ E[i].samples = Chunk(x.samples, n, i)
<1> DEFINE n == PackCount(x, flush)
           P == PerRecord
           start(i) == x.start + (i - 1) * P * x.period
           w(i) == [sid |-> t.sid, version |-> t.pubversion, start |-> start(i),
                    samples |-> Chunk(x.samples, n, i)]
           E == [i \in 1..Chunks(n) |-> w(i)]
<1>1. Emitted(t, x, flush) = E
  BY DEF Emitted, Chunks, Chunk, Upto
<1>2. n \in Nat /\ n <= Len(x.samples)
  BY PackCountIs
<1>3. Chunks(n) \in Nat
  BY <1>2, ChunksAre
<1>4. ASSUME NEW i \in 1..Chunks(n) PROVE w(i) \in Written
  <2>1. t.sid \in Int /\ t.pubversion \in Nat /\ x.start \in Int /\ x.period \in Int /\ x.samples \in Seq(Int)
    BY EntriesAre, SegmentsAre
  <2>2. start(i) \in Int
    <3>1. PICK v \in Nat : v = (i - 1) * P
      BY <1>2, ChunksAre
    <3>2. v * x.period \in Int
      BY <2>1, <3>1
    <3> QED BY <2>1, <3>1, <3>2
  <2>3. Chunk(x.samples, n, i) \in Seq(Int)
    BY <1>2, <2>1, ChunkIs
  <2> HIDE DEF start, n
  <2> QED BY <2>1, <2>2, <2>3 DEF Written
<1>5. \A i \in 1..Chunks(n) : /\ w(i).sid = t.sid /\ w(i).start = start(i)
                              /\ w(i).samples = Chunk(x.samples, n, i)
  OBVIOUS
<1> HIDE DEF n, start
<1>6. E \in Seq(Written) /\ Len(E) = Chunks(n) /\ \A i \in 1..Chunks(n) : E[i] = w(i)
  <2> HIDE DEF w
  <2>1. E \in [1..Chunks(n) -> Written] /\ \A i \in 1..Chunks(n) : E[i] = w(i)
    BY <1>4
  <2> HIDE DEF E
  <2> QED BY <1>3, <2>1
<1> HIDE DEF E, w
<1> QED BY <1>1, <1>5, <1>6 DEF n, start

-----------------------------------------------------------------------------
LEMMA EmittedIs ==
  ASSUME NEW t \in Entry, NEW x \in Segment, NEW flush \in BOOLEAN
  PROVE  LET E == Emitted(t, x, flush)
         IN  /\ E \in Seq(Written) /\ Weight(WrittenSamples, E) = PackCount(x, flush)
             /\ \A w \in Range(E) : w.sid = t.sid
<1>1. CASE x.samples = <<>>
  BY <1>1, EmittedEmpty
<1>2. CASE x.samples # <<>>
  <2> DEFINE n == PackCount(x, flush)
             E == Emitted(t, x, flush)
             K == Chunks(n)
             w == Weights(WrittenSamples, E)
             g == [i \in 0..K |-> Upto(n, i)]
  <2>1. n \in Nat /\ n <= Len(x.samples)
    BY PackCountIs
  <2>2. /\ E \in Seq(Written) /\ Len(E) = K
        /\ \A i \in 1..K : E[i].sid = t.sid /\ E[i].samples = Chunk(x.samples, n, i)
    BY <1>2, EmittedFull
  <2>3. x.samples \in Seq(Int)
    BY SegmentsAre
  <2> HIDE DEF n, E
  <2>4. /\ K \in Nat /\ Upto(n, 0) = 0 /\ Upto(n, K) = n
        /\ \A i \in 0..K : Upto(n, i) \in Nat
    BY <2>1, ChunksAre
  <2>5. ASSUME NEW i \in 1..K PROVE Len(E[i].samples) = Upto(n, i) - Upto(n, i - 1)
    BY <2>1, <2>2, <2>3, ChunkIs
  <2> HIDE DEF K, w
  <2>6. w \in Seq(Int) /\ Len(w) = K
    <3>1. WrittenSamples \in [Written -> Int]
      BY WrittenCountsAre
    <3>2. w \in Seq(Int) /\ Len(w) = Len(E)
      BY <2>2, <3>1, WeightsAre, Zenon DEF w
    <3> QED BY <2>2, <3>2
  <2>7. ASSUME NEW i \in 1..K PROVE w[i] = g[i] - g[i - 1]
    <3>1. E[i] \in Written /\ i \in DOMAIN E
      BY <2>2
    <3>2. w[i] = Len(E[i].samples)
      BY <3>1, WrittenCountsAre DEF w, Weights
    <3>3. i \in 0..K /\ i - 1 \in 0..K
      BY <2>4
    <3> QED BY <2>5, <3>2, <3>3
  <2>8. g \in [0..K -> Int] /\ g[0] = 0 /\ g[K] = n
    <3>1. 0 \in 0..K /\ K \in 0..K
      BY <2>4
    <3> QED BY <2>4, <3>1
  <2> HIDE DEF g
  <2>9. Total(w) = n
    <3>1. Total(w) = g[K] - g[0]
      BY <2>6, <2>7, <2>8, TotalSpans
    <3> QED BY <2>1, <2>8, <3>1
  <2>10. \A e \in Range(E) : e.sid = t.sid
    BY <2>2, RangeIs
  <2> QED BY <2>2, <2>9, <2>10, Zenon DEF E, n, w, Weight
<1> QED BY <1>1, <1>2

(* They are in time as the samples of the segment are.                     *)
LEMMA EmittedInTime ==
  ASSUME NEW t \in Entry, NEW x \in Segment, NEW flush \in BOOLEAN, NEW d \in Nat,
         Piece(x.samples, x.start, x.end, x.period, d), NEW w \in Range(Emitted(t, x, flush)),
         NEW j \in DOMAIN w.samples
  PROVE  Near(w.samples[j], w.start + (j - 1) * x.period, d)
<1> DEFINE n == PackCount(x, flush)
           E == Emitted(t, x, flush)
           q == x.samples
<1>1. /\ q \in Seq(Int) /\ q # <<>>
      /\ \A i \in 1..Len(q) : Near(q[i], x.start + (i - 1) * x.period, d)
  BY Zenon DEF Piece
<1>2. n \in Nat /\ n <= Len(q)
  BY PackCountIs
<1>3. /\ E \in Seq(Written) /\ Len(E) = Chunks(n)
      /\ \A i \in 1..Chunks(n) :
           E[i].start = x.start + (i - 1) * PerRecord * x.period /\ E[i].samples = Chunk(q, n, i)
  BY <1>1, EmittedFull
<1>4. w \in Range(E)
  OBVIOUS
<1> HIDE DEF n, E, q
<1>5. PICK i \in 1..Chunks(n) : w = E[i]
  BY <1>3, <1>4, RangeIs
<1>6. /\ w.samples \in Seq(Int)
      /\ \A k \in 1..Len(w.samples) : /\ (i - 1) * PerRecord + k \in 1..Len(q)
                                      /\ w.samples[k] = q[(i - 1) * PerRecord + k]
  <2>1. w.samples = Chunk(q, n, i)
    BY <1>3, <1>5
  <2>2. n <= Len(q) /\ q \in Seq(Int) /\ n \in Nat
    BY <1>1, <1>2
  <2>3. LET c == Chunk(q, n, i)
        IN  /\ c \in Seq(Int)
            /\ \A k \in 1..Len(c) : /\ (i - 1) * PerRecord + k \in 1..Len(q)
                                    /\ c[k] = q[(i - 1) * PerRecord + k]
    BY <2>2, ChunkIs, Zenon
  <2> QED BY <2>1, <2>3, Zenon
<1>7. j \in 1..Len(w.samples) /\ j \in Int
  BY <1>6
<1>8. PICK a \in Nat : a = (i - 1) * PerRecord
  BY <1>2, ChunksAre
<1>9. a + j \in 1..Len(q) /\ w.samples[j] = q[a + j]
  BY <1>6, <1>7, <1>8
<1>10. Near(w.samples[j], x.start + ((a + j) - 1) * x.period, d)
  <2>1. Near(q[a + j], x.start + ((a + j) - 1) * x.period, d)
    BY <1>1, <1>9, Zenon
  <2> QED BY <1>9, <2>1
<1>11. w.start = x.start + a * x.period
  BY <1>3, <1>5, <1>8
<1>12. x.start + ((a + j) - 1) * x.period = w.start + (j - 1) * x.period
  <2>1. x.start \in Int /\ x.period \in Int
    BY SegmentsAre
  <2>2. PICK p \in Int : p = x.period
    BY <2>1
  <2>3. ((a + j) - 1) * p = a * p + (j - 1) * p
    BY <1>7
  <2>4. a * p \in Int /\ (j - 1) * p \in Int
    BY <1>7
  <2> QED BY <1>11, <2>1, <2>2, <2>3, <2>4
<1> QED BY <1>10, <1>12, Zenon

-----------------------------------------------------------------------------
(* An entry that is packed: its records stay, and the samples it loses are *)
(* those of the records written.                                           *)
Packed(t, flush)  == [t EXCEPT !.segs = [i \in DOMAIN @ |-> Remaining(@[i], flush)]]
PackedBy(t, flush) == [i \in DOMAIN t.segs |-> Emitted(t, t.segs[i], flush)]

LEMMA PackedSegments ==
  ASSUME NEW t \in Entry, NEW flush \in BOOLEAN, NEW alt, NEW fl, SegmentsInv(t.segs, alt, fl),
         NEW fl2, Since(fl, flush, fl2)
  PROVE  LET u == Packed(t, flush)
         IN  /\ u \in Entry /\ u.sid = t.sid /\ Len(u.segs) = Len(t.segs)
             /\ \A i \in 1..Len(t.segs) : u.segs[i] = Remaining(t.segs[i], flush)
             /\ Of(u.segs) = Of(t.segs) /\ SegmentsInv(u.segs, TRUE, fl2)
             /\ EntryRecords[u] = EntryRecords[t]
<1> DEFINE s == t.segs
           m == [i \in DOMAIN s |-> Remaining(s[i], flush)]
           u == Packed(t, flush)
<1>1. s \in Seq(Segment) /\ Len(s) \in Nat \ {0} /\ DOMAIN s = 1..Len(s) /\ \A i \in 1..Len(s) : s[i] \in Segment
  <2>1. s \in Seq(Segment) /\ Len(s) \in Nat \ {0}
    BY EntriesAre
  <2> QED BY <2>1
<1>2. \A i \in 1..Len(s) : SegmentInv(s[i], alt, fl)
  <2>1. \A i \in 1..Len(s) : s[i] \in Range(s)
    BY <1>1, RangeIs
  <2> QED BY <2>1 DEF SegmentsInv
<1> HIDE DEF s
<1>3. ASSUME NEW i \in 1..Len(s)
      PROVE  /\ Remaining(s[i], flush) \in Segment /\ Remaining(s[i], flush).recs = s[i].recs
             /\ SegmentInv(Remaining(s[i], flush), TRUE, fl2)
  <2>1. s[i] \in Segment /\ SegmentInv(s[i], alt, fl)
    BY <1>1, <1>2
  <2>2. Remaining(s[i], flush) \in Segment /\ Remaining(s[i], flush).recs = s[i].recs
    BY <2>1, RemainingFollows
  <2>3. SegmentInv(Remaining(s[i], flush), TRUE, fl2)
    BY <2>1, RemainingFollows
  <2> QED BY <2>2, <2>3
<1>4. m \in Seq(Segment) /\ Len(m) = Len(s) /\ m # <<>> /\ \A i \in 1..Len(s) : m[i] = Remaining(s[i], flush)
  <2>1. m \in [1..Len(s) -> Segment] /\ \A i \in 1..Len(s) : m[i] = Remaining(s[i], flush)
    BY <1>1, <1>3
  <2> HIDE DEF m
  <2> QED BY <1>1, <2>1
<1>5. u = [t EXCEPT !.segs = m]
  BY Zenon DEF Packed, s
<1> HIDE DEF m, u
<1>6. u \in Entry /\ u.sid = t.sid /\ u.segs = m
  BY <1>4, <1>5 DEF Entry
<1>7. Of(m) = Of(s)
  <2>1. DOMAIN m = 1..Len(s)
    BY <1>4
  <2>2. \A i \in 1..Len(s) : m[i].recs = s[i].recs
    BY <1>3, <1>4, Zenon
  <2> QED BY <1>1, <2>1, <2>2 DEF Of
<1>8. SegmentsInv(m, TRUE, fl2)
  <2>1. \A x \in Range(m) : \E i \in 1..Len(s) : x = m[i]
    BY <1>4, RangeIs
  <2> QED BY <1>3, <1>4, <2>1 DEF SegmentsInv
<1>9. Weight(RecordCount, m) = Weight(RecordCount, s)
  <2>1. \A i \in 1..Len(s) : RecordCount[m[i]] = RecordCount[s[i]]
    BY <1>1, <1>3, <1>4, CountsAre, ZenonT(30)
  <2>2. DOMAIN m = 1..Len(s) /\ DOMAIN s = 1..Len(s)
    BY <1>1, <1>4
  <2>3. Weights(RecordCount, m) = Weights(RecordCount, s)
    BY <2>1, <2>2 DEF Weights
  <2> QED BY <2>3, Zenon DEF Weight
<1>10. EntryRecords[u] = EntryRecords[t]
  BY <1>6, <1>9, EntryCountsAre DEF s
<1> QED BY <1>4, <1>6, <1>7, <1>8, <1>10, Zenon DEF s, u

LEMMA PackedRecords ==
  ASSUME NEW t \in Entry, NEW flush \in BOOLEAN
  PROVE  LET q == PackedBy(t, flush)
         IN  /\ q \in Seq(Seq(Written)) /\ Len(q) = Len(t.segs) /\ Flatten(q) \in Seq(Written)
             /\ \A i \in 1..Len(t.segs) : q[i] = Emitted(t, t.segs[i], flush)
             /\ \A w \in Range(Flatten(q)) :
                  w.sid = t.sid /\ \E x \in Range(t.segs) : w \in Range(Emitted(t, x, flush))
<1> DEFINE s == t.segs
           q == PackedBy(t, flush)
           V == Seq(Written)
<1>1. s \in Seq(Segment) /\ Len(s) \in Nat \ {0} /\ DOMAIN s = 1..Len(s) /\ \A i \in 1..Len(s) : s[i] \in Segment
  <2>1. s \in Seq(Segment) /\ Len(s) \in Nat \ {0}
    BY EntriesAre
  <2> QED BY <2>1
<1>2. \A i \in 1..Len(s) : s[i] \in Range(s)
  BY <1>1, RangeIs
<1>3. q = [i \in DOMAIN s |-> Emitted(t, s[i], flush)]
  BY DEF PackedBy
<1> HIDE DEF s, q
<1>4. ASSUME NEW i \in 1..Len(s)
      PROVE  Emitted(t, s[i], flush) \in Seq(Written) /\ \A w \in Range(Emitted(t, s[i], flush)) : w.sid = t.sid
  BY <1>1, EmittedIs
<1>5. q \in Seq(V) /\ Len(q) = Len(s) /\ \A i \in 1..Len(s) : q[i] = Emitted(t, s[i], flush)
  <2>1. \A i \in 1..Len(s) : Emitted(t, s[i], flush) \in V
    BY <1>4
  <2> HIDE DEF V
  <2>2. q \in [1..Len(s) -> V] /\ \A i \in 1..Len(s) : q[i] = Emitted(t, s[i], flush)
    BY <1>1, <1>3, <2>1
  <2> QED BY <1>1, <2>2
<1>6. q \in Seq(Seq(Written))
  BY <1>5
<1> HIDE DEF V
<1>7. Flatten(q) \in Seq(Written)
  BY <1>6, FlattenIs
<1>8. ASSUME NEW w \in Range(Flatten(q))
      PROVE  w.sid = t.sid /\ \E x \in Range(s) : w \in Range(Emitted(t, x, flush))
  <2>1. \E i \in 1..Len(q) : w \in Range(q[i])
    BY <1>6, FlattenFrom, Zenon
  <2>2. PICK i \in 1..Len(s) : w \in Range(Emitted(t, s[i], flush))
    BY <1>5, <2>1
  <2> QED BY <1>2, <1>4, <2>2
<1> QED BY <1>5, <1>6, <1>7, <1>8, Zenon DEF s, q

LEMMA PackedSamples ==
  ASSUME NEW t \in Entry, NEW flush \in BOOLEAN, NEW alt, NEW fl, SegmentsInv(t.segs, alt, fl)
  PROVE  EntrySamples[t] = EntrySamples[Packed(t, flush)] + Weight(WrittenSamples, Flatten(PackedBy(t, flush)))
<1> DEFINE s == t.segs
           u == Packed(t, flush)
           m == u.segs
           q == PackedBy(t, flush)
           c == Weights(SampleCount, s)
           a == Weights(SampleCount, m)
           b == [i \in DOMAIN q |-> Weight(WrittenSamples, q[i])]
<1>1. s \in Seq(Segment) /\ Len(s) \in Nat \ {0} /\ DOMAIN s = 1..Len(s) /\ \A i \in 1..Len(s) : s[i] \in Segment
  <2>1. s \in Seq(Segment) /\ Len(s) \in Nat \ {0}
    BY EntriesAre
  <2> QED BY <2>1
<1>2. \A i \in 1..Len(s) : SegmentInv(s[i], alt, fl)
  <2>1. \A i \in 1..Len(s) : s[i] \in Range(s)
    BY <1>1, RangeIs
  <2> QED BY <2>1 DEF SegmentsInv
<1>3. u \in Entry /\ Len(m) = Len(s) /\ \A i \in 1..Len(s) : m[i] = Remaining(s[i], flush)
  <2>1. Since(fl, flush, TRUE)
    BY DEF Since
  <2> QED BY <2>1, PackedSegments
<1>4. /\ q \in Seq(Seq(Written)) /\ Len(q) = Len(s) /\ \A i \in 1..Len(s) : q[i] = Emitted(t, s[i], flush)
  BY PackedRecords
<1>5. m \in Seq(Segment)
  BY <1>3, EntriesAre
<1>6. EntrySamples[t] = Weight(SampleCount, s) /\ EntrySamples[u] = Weight(SampleCount, m)
  BY <1>3, EntryCountsAre
<1> HIDE DEF s, m, u, q
<1>7. SampleCount \in [Segment -> Int] /\ WrittenSamples \in [Written -> Int]
  BY CountsAre, WrittenCountsAre
<1>8. /\ c \in Seq(Int) /\ Len(c) = Len(s) /\ \A i \in 1..Len(s) : c[i] = SampleCount[s[i]]
      /\ a \in Seq(Int) /\ Len(a) = Len(m) /\ \A i \in 1..Len(m) : a[i] = SampleCount[m[i]]
  <2>1. c \in Seq(Int) /\ Len(c) = Len(s) /\ \A i \in 1..Len(s) : c[i] = SampleCount[s[i]]
    BY <1>1, <1>7, WeightsAre, SMTT(30)
  <2>2. a \in Seq(Int) /\ Len(a) = Len(m) /\ \A i \in 1..Len(m) : a[i] = SampleCount[m[i]]
    BY <1>5, <1>7, WeightsAre
  <2> QED BY <2>1, <2>2
<1>9. b \in Seq(Int) /\ Len(b) = Len(q) /\ Weight(WrittenSamples, Flatten(q)) = Total(b)
  BY <1>4, <1>7, WeightFlatten, Zenon
<1>10. \A i \in 1..Len(s) : b[i] = PackCount(s[i], flush)
  <2> TAKE i \in 1..Len(s)
  <2>1. i \in DOMAIN q
    BY <1>4
  <2>2. b[i] = Weight(WrittenSamples, q[i])
    BY <2>1
  <2>3. Weight(WrittenSamples, Emitted(t, s[i], flush)) = PackCount(s[i], flush)
    BY <1>1, EmittedIs
  <2> QED BY <1>4, <2>2, <2>3, Zenon
<1> HIDE DEF a, b, c
<1>11. ASSUME NEW i \in 1..Len(c) PROVE c[i] = a[i] + b[i]
  <2>1. i \in 1..Len(s) /\ i \in 1..Len(m) /\ s[i] \in Segment
    BY <1>1, <1>3, <1>8
  <2>2. /\ Remaining(s[i], flush) \in Segment
        /\ Len(Remaining(s[i], flush).samples) = Len(s[i].samples) - PackCount(s[i], flush)
    <3>1. Since(fl, flush, TRUE)
      BY DEF Since
    <3>2. SegmentInv(s[i], alt, fl)
      BY <1>2, <2>1
    <3> QED BY <2>1, <3>1, <3>2, RemainingFollows
  <2>3. SampleCount[s[i]] = Len(s[i].samples) /\ SampleCount[m[i]] = Len(m[i].samples) /\ Len(s[i].samples) \in Nat
    BY <1>3, <2>1, <2>2, CountsAre
  <2>4. PackCount(s[i], flush) \in Nat
    BY <2>1, PackCountIs
  <2>5. m[i] = Remaining(s[i], flush)
    BY <1>3, <2>1
  <2> QED BY <1>8, <1>10, <2>1, <2>2, <2>3, <2>4, <2>5
<1>12. Len(a) = Len(c) /\ Len(b) = Len(c)
  BY <1>3, <1>4, <1>8, <1>9
<1>13. Total(c) = Total(a) + Total(b)
  BY <1>8, <1>9, <1>11, <1>12, TotalAdds, Zenon
<1>14. EntrySamples[t] = EntrySamples[u] + Weight(WrittenSamples, Flatten(q))
  <2>1. Weight(SampleCount, s) = Total(c) /\ Weight(SampleCount, m) = Total(a)
    BY Zenon DEF Weight, c, a
  <2> QED BY <1>6, <1>9, <1>13, <2>1, Zenon
<1> QED BY <1>14, Zenon DEF u, q

-----------------------------------------------------------------------------
(* No element weighs more than all together, and so no segment has more    *)
(* records than were added.                                                *)
LEMMA WeightBounds ==
  ASSUME NEW S, NEW W \in [S -> Nat], NEW q \in Seq(S)
  PROVE  Weight(W, q) \in Nat /\ \A e \in Range(q) : W[e] <= Weight(W, q)
<1> DEFINE w == Weights(W, q)
<1>1. W \in [S -> Int]
  OBVIOUS
<1>2. w \in Seq(Int) /\ Len(w) = Len(q) /\ Len(q) \in Nat
  BY <1>1, WeightsAre, SMTT(30)
<1>3. \A i \in 1..Len(q) : w[i] = W[q[i]] /\ q[i] \in S
  BY <1>1, WeightsAre, SMTT(30)
<1> HIDE DEF w
<1>4. \A i \in 1..Len(w) : w[i] \in Nat
  BY <1>2, <1>3
<1>5. w \in Seq(Nat)
  <2>1. Len(w) \in Nat /\ DOMAIN w = 1..Len(w) /\ w = [i \in 1..Len(w) |-> w[i]]
    BY <1>2
  <2>2. w \in [1..Len(w) -> Nat]
    BY <1>4, <2>1
  <2> QED BY <2>1, <2>2
<1>6. Total(w) \in Nat /\ \A i \in 1..Len(w) : w[i] <= Total(w)
  BY <1>5, TotalNat
<1>7. Weight(W, q) = Total(w)
  BY Zenon DEF Weight, w
<1>8. \A e \in Range(q) : \E i \in 1..Len(q) : e = q[i]
  BY RangeIs
<1> HIDE DEF w
<1> QED BY <1>2, <1>3, <1>6, <1>7, <1>8

LEMMA RecordsWithin ==
  ASSUME NEW ts \in Seq(Entry), NEW t \in Range(ts), NEW x \in Range(t.segs)
  PROVE  Len(x.recs) <= Weight(EntryRecords, ts)
<1>1. t \in Entry
  BY RangeIs
<1>2. RecordCount \in [Segment -> Nat]
  BY CountsAre
<1>3. ASSUME NEW e \in Entry
      PROVE  /\ EntryRecords[e] = Weight(RecordCount, e.segs) /\ EntryRecords[e] \in Nat
             /\ \A y \in Range(e.segs) : RecordCount[y] <= EntryRecords[e]
  <2>1. e.segs \in Seq(Segment)
    BY EntriesAre
  <2>2. Weight(RecordCount, e.segs) \in Nat /\ \A y \in Range(e.segs) : RecordCount[y] <= Weight(RecordCount, e.segs)
    BY <1>2, <2>1, WeightBounds, Zenon
  <2>3. EntryRecords[e] = Weight(RecordCount, e.segs)
    BY EntryCountsAre
  <2> QED BY <2>2, <2>3, Zenon
<1>4. EntryRecords \in [Entry -> Nat]
  <2>1. EntryRecords = [e \in Entry |-> EntryRecords[e]]
    BY EntryCountsAre
  <2> QED BY <1>3, <2>1
<1>5. Weight(EntryRecords, ts) \in Nat /\ EntryRecords[t] <= Weight(EntryRecords, ts)
  BY <1>4, WeightBounds, Zenon
<1>6. x \in Segment
  BY <1>1, EntriesAre
<1>7. RecordCount[x] = Len(x.recs) /\ Len(x.recs) \in Nat
  BY <1>6, CountsAre
<1>8. RecordCount[x] <= EntryRecords[t] /\ EntryRecords[t] \in Nat
  BY <1>1, <1>3
<1> HIDE DEF EntryRecords
<1> QED BY <1>5, <1>7, <1>8

LEMMA NearWidens ==
  ASSUME NEW a \in Int, NEW b \in Int, NEW d \in Nat, NEW e \in Nat, d <= e, Near(a, b, d)
  PROVE  Near(a, b, e)
BY DEF Near

(* A record written follows the samples it was made of.                    *)
LEMMA PackedPunctual ==
  ASSUME NEW ts \in Seq(Entry), NEW t \in Range(ts), NEW x \in Range(t.segs), NEW flush \in BOOLEAN,
         NEW w \in Range(Emitted(t, x, flush)), w \in Written, w.sid = t.sid, NEW alt, NEW fl,
         SegmentInv(x, alt, fl), NEW n \in Nat, Weight(EntryRecords, ts) = n
  PROVE  /\ AddedOf(ts, w.sid) # {}
         /\ ~fl => Punctual(w, AddedOf(ts, w.sid), n)
<1> DEFINE R == AddedOf(ts, w.sid)
<1>1. t \in Entry /\ x \in Segment
  <2>1. t \in Entry
    BY RangeIs
  <2> QED BY <2>1, EntriesAre
<1>2. Range(x.recs) \subseteq R
  <2>1. R = UNION {Of(e.segs) : e \in {e \in Range(ts) : e.sid = w.sid}}
    BY AddedOfIs
  <2>2. t.segs \in Seq(Segment)
    BY <1>1, EntriesAre
  <2>3. Range(x.recs) \subseteq Of(t.segs)
    BY <2>2, OfIs
  <2> QED BY <2>1, <2>3
<1>3. R \subseteq Records
  BY AddedOfIs
<1>4. PICK q \in Range(x.recs) : TRUE
  <2>1. x.recs \in Seq(Records) /\ x.recs # <<>>
    BY <1>1, SegmentsAre
  <2> QED BY <2>1, FirstIn
<1> HIDE DEF R
<1>5. /\ q.period = x.period
      /\ ~fl /\ AllData(x) => Piece(x.samples, x.start, x.end, x.period, Leeway(x))
  BY <1>4 DEF SegmentInv
<1>6. ASSUME ~fl, Even(R), NEW r \in R, NEW j \in DOMAIN w.samples
      PROVE  Near(w.samples[j], w.start + (j - 1) * r.period, n * Tolerance(r))
  <2>1. AllData(x) /\ r.period = x.period
    BY <1>2, <1>4, <1>5, <1>6 DEF Even, AllData
  <2>2. PICK c \in Nat : c = Len(x.recs) - 1
    <3>1. Len(x.recs) \in Nat \ {0}
      BY <1>1, CountsAre
    <3>2. Len(x.recs) - 1 \in Nat
      BY <3>1
    <3> QED BY <3>2
  <2>3. PICK p \in Nat : p = x.period
    BY <1>1, SegmentsAre
  <2>4. PICK h \in Nat : h = p \div 2
    BY <2>3
  <2>5. c <= n
    <3>1. Len(x.recs) <= n
      BY RecordsWithin
    <3> QED BY <2>2, <3>1
  <2>6. Leeway(x) = c * h /\ n * Tolerance(r) = n * h
    BY <2>1, <2>2, <2>3, <2>4 DEF Leeway, Tolerance
  <2>7. c * h \in Nat /\ n * h \in Nat /\ c * h <= n * h
    <3>1. PICK g \in Nat : n = c + g
      <4>1. n - c \in Nat /\ n = c + (n - c)
        BY <2>5
      <4> QED BY <4>1
    <3>2. n * h = c * h + g * h /\ g * h \in Nat /\ c * h \in Nat
      BY <3>1
    <3> QED BY <3>2
  <2>8. Near(w.samples[j], w.start + (j - 1) * x.period, c * h)
    <3>1. Piece(x.samples, x.start, x.end, x.period, c * h)
      BY <1>5, <1>6, <2>1, <2>6
    <3> QED BY <1>1, <1>6, <2>7, <3>1, EmittedInTime, Zenon
  <2>9. w.samples[j] \in Int /\ w.start + (j - 1) * x.period \in Int
    <3>1. w.samples \in Seq(Int) /\ w.start \in Int
      BY DEF Written
    <3>2. j \in Int /\ w.samples[j] \in Int
      BY <1>6, <3>1
    <3>3. (j - 1) * p \in Int
      BY <2>3, <3>2
    <3> QED BY <2>3, <3>1, <3>2, <3>3
  <2>10. Near(w.samples[j], w.start + (j - 1) * x.period, n * h)
    BY <2>7, <2>8, <2>9, NearWidens, Zenon
  <2> QED BY <2>1, <2>6, <2>10
<1>7. ~fl => Punctual(w, R, n)
  BY <1>6 DEF Punctual
<1>8. R # {}
  BY <1>2, <1>4
<1> QED BY <1>7, <1>8 DEF R

-----------------------------------------------------------------------------
(* All entries, packed.                                                    *)
LEMMA PackedList ==
  ASSUME NEW ts \in Seq(Entry), NEW flush \in BOOLEAN, NEW alt, NEW fl, NEW fl2, Since(fl, flush, fl2),
         \A k \in 1..Len(ts) : SegmentsInv(ts[k].segs, alt, fl)
  PROVE  LET us == [k \in DOMAIN ts |-> Packed(ts[k], flush)]
             E  == Flatten([k \in DOMAIN ts |-> Flatten(PackedBy(ts[k], flush))])
         IN  /\ us \in Seq(Entry) /\ Len(us) = Len(ts) /\ E \in Seq(Written)
             /\ \A k \in 1..Len(ts) : /\ us[k].sid = ts[k].sid /\ Of(us[k].segs) = Of(ts[k].segs)
                                      /\ SegmentsInv(us[k].segs, TRUE, fl2)
             /\ Weight(EntryRecords, us) = Weight(EntryRecords, ts)
             /\ Weight(EntrySamples, ts) = Weight(EntrySamples, us) + Weight(WrittenSamples, E)
             /\ \A w \in Range(E) : \E t \in Range(ts) : w \in Range(Flatten(PackedBy(t, flush)))
<1> DEFINE us == [k \in DOMAIN ts |-> Packed(ts[k], flush)]
           L == [k \in DOMAIN ts |-> Flatten(PackedBy(ts[k], flush))]
           E == Flatten(L)
           V == Seq(Written)
           c == Weights(EntrySamples, ts)
           a == Weights(EntrySamples, us)
           b == [k \in DOMAIN L |-> Weight(WrittenSamples, L[k])]
<1>1. Len(ts) \in Nat /\ DOMAIN ts = 1..Len(ts) /\ \A k \in 1..Len(ts) : ts[k] \in Entry
  OBVIOUS
<1>2. ASSUME NEW k \in 1..Len(ts)
      PROVE  /\ Packed(ts[k], flush) \in Entry /\ Packed(ts[k], flush).sid = ts[k].sid
             /\ Of(Packed(ts[k], flush).segs) = Of(ts[k].segs)
             /\ SegmentsInv(Packed(ts[k], flush).segs, TRUE, fl2)
             /\ EntryRecords[Packed(ts[k], flush)] = EntryRecords[ts[k]]
  <2>1. ts[k] \in Entry /\ SegmentsInv(ts[k].segs, alt, fl)
    BY <1>1
  <2> DEFINE t == ts[k]
  <2> HIDE DEF t
  <2>2. t \in Entry /\ SegmentsInv(t.segs, alt, fl)
    BY <2>1 DEF t
  <2>3. /\ Packed(t, flush) \in Entry /\ Packed(t, flush).sid = t.sid
        /\ Of(Packed(t, flush).segs) = Of(t.segs)
        /\ SegmentsInv(Packed(t, flush).segs, TRUE, fl2)
        /\ EntryRecords[Packed(t, flush)] = EntryRecords[t]
    BY <2>2, PackedSegments, Zenon
  <2> QED BY <2>3, Zenon DEF t
<1>3. us \in Seq(Entry) /\ Len(us) = Len(ts) /\ \A k \in 1..Len(ts) : us[k] = Packed(ts[k], flush)
  <2>1. us \in [1..Len(ts) -> Entry] /\ \A k \in 1..Len(ts) : us[k] = Packed(ts[k], flush)
    BY <1>1, <1>2
  <2> HIDE DEF us
  <2> QED BY <1>1, <2>1
<1>4. L \in Seq(V) /\ Len(L) = Len(ts) /\ \A k \in 1..Len(ts) : L[k] = Flatten(PackedBy(ts[k], flush))
  <2>1. \A k \in 1..Len(ts) : Flatten(PackedBy(ts[k], flush)) \in V
    BY <1>1, PackedRecords
  <2> HIDE DEF V
  <2>2. L \in [1..Len(ts) -> V] /\ \A k \in 1..Len(ts) : L[k] = Flatten(PackedBy(ts[k], flush))
    BY <1>1, <2>1
  <2> HIDE DEF L
  <2> QED BY <1>1, <2>2
<1> HIDE DEF us, L
<1>5. L \in Seq(Seq(Written))
  BY <1>4
<1> HIDE DEF V
<1>6. E \in Seq(Written)
  BY <1>5, FlattenIs
<1>7. \A w \in Range(E) : \E t \in Range(ts) : w \in Range(Flatten(PackedBy(t, flush)))
  <2> TAKE w \in Range(E)
  <2>1. \E k \in 1..Len(L) : w \in Range(L[k])
    BY <1>5, FlattenFrom, Zenon
  <2>2. PICK k \in 1..Len(ts) : w \in Range(Flatten(PackedBy(ts[k], flush)))
    BY <1>4, <2>1
  <2>3. ts[k] \in Range(ts)
    BY <1>1, RangeIs
  <2> QED BY <2>2, <2>3
<1>8. EntryRecords \in [Entry -> Int] /\ EntrySamples \in [Entry -> Int] /\ WrittenSamples \in [Written -> Int]
  BY EntryCountsAre, WrittenCountsAre
<1>9. Weight(EntryRecords, us) = Weight(EntryRecords, ts)
  <2>1. DOMAIN us = 1..Len(ts)
    BY <1>1, <1>3
  <2>2. \A k \in 1..Len(ts) : EntryRecords[us[k]] = EntryRecords[ts[k]]
    BY <1>2, <1>3
  <2>3. Weights(EntryRecords, us) = Weights(EntryRecords, ts)
    BY <1>1, <2>1, <2>2 DEF Weights
  <2> QED BY <2>3, Zenon DEF Weight
<1>10. c \in Seq(Int) /\ Len(c) = Len(ts) /\ \A k \in 1..Len(ts) : c[k] = EntrySamples[ts[k]]
  <2>1. EntrySamples \in [Entry -> Int]
    BY <1>8
  <2> HIDE DEF EntrySamples
  <2> QED BY <2>1, WeightsAre, SMTT(30)
<1>11. a \in Seq(Int) /\ Len(a) = Len(us) /\ \A k \in 1..Len(us) : a[k] = EntrySamples[us[k]]
  <2>1. us \in Seq(Entry) /\ EntrySamples \in [Entry -> Int]
    BY <1>3, <1>8
  <2> QED BY <2>1, WeightsAre, SMTT(30)
<1>12. b \in Seq(Int) /\ Len(b) = Len(L) /\ Weight(WrittenSamples, E) = Total(b)
  BY <1>5, <1>8, WeightFlatten, Zenon
<1>13. \A k \in 1..Len(ts) : b[k] = Weight(WrittenSamples, L[k])
  BY <1>4
<1> HIDE DEF a, b, c, E
<1>14. ASSUME NEW k \in 1..Len(c) PROVE c[k] = a[k] + b[k]
  <2>1. k \in 1..Len(ts) /\ k \in 1..Len(us)
    BY <1>3, <1>10
  <2>2. ts[k] \in Entry /\ SegmentsInv(ts[k].segs, alt, fl)
    BY <1>1, <2>1
  <2>3. EntrySamples[ts[k]] =
          EntrySamples[Packed(ts[k], flush)] + Weight(WrittenSamples, Flatten(PackedBy(ts[k], flush)))
    BY <2>2, PackedSamples, Zenon
  <2> QED BY <1>3, <1>4, <1>10, <1>11, <1>13, <2>1, <2>3, Zenon
<1>15. Len(a) = Len(c) /\ Len(b) = Len(c)
  BY <1>3, <1>4, <1>10, <1>11, <1>12
<1>16. Total(c) = Total(a) + Total(b)
  BY <1>10, <1>11, <1>12, <1>14, <1>15, TotalAdds, Zenon
<1>17. Weight(EntrySamples, ts) = Weight(EntrySamples, us) + Weight(WrittenSamples, E)
  <2>1. Weight(EntrySamples, ts) = Total(c) /\ Weight(EntrySamples, us) = Total(a)
    BY Zenon DEF Weight, c, a
  <2> QED BY <1>12, <1>16, <2>1, Zenon
<1>18. \A k \in 1..Len(ts) : /\ us[k].sid = ts[k].sid /\ Of(us[k].segs) = Of(ts[k].segs)
                             /\ SegmentsInv(us[k].segs, TRUE, fl2)
  BY <1>2, <1>3
<1> QED BY <1>3, <1>6, <1>7, <1>9, <1>17, <1>18, Zenon DEF us, E, L

LEMMA PackFollows ==
  ASSUME TraceInv, FollowInv, mstl3_pack
  PROVE  FollowInv'
<1>1. PICK flush \in BOOLEAN :
        /\ flushed' = (flushed \/ flush)
        /\ written' = written \o Flatten([k \in DOMAIN traces |->
             Flatten([i \in DOMAIN traces[k].segs |-> Emitted(traces[k], traces[k].segs[i], flush)])])
        /\ traces' = [k \in DOMAIN traces |->
             [traces[k] EXCEPT !.segs = [i \in DOMAIN @ |-> Remaining(@[i], flush)]]]
  BY DEF mstl3_pack
<1>2. altered' = TRUE /\ UNCHANGED <<adds, taken>>
  BY DEF mstl3_pack
<1> DEFINE us == [k \in DOMAIN traces |-> Packed(traces[k], flush)]
           E == Flatten([k \in DOMAIN traces |-> Flatten(PackedBy(traces[k], flush))])
           fl2 == flushed'
<1>3. traces' = us /\ written' = written \o E
  BY <1>1, Zenon DEF Packed, PackedBy
<1>4. Since(flushed, flush, fl2)
  BY <1>1 DEF Since
<1>5. /\ written \in Seq(Written) /\ adds \in Nat
      /\ \A k \in 1..Len(traces) : SegmentsInv(traces[k].segs, altered, flushed)
      /\ Weight(EntryRecords, traces) = adds
      /\ taken = Weight(WrittenSamples, written) + Weight(EntrySamples, traces)
      /\ \A w \in Range(written) :
           /\ AddedOf(traces, w.sid) # {}
           /\ ~flushed => Punctual(w, AddedOf(traces, w.sid), adds)
  BY Zenon DEF FollowInv
<1>6. traces \in Seq(Entry)
  BY DEF TraceInv, ListInv
<1> HIDE DEF fl2
<1>7. /\ us \in Seq(Entry) /\ Len(us) = Len(traces) /\ E \in Seq(Written)
      /\ \A k \in 1..Len(traces) : /\ us[k].sid = traces[k].sid /\ Of(us[k].segs) = Of(traces[k].segs)
                                   /\ SegmentsInv(us[k].segs, TRUE, fl2)
      /\ Weight(EntryRecords, us) = Weight(EntryRecords, traces)
      /\ Weight(EntrySamples, traces) = Weight(EntrySamples, us) + Weight(WrittenSamples, E)
      /\ \A w \in Range(E) : \E t \in Range(traces) : w \in Range(Flatten(PackedBy(t, flush)))
  BY <1>4, <1>5, <1>6, PackedList, Zenon
<1> HIDE DEF us, E
<1>8. \A sid : AddedOf(us, sid) = AddedOf(traces, sid)
  BY <1>6, <1>7, AddedOfSame, Zenon
<1>9. WrittenSamples \in [Written -> Int] /\ EntrySamples \in [Entry -> Int]
  BY EntryCountsAre, WrittenCountsAre
<1>10. taken' = Weight(WrittenSamples, written') + Weight(EntrySamples, us)
  <2>1. Weight(WrittenSamples, written \o E) = Weight(WrittenSamples, written) + Weight(WrittenSamples, E)
    BY <1>5, <1>7, <1>9, WeightJoined, Zenon
  <2>2. /\ Weight(WrittenSamples, written) \in Int /\ Weight(WrittenSamples, E) \in Int
        /\ Weight(EntrySamples, us) \in Int
    BY <1>5, <1>7, <1>9, WeightInt
  <2> QED BY <1>2, <1>3, <1>5, <1>7, <2>1, <2>2
<1>11. written' \in Seq(Written) /\ Range(written') = Range(written) \cup Range(E)
  BY <1>3, <1>5, <1>7, RangeConcatenation
<1>12. ASSUME NEW w \in Range(E)
       PROVE  AddedOf(traces, w.sid) # {} /\ (~fl2 => Punctual(w, AddedOf(traces, w.sid), adds))
  <2>1. PICK t \in Range(traces) : w \in Range(Flatten(PackedBy(t, flush)))
    BY <1>7
  <2>2. t \in Entry
    BY <1>6, RangeIs
  <2>3. w.sid = t.sid /\ \E x \in Range(t.segs) : w \in Range(Emitted(t, x, flush))
    BY <2>1, <2>2, PackedRecords
  <2>4. PICK x \in Range(t.segs) : w \in Range(Emitted(t, x, flush))
    BY <2>3
  <2>5. SegmentInv(x, altered, flushed)
    <3>1. PICK k \in 1..Len(traces) : t = traces[k]
      BY <1>6, RangeIs
    <3> QED BY <1>5, <3>1 DEF SegmentsInv
  <2>6. w \in Written
    BY <1>7, RangeIs
  <2>7. /\ AddedOf(traces, w.sid) # {}
        /\ ~flushed => Punctual(w, AddedOf(traces, w.sid), adds)
    BY <1>5, <1>6, <2>3, <2>4, <2>5, <2>6, PackedPunctual
  <2> QED BY <1>4, <2>7 DEF Since
<1>13. \A w \in Range(written') :
         /\ AddedOf(traces, w.sid) # {}
         /\ ~fl2 => Punctual(w, AddedOf(traces, w.sid), adds)
  BY <1>4, <1>5, <1>11, <1>12 DEF Since
<1>14. \A w \in Range(written') :
         /\ AddedOf(us, w.sid) # {}
         /\ ~fl2 => Punctual(w, AddedOf(us, w.sid), adds)
  BY <1>8, <1>13
<1>15. \A k \in 1..Len(us) : SegmentsInv(us[k].segs, TRUE, fl2)
  BY <1>7
<1>16. Weight(EntryRecords, us) = adds
  BY <1>5, <1>7
<1>17. /\ \A k \in 1..Len(traces') : SegmentsInv(traces'[k].segs, altered', flushed')
       /\ Weight(EntryRecords, traces') = adds'
       /\ taken' = Weight(WrittenSamples, written') + Weight(EntrySamples, traces')
       /\ \A w \in Range(written') :
            /\ AddedOf(traces', w.sid) # {}
            /\ ~flushed' => Punctual(w, AddedOf(traces', w.sid), adds')
  BY <1>2, <1>3, <1>10, <1>14, <1>15, <1>16, Zenon DEF fl2
<1>18. adds' \in Nat /\ altered'
  BY <1>2, <1>5
<1> QED BY <1>11, <1>17, <1>18 DEF FollowInv

-----------------------------------------------------------------------------
LEMMA EmptyFollows ==
  ASSUME traces = <<>>, written = <<>>, adds = 0, taken = 0, flushed = FALSE
  PROVE  FollowInv
<1>1. <<>> \in Seq(Written) /\ Range(<<>>) = {} /\ Len(<<>>) = 0
  BY DEF Range
<1>2. Weight(EntryRecords, <<>>) = 0 /\ Weight(EntrySamples, <<>>) = 0 /\ Weight(WrittenSamples, <<>>) = 0
  BY WeightEmpty, Zenon
<1> QED BY <1>1, <1>2 DEF FollowInv

LEMMA FollowBegins == TraceInit => FollowInv
<1> SUFFICES ASSUME TraceInit PROVE FollowInv
  OBVIOUS
<1> QED BY EmptyFollows DEF TraceInit

LEMMA FreeFollows ==
  ASSUME mstl3_free
  PROVE  FollowInv'
<1>1. traces' = <<>> /\ written' = <<>> /\ adds' = 0 /\ taken' = 0 /\ flushed' = FALSE
  BY DEF mstl3_free
<1>2. <<>> \in Seq(Written) /\ Range(<<>>) = {} /\ Len(<<>>) = 0
  BY DEF Range
<1>3. Weight(EntryRecords, <<>>) = 0 /\ Weight(EntrySamples, <<>>) = 0 /\ Weight(WrittenSamples, <<>>) = 0
  BY WeightEmpty, Zenon
<1> QED BY <1>1, <1>2, <1>3 DEF FollowInv

LEMMA FollowSteps == TraceInv /\ FollowInv /\ [TraceNext]_tracevars => FollowInv'
<1> SUFFICES ASSUME TraceInv, FollowInv, [TraceNext]_tracevars PROVE FollowInv'
  OBVIOUS
<1>1. CASE mstl3_init
  <2>1. UNCHANGED <<traces, written, adds, taken, flushed, altered>>
    BY <1>1 DEF mstl3_init
  <2> QED BY <2>1 DEF FollowInv
<1>2. CASE mstl3_free
  BY <1>2, FreeFollows
<1>3. CASE mstl3_addmsr
  BY <1>3, AddsFollow
<1>4. CASE mstl3_unpack_recordlist
  BY <1>4, UnpackFollows
<1>5. CASE mstl3_convertsamples
  BY <1>5, ConvertFollows
<1>6. CASE mstl3_pack
  BY <1>6, PackFollows
<1>7. CASE UNCHANGED tracevars
  <2>1. UNCHANGED <<traces, written, adds, taken, flushed, altered>>
    BY <1>7 DEF tracevars
  <2> QED BY <2>1 DEF FollowInv
<1> QED BY <1>1, <1>2, <1>3, <1>4, <1>5, <1>6, <1>7 DEF TraceNext

LEMMA SegmentFollows ==
  ASSUME NEW x \in Segment, NEW fl, SegmentInv(x, FALSE, fl)
  PROVE  LET recs == x.recs
         IN  /\ x.samples # <<>> /\ (\A j \in DOMAIN recs : recs[j].data) =>
                  x.samples = Flatten([j \in DOMAIN recs |-> Times(recs[j])])
             /\ \A j \in 1..(Len(recs) - 1) : Meet(EndTime(recs[j]), recs[j + 1].start, recs[j])
             /\ x.start = Head(recs).start /\ x.end = EndTime(Last(recs))
<1> DEFINE recs == x.recs
<1>1. recs \in Seq(Records) /\ recs # <<>>
  BY SegmentsAre
<1>2. /\ x.end = EndTime(recs[Len(recs)]) /\ x.start = recs[1].start /\ Chained(recs)
      /\ AllData(x) => x.samples = Flatten(TimesOf(recs))
  BY Zenon DEF SegmentInv
<1>3. Head(recs) = recs[1] /\ Last(recs) = recs[Len(recs)]
  BY <1>1 DEF Last
<1>4. (\A j \in DOMAIN recs : recs[j].data) => AllData(x)
  BY DEF AllData, Range
<1> QED BY <1>2, <1>3, <1>4, Zenon DEF Chained, TimesOf

LEMMA SamplesFollow ==
  ASSUME TraceInv, FollowInv
  PROVE  SamplesFollowRecords
<1>1. traces \in Seq(Entry)
  BY DEF TraceInv, ListInv
<1>2. /\ written \in Seq(Written) /\ adds \in Nat
      /\ \A k \in 1..Len(traces) : SegmentsInv(traces[k].segs, altered, flushed)
      /\ Weight(EntryRecords, traces) = adds
      /\ taken = Weight(WrittenSamples, written) + Weight(EntrySamples, traces)
      /\ \A w \in Range(written) : ~flushed => Punctual(w, AddedOf(traces, w.sid), adds)
  BY Zenon DEF FollowInv
<1>3. ASSUME ~altered, NEW k \in DOMAIN traces, NEW i \in DOMAIN traces[k].segs
      PROVE  LET seg == traces[k].segs[i] recs == seg.recs
             IN  /\ seg.samples # <<>> /\ (\A j \in DOMAIN recs : recs[j].data) =>
                      seg.samples = Flatten([j \in DOMAIN recs |-> Times(recs[j])])
                 /\ \A j \in 1..(Len(recs) - 1) : Meet(EndTime(recs[j]), recs[j + 1].start, recs[j])
                 /\ seg.start = Head(recs).start /\ seg.end = EndTime(Last(recs))
  <2> DEFINE x == traces[k].segs[i]
  <2>1. k \in 1..Len(traces) /\ traces[k] \in Entry
    BY <1>1
  <2>2. traces[k].segs \in Seq(Segment)
    BY <2>1, EntriesAre
  <2>3. x \in Segment /\ x \in Range(traces[k].segs)
    BY <2>2, RangeIs
  <2>4. SegmentInv(x, altered, flushed)
    BY <1>2, <2>1, <2>3 DEF SegmentsInv
  <2> HIDE DEF x
  <2>5. SegmentInv(x, FALSE, flushed)
    BY <1>3, <2>4 DEF SegmentInv
  <2>6. LET recs == x.recs
        IN  /\ x.samples # <<>> /\ (\A j \in DOMAIN recs : recs[j].data) =>
                 x.samples = Flatten([j \in DOMAIN recs |-> Times(recs[j])])
            /\ \A j \in 1..(Len(recs) - 1) : Meet(EndTime(recs[j]), recs[j + 1].start, recs[j])
            /\ x.start = Head(recs).start /\ x.end = EndTime(Last(recs))
    BY <2>3, <2>5, SegmentFollows, Zenon
  <2> QED BY <2>6, Zenon DEF x
<1>4. ASSUME ~flushed, NEW j \in DOMAIN written PROVE InTime(written[j])
  <2> DEFINE w == written[j]
  <2>1. w \in Range(written)
    BY DEF Range
  <2>2. Punctual(w, AddedOf(traces, w.sid), adds)
    BY <1>2, <1>4, <2>1
  <2>3. AddedTo(w.sid) = AddedOf(traces, w.sid)
    BY Zenon DEF AddedTo, AddedOf
  <2> HIDE DEF w
  <2>4. InTime(w)
    BY <2>2, <2>3, Zenon DEF InTime, Punctual
  <2> QED BY <2>4 DEF w
<1>5. Total([k \in DOMAIN traces |-> Total([i \in DOMAIN traces[k].segs |-> Len(traces[k].segs[i].recs)])]) = adds
  BY <1>1, <1>2, TallyIs, Zenon
<1>6. taken = Total([i \in DOMAIN written |-> Len(written[i].samples)])
              + Total([k \in DOMAIN traces |->
                  Total([i \in DOMAIN traces[k].segs |-> Len(traces[k].segs[i].samples)])])
  <2>1. Weight(WrittenSamples, written) = Total([i \in DOMAIN written |-> Len(written[i].samples)])
    BY <1>2, WrittenTallyIs, Zenon
  <2>2. Weight(EntrySamples, traces) =
          Total([k \in DOMAIN traces |-> Total([i \in DOMAIN traces[k].segs |-> Len(traces[k].segs[i].samples)])])
    BY <1>1, TallyIs, Zenon
  <2> QED BY <1>2, <2>1, <2>2, Zenon
<1> QED BY <1>3, <1>4, <1>5, <1>6, Zenon DEF SamplesFollowRecords

(* What the counts and the packing need besides the order of the list.     *)
THEOREM FollowInvariance == TraceSpec => []FollowInv
BY TraceInvariance, FollowBegins, FollowSteps, PTL DEF TraceSpec

(* No sample is lost or kept twice, whatever is added, unpacked, converted *)
(* and packed, in any order: those of a segment are those of its records   *)
(* until it is altered, and those of a record written out follow its start *)
(* time until the list is flushed (mstl3_addmsr_recordptr(), mstl3_pack()).*)
THEOREM SamplesAreThose == TraceSpec => []SamplesFollowRecords
<1>1. TraceInv /\ FollowInv => SamplesFollowRecords
  BY SamplesFollow
<1> QED BY <1>1, TraceInvariance, FollowInvariance, PTL
=============================================================================
