--------------------------- MODULE DalitoolProofs ---------------------------
(***************************************************************************)
(* Proofs about Dalitool and its state file for every value of their       *)
(* constants: that what was saved is read (RecoveredSaved), types, that    *)
(* the next session reads back the position of the last complete save      *)
(* (RecoversSaved), that INFO requests keep their interval (InfoRate), and *)
(* that a session goes on where an earlier one stopped                     *)
(* (PositionWasHandled, NoLoss).                                           *)
(***************************************************************************)
EXTENDS Dalitool, Numbers, SequenceTheorems, TLAPS

-----------------------------------------------------------------------------
(* The state file, for every base, address and number: what the digits of  *)
(* a number are worth, and what dl_recoverstate() reads from a file that   *)
(* begins with a line dl_savestate() wrote.  By induction over numbers and *)
(* over the lengths of texts, with the lemmas of Numbers.                  *)

(* Numbers.  The definitions by recursion have the values they name.       *)
LEMMA Division ==
  ASSUME NEW n \in Nat
  PROVE  /\ n \div Base \in Nat /\ n % Base \in Digit
         /\ n = Base * (n \div Base) + (n % Base)
         /\ n >= Base => n \div Base < n /\ n \div Base > 0
<1>1. Base \in Nat /\ Base > 1
  BY BaseAssumption
<1>2. n \div Base \in Int /\ n % Base \in 0..(Base - 1)
      /\ n = Base * (n \div Base) + (n % Base)
  BY <1>1
<1> QED
  BY <1>1, <1>2 DEF Digit

LEMMA DigitsEquation ==
  /\ Digits \in [Nat -> Seq(Digit)]
  /\ \A n \in Nat : Digits[n] = IF n < Base THEN <<n>> ELSE Append(Digits[n \div Base], n % Base)
<1> DEFINE leaf   == {n \in Nat : n < Base}
           rank   == [n \in Nat |-> n]
           parent == [n \in Nat |-> n \div Base]
           base   == [n \in Nat |-> <<n % Base>>]
           step   == [n \in Nat |-> [s \in Seq(Digit) |-> Append(s, n % Base)]]
           Is(f)  == f = [n \in Nat |-> IF n < Base THEN <<n>> ELSE Append(f[n \div Base], n % Base)]
<1>1. /\ rank \in [Nat -> Nat] /\ parent \in [Nat -> Nat] /\ base \in [Nat -> Seq(Digit)]
      /\ step \in [Nat -> [Seq(Digit) -> Seq(Digit)]]
      /\ \A n \in Nat \ leaf : rank[parent[n]] < rank[n]
  <2>1. rank \in [Nat -> Nat] /\ parent \in [Nat -> Nat]
    BY Division
  <2>2. \A n \in Nat : <<n % Base>> \in Seq(Digit)
    BY Division
  <2>3. \A n \in Nat, s \in Seq(Digit) : Append(s, n % Base) \in Seq(Digit)
    BY Division
  <2>4. ASSUME NEW n \in Nat \ leaf PROVE rank[parent[n]] < rank[n]
    BY Division, BaseAssumption
  <2> QED
    BY <2>1, <2>2, <2>3, <2>4
<1>2. \A n \in leaf : base[n] = <<n>>
  BY BaseAssumption
<1>3. \A n \in Nat, s \in Seq(Digit) :
        parent[n] = n \div Base /\ n \div Base \in Nat /\ step[n][s] = Append(s, n % Base)
  BY Division
<1>4. \A n \in Nat : n \in leaf <=> n < Base
  OBVIOUS
<1> HIDE DEF leaf, rank, parent, base, step
<1>5. PICK f \in [Nat -> Seq(Digit)] : \A n \in Nat : Follows(f, n, parent, leaf, base, step)
  BY <1>1, Recursion
<1>6. \A n \in Nat : f[n] = IF n < Base THEN <<n>> ELSE Append(f[n \div Base], n % Base)
  BY <1>2, <1>3, <1>4, <1>5 DEF Follows
<1>7. Is(f)
  BY <1>5, <1>6
<1>8. Is(Digits)
  BY <1>7, Zenon DEF Digits
<1> HIDE DEF Is
<1> DEFINE Typed == {n \in Nat : Digits[n] \in Seq(Digit)}
<1>9. ASSUME NEW n \in Nat, \A k \in Nat : k < n => k \in Typed PROVE n \in Typed
  <2>1. Digits[n] = IF n < Base THEN <<n>> ELSE Append(Digits[n \div Base], n % Base)
    BY <1>8 DEF Is
  <2> HIDE DEF Typed
  <2>2. n >= Base => n \div Base \in Typed
    BY <1>9, Division
  <2>3. n \in Digit \/ n >= Base
    BY BaseAssumption DEF Digit
  <2>4. CASE n \in Digit
    <3>1. n < Base /\ <<n>> \in Seq(Digit)
      BY <2>4, BaseAssumption DEF Digit
    <3>2. Digits[n] = <<n>>
      BY <2>1, <3>1, Zenon
    <3>3. Digits[n] \in Seq(Digit)
      BY <3>1, <3>2, Zenon
    <3> QED
      BY <3>3, Zenon DEF Typed
  <2>5. CASE n >= Base
    <3>0. ~(n < Base)
      BY <2>5, BaseAssumption
    <3>1. ~(n < Base) /\ n % Base \in Digit
      BY <3>0, Division, Zenon
    <3>2. Digits[n] = Append(Digits[n \div Base], n % Base)
      BY <2>1, <3>1, Zenon
    <3>3. Digits[n \div Base] \in Seq(Digit)
      BY <2>2, <2>5, Zenon DEF Typed
    <3>4. Append(Digits[n \div Base], n % Base) \in Seq(Digit)
      BY <3>1, <3>3, AppendProperties, Zenon
    <3>5. Digits[n] \in Seq(Digit)
      BY <3>2, <3>4, Zenon
    <3> QED
      BY <3>5, Zenon DEF Typed
  <2> QED
    BY <2>3, <2>4, <2>5
<1> HIDE DEF Typed
<1>10. \A n \in Nat : n \in Typed
  BY <1>9, StrongInduction DEF Typed
<1> QED
  BY <1>8, <1>10 DEF Is, Typed

Front(s) == SubSeq(s, 1, Len(s) - 1)

LEMMA FrontShorter ==
  ASSUME NEW s \in Seq(Digit), s # <<>>
  PROVE  /\ Front(s) \in Seq(Digit) /\ Len(Front(s)) = Len(s) - 1 /\ Len(s) - 1 \in Nat
         /\ s[Len(s)] \in Digit /\ Len(s) \in Nat
<1>1. Len(s) \in Nat \ {0} /\ \A i \in 1..Len(s) : s[i] \in Digit
  OBVIOUS
<1>2. \A i \in 1..(Len(s) - 1) : s[i] \in Digit
  BY <1>1
<1>3. Len(s) - 1 \in Nat /\ Len(s) \in 1..Len(s)
  BY <1>1
<1>4. Front(s) \in Seq(Digit) /\ Len(Front(s)) = IF 1 <= Len(s) - 1 THEN Len(s) - 1 - 1 + 1 ELSE 0
  BY <1>2, <1>3, SubSeqProperties DEF Front
<1> DEFINE n == Len(s) - 1
<1>5. Len(Front(s)) = Len(s) - 1
  <2>1. n \in Nat /\ Len(Front(s)) = IF 1 <= n THEN n - 1 + 1 ELSE 0
    BY <1>3, <1>4
  <2> HIDE DEF n
  <2>2. Len(Front(s)) = n
    BY <2>1
  <2> QED
    BY <2>2 DEF n
<1>6. s[Len(s)] \in Digit
  BY <1>1, <1>3, Zenon
<1> QED
  BY <1>1, <1>3, <1>4, <1>5, <1>6, Zenon

LEMMA ValueEquation ==
  /\ Value \in [Seq(Digit) -> Nat]
  /\ \A s \in Seq(Digit) : Value[s] = IF s = <<>> THEN 0 ELSE Base * Value[Front(s)] + s[Len(s)]
<1> DEFINE S      == Seq(Digit)
           leaf   == {s \in S : s = <<>>}
           rank   == [s \in S |-> Len(s)]
           parent == [s \in S |-> IF s = <<>> THEN s ELSE Front(s)]
           base   == [s \in S |-> 0]
           lastDigit(s) == IF s = <<>> THEN 0 ELSE s[Len(s)]
           step   == [s \in S |-> [v \in Nat |-> Base * v + lastDigit(s)]]
           Is(f)  == f = [s \in S |-> IF s = <<>> THEN 0
                                       ELSE Base * f[SubSeq(s, 1, Len(s) - 1)] + s[Len(s)]]
<1>1. \A s \in S : lastDigit(s) \in Nat
  <2>1. \A s \in S : s # <<>> => s[Len(s)] \in Digit
    BY FrontShorter
  <2>2. \A d \in Digit : d \in Nat
    BY BaseAssumption DEF Digit
  <2> QED
    BY <2>1, <2>2
<1>2. /\ rank \in [S -> Nat] /\ parent \in [S -> S] /\ base \in [S -> Nat]
      /\ step \in [S -> [Nat -> Nat]]
      /\ \A s \in S \ leaf : rank[parent[s]] < rank[s]
  <2> HIDE DEF lastDigit
  <2>1. rank \in [S -> Nat] /\ parent \in [S -> S] /\ base \in [S -> Nat]
    BY FrontShorter
  <2>2. \A s \in S, v \in Nat : Base * v + lastDigit(s) \in Nat
    BY <1>1, BaseAssumption
  <2>3. step \in [S -> [Nat -> Nat]]
    <3> HIDE DEF S
    <3> QED
      BY <2>2
  <2>4. ASSUME NEW s \in S \ leaf PROVE rank[parent[s]] < rank[s]
    <3>1. parent[s] = Front(s) /\ Front(s) \in S /\ rank[Front(s)] = Len(Front(s)) /\ rank[s] = Len(s)
      BY <2>4, FrontShorter
    <3> HIDE DEF rank, parent
    <3> QED
      BY <2>4, <3>1, FrontShorter
  <2> QED
    BY <2>1, <2>3, <2>4
<1>3. \A s \in S : s \in leaf <=> s = <<>>
  OBVIOUS
<1>4. \A s \in S : base[s] = 0 /\ (s # <<>> => parent[s] = Front(s) /\ Front(s) \in S)
  BY FrontShorter
<1>5. \A s \in S, v \in Nat : s # <<>> => step[s][v] = Base * v + s[Len(s)]
  OBVIOUS
<1> HIDE DEF S, leaf, rank, parent, base, step, lastDigit
<1>6. PICK f \in [S -> Nat] : \A s \in S : Follows(f, s, parent, leaf, base, step)
  BY <1>2, Recursion
<1>7. \A s \in S : f[s] = IF s = <<>> THEN 0 ELSE Base * f[Front(s)] + s[Len(s)]
  BY <1>3, <1>4, <1>5, <1>6 DEF Follows
<1>8. Is(f)
  BY <1>6, <1>7 DEF Front
<1>9. Is(Value)
  BY <1>8, Zenon DEF Value, S
<1>10. \A s \in S : Value[s] = IF s = <<>> THEN 0 ELSE Base * Value[Front(s)] + s[Len(s)]
  BY <1>9, Zenon DEF Front
<1> DEFINE Typed == {n \in Nat : \A s \in S : Len(s) = n => Value[s] \in Nat}
<1>11. ASSUME NEW n \in Nat, \A k \in Nat : k < n => k \in Typed PROVE n \in Typed
  <2> SUFFICES ASSUME NEW s \in S, Len(s) = n PROVE Value[s] \in Nat
    BY Zenon
  <2>1. CASE s = <<>>
    BY <2>1, <1>10
  <2>2. CASE s # <<>>
    <3>1. Front(s) \in S /\ Len(Front(s)) = n - 1 /\ n - 1 \in Nat /\ s[Len(s)] \in Nat
      BY <2>2, FrontShorter, BaseAssumption DEF S, Digit
    <3>2. n - 1 < n
      OBVIOUS
    <3>3. n - 1 \in Typed
      BY <1>11, <3>1, <3>2, Zenon
    <3>4. Value[Front(s)] \in Nat
      BY <3>1, <3>3, Zenon
    <3>5. Value[s] = Base * Value[Front(s)] + s[Len(s)]
      BY <1>10, <2>2, Zenon
    <3> QED
      BY <3>1, <3>4, <3>5, BaseAssumption
  <2> QED
    BY <2>1, <2>2
<1> HIDE DEF Typed
<1>12. \A n \in Nat : n \in Typed
  BY <1>11, StrongInduction DEF Typed
<1>13. \A s \in S : Value[s] \in Nat
  BY <1>12 DEF Typed, S
<1>14. Value = [s \in S |-> Value[s]]
  BY <1>9
<1> QED
  BY <1>10, <1>13, <1>14 DEF S

(* A number is read back as it was written.                                *)
LEMMA DigitsValue ==
  ASSUME NEW n \in Nat
  PROVE  Digits[n] \in Seq(Digit) /\ Digits[n] # <<>> /\ Value[Digits[n]] = n
<1> DEFINE ReadBack == {k \in Nat : Digits[k] # <<>> /\ Value[Digits[k]] = k}
<1>1. ASSUME NEW k \in Nat, \A j \in Nat : j < k => j \in ReadBack PROVE k \in ReadBack
  <2>1. CASE k < Base
    <3>0. Digits[k] = <<k>>
      BY <2>1, DigitsEquation, Zenon
    <3>1. Digits[k] = <<k>> /\ k \in Digit
      BY <2>1, <3>0, BaseAssumption DEF Digit
    <3>2. /\ <<k>> \in Seq(Digit) /\ <<k>> # <<>> /\ Len(<<k>>) = 1 /\ <<k>>[1] = k
          /\ Front(<<k>>) = <<>>
      BY <3>1 DEF Front
    <3>3. Value[<<>>] = 0
      BY <3>2, ValueEquation, EmptySeq, Zenon
    <3>4. Value[<<k>>] = Base * Value[<<>>] + k
      BY <3>2, ValueEquation
    <3> QED
      BY <3>1, <3>2, <3>3, <3>4, BaseAssumption
  <2>2. CASE ~(k < Base)
    <3> DEFINE q == k \div Base
               d == Digits[q]
               r == k % Base
               s == Append(d, r)
    <3>1. q \in Nat /\ r \in Digit /\ k = Base * q + r /\ q < k
      BY <2>2, Division, BaseAssumption
    <3>2. d \in Seq(Digit) /\ Value[d] = q /\ Digits[k] = s
      BY <1>1, <2>2, <3>1, DigitsEquation
    <3> HIDE DEF q, r, d
    <3>3. s \in Seq(Digit) /\ s # <<>> /\ Len(s) = Len(d) + 1 /\ s[Len(s)] = r
      BY <3>1, <3>2
    <3>4. Front(s) = d
      BY <3>1, <3>2 DEF Front
    <3> HIDE DEF s
    <3>5. Value[s] = Base * q + r
      BY <3>2, <3>3, <3>4, ValueEquation
    <3> QED
      BY <3>1, <3>2, <3>3, <3>5
  <2> QED
    BY <2>1, <2>2
<1> HIDE DEF ReadBack
<1>2. \A k \in Nat : k \in ReadBack
  BY <1>1, StrongInduction DEF ReadBack
<1> QED
  BY <1>2, DigitsEquation DEF ReadBack

-----------------------------------------------------------------------------
(* Scanning.  Past stops somewhere, and at the first place it can.         *)
LEMMA PastStops ==
  ASSUME NEW C, NEW line \in Seq(C), NEW i \in 1..(Len(line) + 1), NEW S
  PROVE  /\ Past(line, i, S) \in i..(Len(line) + 1)
         /\ \A k \in i..(Past(line, i, S) - 1) : line[k] \in S
<1> DEFINE Stop == {j \in i..(Len(line) + 1) : j <= Len(line) => line[j] \notin S}
           Is(j) == /\ \A k \in i..(j - 1) : line[k] \in S
                    /\ j <= Len(line) => line[j] \notin S
<1>1. Len(line) \in Nat
  OBVIOUS
<1>2. Len(line) + 1 \in Stop /\ Stop \in SUBSET Nat
  BY <1>1
<1>3. PICK j \in Stop : \A k \in Stop : j <= k
  BY <1>2, LeastNumber
<1>4. j \in i..(Len(line) + 1) /\ Is(j)
  BY <1>1, <1>3
<1> HIDE DEF Is, Stop
<1>5. Past(line, i, S) \in i..(Len(line) + 1) /\ Is(Past(line, i, S))
  BY <1>4, Zenon DEF Past, Is
<1> QED
  BY <1>5 DEF Is

LEMMA PastIs ==
  ASSUME NEW C, NEW line \in Seq(C), NEW i \in 1..(Len(line) + 1), NEW S,
         NEW j \in i..(Len(line) + 1),
         \A k \in i..(j - 1) : line[k] \in S,
         j <= Len(line) => line[j] \notin S
  PROVE  Past(line, i, S) = j
<1> DEFINE Is(n) == /\ \A k \in i..(n - 1) : line[k] \in S
                    /\ n <= Len(line) => line[n] \notin S
<1>1. Len(line) \in Nat
  OBVIOUS
<1>2. \A n \in i..(Len(line) + 1) : Is(n) => n = j
  BY <1>1
<1>3. Is(j)
  OBVIOUS
<1> HIDE DEF Is
<1>4. Past(line, i, S) \in i..(Len(line) + 1) /\ Is(Past(line, i, S))
  BY <1>3, Zenon DEF Past, Is
<1> QED
  BY <1>2, <1>4

(* Whatever a line holds, a number that is converted is one.               *)
Number == {<<n>> : n \in Nat}

LEMMA ScanType ==
  ASSUME NEW C, NEW line \in Seq(C)
  PROVE  Scan(line).id \in {<<>>} \cup Number /\ Scan(line).time \in {<<>>} \cup Number
<1> DEFINE a == Past(line, 1, {SP})
           b == Past(line, a, Cells(line) \ {SP})
           c == Past(line, b, {SP})
           d == Past(line, c, Digit)
           e == Past(line, d, {SP})
           f == Past(line, e, Digit)
           n == Len(line) + 1
           id   == IF c < d THEN <<Value[SubSeq(line, c, d - 1)]>> ELSE <<>>
           time == IF c < d /\ e < f THEN <<Value[SubSeq(line, e, f - 1)]>> ELSE <<>>
<1>1. Len(line) \in Nat /\ 1 \in 1..n
  OBVIOUS
<1>2. a \in 1..n
  BY <1>1, PastStops
<1> HIDE DEF a
<1>3. b \in 1..n
  BY <1>1, <1>2, PastStops
<1> HIDE DEF b
<1>4. c \in 1..n
  BY <1>1, <1>3, PastStops
<1> HIDE DEF c
<1>5. d \in c..n /\ d \in 1..n /\ \A k \in c..(d - 1) : line[k] \in Digit
  BY <1>1, <1>4, PastStops
<1> HIDE DEF d
<1>6. e \in 1..n
  BY <1>1, <1>5, PastStops
<1> HIDE DEF e
<1>7. f \in e..n /\ f \in 1..n /\ \A k \in e..(f - 1) : line[k] \in Digit
  BY <1>1, <1>6, PastStops
<1> HIDE DEF f
<1>8. Value[SubSeq(line, c, d - 1)] \in Nat
  <2>1. SubSeq(line, c, d - 1) \in Seq(Digit)
    BY <1>1, <1>4, <1>5, SubSeqProperties
  <2> QED
    BY <2>1, ValueEquation
<1>9. Value[SubSeq(line, e, f - 1)] \in Nat
  <2>1. SubSeq(line, e, f - 1) \in Seq(Digit)
    BY <1>1, <1>6, <1>7, SubSeqProperties
  <2> QED
    BY <2>1, ValueEquation
<1>10. Scan(line) = [addr |-> SubSeq(line, a, b - 1), id |-> id, time |-> time]
  BY Zenon DEF Scan, a, b, c, d, e, f
<1>11. id \in {<<>>} \cup Number /\ time \in {<<>>} \cup Number
  BY <1>8, <1>9, Zenon DEF Number
<1> HIDE DEF id, time
<1> QED
  BY <1>10, <1>11

LEMMA Concat ==
  ASSUME NEW C, NEW s \in Seq(C), NEW t \in Seq(C)
  PROVE  /\ s \o t \in Seq(C) /\ Len(s \o t) = Len(s) + Len(t)
         /\ Len(s) \in Nat /\ Len(t) \in Nat
         /\ \A k \in 1..Len(s) : (s \o t)[k] = s[k]
         /\ \A k \in 1..Len(t) : (s \o t)[Len(s) + k] = t[k]
  OBVIOUS

(* A line dl_savestate() wrote, without its newline.                       *)
LineBody(addr, id, time) == addr \o <<SP>> \o Digits[id] \o <<SP>> \o Digits[time]

LEMMA ScanLine ==
  ASSUME NEW C, NEW addr \in Seq(C), addr # <<>>, SP \notin Cells(addr),
         NEW id \in Nat, NEW time \in Nat
  PROVE  Scan(LineBody(addr, id, time)) = [addr |-> addr, id |-> <<id>>, time |-> <<time>>]
<1> DEFINE line == LineBody(addr, id, time)
           D == C \cup Digit \cup {SP}
           m == Digits[id]
           t == Digits[time]
           la == Len(addr)
           lm == Len(m)
           lt == Len(t)
           n == la + 1 + lm + 1 + lt
<1>1. /\ m \in Seq(Digit) /\ m # <<>> /\ Value[m] = id
      /\ t \in Seq(Digit) /\ t # <<>> /\ Value[t] = time
  BY DigitsValue
<1> HIDE DEF m, t
<1>2. la \in Nat \ {0} /\ lm \in Nat \ {0} /\ lt \in Nat \ {0}
  BY <1>1
<1>3. /\ line \in Seq(D) /\ Len(line) = n
      /\ \A k \in 1..la : line[k] = addr[k]
      /\ line[la + 1] = SP
      /\ \A k \in 1..lm : line[la + 1 + k] = m[k]
      /\ line[la + 1 + lm + 1] = SP
      /\ \A k \in 1..lt : line[la + 1 + lm + 1 + k] = t[k]
  <2> DEFINE s1 == addr \o <<SP>>
             s2 == s1 \o m
             s3 == s2 \o <<SP>>
  <2>1. addr \in Seq(D) /\ m \in Seq(D) /\ t \in Seq(D)
    BY <1>1
  <2>2. <<SP>> \in Seq(D) /\ Len(<<SP>>) = 1 /\ 1 \in 1..1 /\ <<SP>>[1] = SP
    OBVIOUS
  <2>3. line = s3 \o t
    BY DEF LineBody, m, t
  <2> HIDE DEF line, D
  <2>4. /\ s1 \in Seq(D) /\ Len(s1) = Len(addr) + Len(<<SP>>)
        /\ \A k \in 1..Len(addr) : s1[k] = addr[k]
        /\ \A k \in 1..Len(<<SP>>) : s1[Len(addr) + k] = <<SP>>[k]
    BY <2>1, <2>2, Concat
  <2> HIDE DEF s1
  <2>5. /\ s1 \in Seq(D) /\ Len(s1) = la + 1
        /\ \A k \in 1..la : s1[k] = addr[k]
        /\ s1[la + 1] = SP
    BY <2>1, <2>2, <2>4
  <2>6. /\ s2 \in Seq(D) /\ Len(s2) = Len(s1) + Len(m)
        /\ \A k \in 1..Len(s1) : s2[k] = s1[k]
        /\ \A k \in 1..Len(m) : s2[Len(s1) + k] = m[k]
    <3>1. s1 \in Seq(D) /\ m \in Seq(D)
      BY <2>1, <2>5
    <3> QED
      BY <3>1, Concat
  <2> HIDE DEF s2
  <2>7. /\ s2 \in Seq(D) /\ Len(s2) = la + 1 + lm
        /\ \A k \in 1..(la + 1) : s2[k] = s1[k]
        /\ \A k \in 1..lm : s2[la + 1 + k] = m[k]
    BY <2>1, <2>5, <2>6
  <2>8. /\ s3 \in Seq(D) /\ Len(s3) = Len(s2) + Len(<<SP>>)
        /\ \A k \in 1..Len(s2) : s3[k] = s2[k]
        /\ \A k \in 1..Len(<<SP>>) : s3[Len(s2) + k] = <<SP>>[k]
    <3>1. s2 \in Seq(D) /\ <<SP>> \in Seq(D)
      BY <2>2, <2>7
    <3> QED
      BY <3>1, Concat
  <2> HIDE DEF s3
  <2>9. /\ s3 \in Seq(D) /\ Len(s3) = la + 1 + lm + 1
        /\ \A k \in 1..(la + 1 + lm) : s3[k] = s2[k]
        /\ s3[la + 1 + lm + 1] = SP
    BY <2>2, <2>7, <2>8
  <2>10. /\ line \in Seq(D) /\ Len(line) = Len(s3) + Len(t)
         /\ \A k \in 1..Len(s3) : line[k] = s3[k]
         /\ \A k \in 1..Len(t) : line[Len(s3) + k] = t[k]
    <3>1. s3 \in Seq(D) /\ t \in Seq(D)
      BY <2>1, <2>9, <2>3
    <3> QED
      BY <3>1, <2>3, Concat
  <2>11. /\ line \in Seq(D) /\ Len(line) = n
         /\ \A k \in 1..(la + 1 + lm + 1) : line[k] = s3[k]
         /\ \A k \in 1..lt : line[la + 1 + lm + 1 + k] = t[k]
    BY <2>1, <2>9, <2>10
  <2>12. /\ \A k \in 1..la : k \in 1..(la + 1) /\ k \in 1..(la + 1 + lm) /\ k \in 1..(la + 1 + lm + 1)
         /\ \A k \in 1..lm : la + 1 + k \in 1..(la + 1 + lm) /\ la + 1 + k \in 1..(la + 1 + lm + 1)
         /\ la + 1 \in 1..(la + 1) /\ la + 1 \in 1..(la + 1 + lm) /\ la + 1 \in 1..(la + 1 + lm + 1)
         /\ la + 1 + lm + 1 \in 1..(la + 1 + lm + 1)
    BY <1>2
  <2> QED
    <3>1. \A k \in 1..la : line[k] = addr[k]
      BY <2>5, <2>7, <2>9, <2>11, <2>12, Zenon
    <3>2. line[la + 1] = SP
      BY <2>5, <2>7, <2>9, <2>11, <2>12, Zenon
    <3>3. \A k \in 1..lm : line[la + 1 + k] = m[k]
      BY <2>7, <2>9, <2>11, <2>12, Zenon
    <3>4. line[la + 1 + lm + 1] = SP
      BY <2>9, <2>11, <2>12, Zenon
    <3> QED
      BY <2>11, <3>1, <3>2, <3>3, <3>4, Zenon
<1> HIDE DEF line, D
<1> DEFINE i2 == la + 1
           i3 == la + 2
           i4 == la + 2 + lm
           i5 == la + 3 + lm
           i6 == n + 1
<1>4. /\ \A k \in 1..la : line[k] # SP
      /\ \A k \in i3..(i4 - 1) : line[k] \in Digit /\ line[k] # SP
      /\ \A k \in i5..n : line[k] \in Digit /\ line[k] # SP
      /\ line[i2] = SP /\ line[i4] = SP
  <2>1. \A k \in 1..la : addr[k] \in Cells(addr)
    BY DEF Cells
  <2>2. \A k \in 1..la : line[k] # SP
    BY <1>3, <2>1
  <2>3. \A k \in i3..(i4 - 1) : k - la - 1 \in 1..lm /\ la + 1 + (k - la - 1) = k
    BY <1>2
  <2>4. \A k \in i5..n : k - la - lm - 2 \in 1..lt /\ la + 1 + lm + 1 + (k - la - lm - 2) = k
    BY <1>2
  <2>5. \A k \in 1..lm : m[k] \in Digit
    BY <1>1
  <2>6. \A k \in 1..lt : t[k] \in Digit
    BY <1>1
  <2>7. SP \notin Digit
    BY CellAssumption
  <2>8. \A k \in i3..(i4 - 1) : line[k] \in Digit
    BY <1>3, <2>3, <2>5, Zenon
  <2>9. \A k \in i5..n : line[k] \in Digit
    BY <1>3, <2>4, <2>6, Zenon
  <2>10. line[i2] = SP /\ line[i4] = SP
    BY <1>2, <1>3
  <2> QED
    BY <2>2, <2>7, <2>8, <2>9, <2>10, Zenon
<1>5. \A k \in 1..n : line[k] \in Cells(line)
  BY <1>3 DEF Cells
<1> DEFINE N == Len(line) + 1
<1>6. /\ 1 \in 1..N /\ i2 \in 1..N /\ i3 \in 1..N /\ i4 \in 1..N /\ i5 \in 1..N /\ i6 \in 1..N
      /\ i3 \in i2..N /\ i4 \in i3..N /\ i5 \in i4..N /\ i6 \in i5..N
      /\ n \in Nat /\ ~(i6 <= Len(line)) /\ i3 < i4 /\ i5 < i6
  BY <1>2, <1>3
<1>a. /\ 1 \in 1..la /\ i3 \in i3..(i4 - 1) /\ i5 \in i5..n
      /\ \A k \in 1..(i2 - 1) : k \in 1..la /\ k \in 1..n
      /\ \A k \in i2..(i3 - 1) : k = i2
      /\ \A k \in i4..(i5 - 1) : k = i4
      /\ \A k \in i5..(i6 - 1) : k \in i5..n
      /\ \A k \in 1..(1 - 1) : FALSE
  BY <1>2
<1>b. line[i4] \notin Digit
  BY <1>4, CellAssumption
<1> HIDE DEF i2, i3, i4, i5, i6, n, N
<1>7. Past(line, 1, {SP}) = 1
  <2>1. \A k \in 1..(1 - 1) : line[k] \in {SP}
    BY <1>a
  <2>2. 1 <= Len(line) => line[1] \notin {SP}
    BY <1>4, <1>a
  <2>3. 1 \in 1..(Len(line) + 1)
    BY <1>6 DEF N
  <2> DEFINE one == 1
  <2> HIDE DEF one
  <2>4. one = 1
    BY DEF one
  <2>5. one \in one..(Len(line) + 1) /\ one \in 1..(Len(line) + 1)
    BY <2>3, <2>4
  <2>6. \A k \in one..(one - 1) : line[k] \in {SP}
    BY <2>1, <2>4
  <2>7. one <= Len(line) => line[one] \notin {SP}
    BY <2>2, <2>4
  <2>8. Past(line, one, {SP}) = one
    BY <1>3, <2>5, <2>6, <2>7, PastIs, Zenon
  <2> QED
    BY <2>4, <2>8
<1> DEFINE Letters == Cells(line) \ {SP}
<1>8. Past(line, 1, Letters) = i2
  <2>1. \A k \in 1..(i2 - 1) : line[k] \in Letters
    BY <1>4, <1>5, <1>a
  <2>2. i2 <= Len(line) => line[i2] \notin Letters
    BY <1>4
  <2> HIDE DEF Letters
  <2> QED
    BY <1>3, <1>6, <2>1, <2>2, PastIs, Zenon DEF N
<1>9. Past(line, i2, {SP}) = i3
  <2>1. \A k \in i2..(i3 - 1) : line[k] \in {SP}
    BY <1>4, <1>a
  <2>2. i3 <= Len(line) => line[i3] \notin {SP}
    BY <1>4, <1>a
  <2> QED
    BY <1>3, <1>6, <2>1, <2>2, PastIs, Zenon DEF N
<1>10. Past(line, i3, Digit) = i4
  <2>1. \A k \in i3..(i4 - 1) : line[k] \in Digit
    BY <1>4, <1>b
  <2>2. i4 <= Len(line) => line[i4] \notin Digit
    BY <1>4, <1>b
  <2> QED
    BY <1>3, <1>6, <2>1, <2>2, PastIs, Zenon DEF N
<1>11. Past(line, i4, {SP}) = i5
  <2>1. \A k \in i4..(i5 - 1) : line[k] \in {SP}
    BY <1>4, <1>a
  <2>2. i5 <= Len(line) => line[i5] \notin {SP}
    BY <1>4, <1>a
  <2> QED
    BY <1>3, <1>6, <2>1, <2>2, PastIs, Zenon DEF N
<1>12. Past(line, i5, Digit) = i6
  <2>1. \A k \in i5..(i6 - 1) : line[k] \in Digit
    BY <1>4, <1>a, <1>6
  <2>2. i6 <= Len(line) => line[i6] \notin Digit
    BY <1>4, <1>a, <1>6
  <2> QED
    BY <1>3, <1>6, <2>1, <2>2, PastIs, Zenon DEF N
<1>13. /\ SubSeq(line, 1, i2 - 1) = addr
       /\ SubSeq(line, i3, i4 - 1) = m
       /\ SubSeq(line, i5, i6 - 1) = t
  <2>1. SubSeq(line, 1, i2 - 1) = addr
    <3>1. /\ SubSeq(line, 1, i2 - 1) \in Seq(D) /\ Len(SubSeq(line, 1, i2 - 1)) = la
          /\ \A k \in 1..la : SubSeq(line, 1, i2 - 1)[k] = line[k]
      BY <1>2, <1>3 DEF i2, i3, i4, i5, i6, n
    <3>2. addr \in Seq(D)
      BY DEF D
    <3> QED
      BY <1>3, <3>1, <3>2, SeqEqual
  <2>2. SubSeq(line, i3, i4 - 1) = m
    <3>1. /\ SubSeq(line, i3, i4 - 1) \in Seq(D) /\ Len(SubSeq(line, i3, i4 - 1)) = lm
          /\ \A k \in 1..lm : SubSeq(line, i3, i4 - 1)[k] = line[la + 1 + k]
      BY <1>2, <1>3 DEF i2, i3, i4, i5, i6, n
    <3>2. m \in Seq(D)
      BY <1>1 DEF D
    <3> QED
      BY <1>3, <3>1, <3>2, SeqEqual
  <2>3. SubSeq(line, i5, i6 - 1) = t
    <3>1. /\ SubSeq(line, i5, i6 - 1) \in Seq(D) /\ Len(SubSeq(line, i5, i6 - 1)) = lt
          /\ \A k \in 1..lt : SubSeq(line, i5, i6 - 1)[k] = line[la + 1 + lm + 1 + k]
      BY <1>2, <1>3 DEF i2, i3, i4, i5, i6, n
    <3>2. t \in Seq(D)
      BY <1>1 DEF D
    <3> QED
      BY <1>3, <3>1, <3>2, SeqEqual
  <2> QED
    BY <2>1, <2>2, <2>3
<1>15. Scan(line) = [addr |-> SubSeq(line, 1, i2 - 1), id |-> <<Value[SubSeq(line, i3, i4 - 1)]>>,
                     time |-> <<Value[SubSeq(line, i5, i6 - 1)]>>]
  BY <1>7, <1>8, <1>9, <1>10, <1>11, <1>12, <1>6, Zenon DEF Scan
<1> QED
  BY <1>1, <1>13, <1>15, Zenon DEF line

(* Only the newline at its end ends it.                                    *)
LEMMA CellsConcat ==
  ASSUME NEW C, NEW s \in Seq(C), NEW t \in Seq(C)
  PROVE  Cells(s \o t) \subseteq Cells(s) \cup Cells(t)
<1> SUFFICES ASSUME NEW k \in 1..Len(s \o t) PROVE (s \o t)[k] \in Cells(s) \cup Cells(t)
  BY DEF Cells
<1>1. Len(s \o t) = Len(s) + Len(t) /\ Len(s) \in Nat /\ Len(t) \in Nat
  BY Concat
<1>2. CASE k \in 1..Len(s)
  BY <1>2, Concat DEF Cells
<1>3. CASE k \notin 1..Len(s)
  <2>1. k - Len(s) \in 1..Len(t) /\ Len(s) + (k - Len(s)) = k
    BY <1>1, <1>3
  <2>2. (s \o t)[Len(s) + (k - Len(s))] = t[k - Len(s)]
    BY <2>1, Concat
  <2> QED
    BY <2>1, <2>2 DEF Cells
<1> QED
  BY <1>2, <1>3

LEMMA BodyCells ==
  ASSUME NEW C, NEW addr \in Seq(C), NEW id \in Nat, NEW time \in Nat, NL \notin Cells(addr)
  PROVE  /\ LineBody(addr, id, time) \in Seq(C \cup Digit \cup {SP})
         /\ NL \notin Cells(LineBody(addr, id, time))
<1> DEFINE D == C \cup Digit \cup {SP}
           m == Digits[id]
           t == Digits[time]
           s1 == addr \o <<SP>>
           s2 == s1 \o m
           s3 == s2 \o <<SP>>
<1>1. m \in Seq(Digit) /\ t \in Seq(Digit)
  BY DigitsValue
<1>2. LineBody(addr, id, time) = s3 \o t
  BY DEF LineBody
<1> HIDE DEF m, t
<1>3. addr \in Seq(D) /\ m \in Seq(D) /\ t \in Seq(D) /\ <<SP>> \in Seq(D)
  BY <1>1
<1>4. NL \notin Cells(m) /\ NL \notin Cells(t)
  <2>1. Cells(m) \subseteq Digit /\ Cells(t) \subseteq Digit
    BY <1>1 DEF Cells
  <2> QED
    BY <2>1, CellAssumption
<1>5. NL \notin Cells(<<SP>>)
  BY CellAssumption DEF Cells
<1> HIDE DEF D
<1>6. s1 \in Seq(D) /\ NL \notin Cells(s1)
  BY <1>3, <1>5, Concat, CellsConcat
<1> HIDE DEF s1
<1>7. s2 \in Seq(D) /\ NL \notin Cells(s2)
  BY <1>3, <1>4, <1>6, Concat, CellsConcat
<1> HIDE DEF s2
<1>8. s3 \in Seq(D) /\ NL \notin Cells(s3)
  BY <1>3, <1>5, <1>7, Concat, CellsConcat
<1> HIDE DEF s3
<1>9. s3 \o t \in Seq(D) /\ NL \notin Cells(s3 \o t)
  BY <1>3, <1>4, <1>8, Concat, CellsConcat
<1> QED
  BY <1>2, <1>9 DEF D

LEMMA StateLineBody ==
  ASSUME NEW C, NEW addr \in Seq(C), NEW id \in Nat, NEW time \in Nat
  PROVE  /\ StateLine(addr, id, time) = LineBody(addr, id, time) \o <<NL>>
         /\ StateLine(addr, id, time) \in Seq(C \cup Digit \cup {SP, NL})
<1> DEFINE D == C \cup Digit \cup {SP, NL}
           m == Digits[id]
           t == Digits[time]
<1>1. m \in Seq(Digit) /\ t \in Seq(Digit)
  BY DigitsValue
<1> HIDE DEF m, t
<1>2. addr \in Seq(D) /\ m \in Seq(D) /\ t \in Seq(D) /\ <<SP>> \in Seq(D) /\ <<NL>> \in Seq(D)
  BY <1>1
<1> HIDE DEF D
<1>3. addr \o <<SP>> \o m \o <<SP>> \o t \o <<NL>> \in Seq(D)
  BY <1>2, ConcatProperties, Zenon
<1> QED
  BY <1>3, Zenon DEF StateLine, LineBody, D, m, t

-----------------------------------------------------------------------------
(* Recovering.  A line is a piece of the text, and what is read from it    *)
(* are numbers.                                                            *)
LEMMA LineEndingType ==
  ASSUME NEW C, NEW text \in Seq(C), NEW e \in LineEnds(text)
  PROVE  LineEnding(text, e) \in Seq(C)
<1> DEFINE before == {i \in LineEnds(text) : i < e}
           Last(i) == i \in before /\ \A j \in before : j <= i
           lastCell == CHOOSE i \in before : \A j \in before : j <= i
           start    == IF before = {} THEN 1 ELSE 1 + lastCell
<1>1. e \in 1..Len(text) /\ Len(text) \in Nat /\ before \subseteq 1..(e - 1)
  BY DEF LineEnds
<1>2. start \in 1..e
  <2>1. CASE before = {}
    BY <1>1, <2>1
  <2>2. CASE before # {}
    <3>1. e \in Nat /\ before \in SUBSET Nat /\ \A k \in before : k <= e
      BY <1>1
    <3> HIDE DEF before
    <3>2. \E i \in before : \A j \in before : j <= i
      BY <2>2, <3>1, GreatestNumber, Zenon
    <3>3. lastCell \in before
      BY <3>2, Zenon
    <3>4. start = 1 + lastCell
      BY <2>2
    <3> HIDE DEF lastCell, start
    <3>5. lastCell \in 1..(e - 1)
      BY <1>1, <3>3
    <3> QED
      BY <1>1, <3>4, <3>5
  <2> QED
    BY <2>1, <2>2
<1>3. LineEnding(text, e) = SubSeq(text, start, e - 1)
  BY Zenon DEF LineEnding
<1> HIDE DEF start
<1>4. \A k \in start..(e - 1) : text[k] \in C
  BY <1>1, <1>2
<1> QED
  BY <1>1, <1>2, <1>3, <1>4, SubSeqProperties

LEMMA EarliestMatches ==
  ASSUME NEW C, NEW text \in Seq(C), NEW addr, Matching(text, addr) # {}
  PROVE  /\ Earliest(text, addr) \in Matching(text, addr)
         /\ \A j \in Matching(text, addr) : Earliest(text, addr) <= j
<1>1. Matching(text, addr) \in SUBSET Nat
  BY DEF Matching, LineEnds
<1>2. \E i \in Matching(text, addr) : \A j \in Matching(text, addr) : i <= j
  BY <1>1, LeastNumber, Zenon
<1> QED
  BY <1>2, Zenon DEF Earliest

LEMMA ReadType ==
  ASSUME NEW v \in {<<>>} \cup Number, NEW earlier \in SUBSET ({<<>>} \cup Number)
  PROVE  Read(v, earlier) \subseteq Nat
<1>1. \A w \in {<<>>} \cup Number : w # <<>> => w[1] \in Nat
  BY DEF Number
<1> QED
  BY <1>1 DEF Read

LEMMA RecoveredType ==
  ASSUME NEW C, NEW text \in Seq(C), NEW addr, NEW l \in Recovered(text, addr)
  PROVE  l.id \in Nat /\ l.time \in Nat
<1> DEFINE s      == Scan(LineEnding(text, Earliest(text, addr)))
           ids    == {b.id : b \in Earlier(text, addr)}
           times  == {b.time : b \in Earlier(text, addr)}
           Opt    == {<<>>} \cup Number
<1>1. Matching(text, addr) # {}
  BY Zenon DEF Recovered
<1>2. Earliest(text, addr) \in LineEnds(text)
  BY <1>1, EarliestMatches DEF Matching
<1>3. \A e \in LineEnds(text) : Scan(LineEnding(text, e)).id \in Opt /\ Scan(LineEnding(text, e)).time \in Opt
  BY LineEndingType, ScanType, Zenon
<1>4. s.id \in Opt /\ s.time \in Opt
  BY <1>2, <1>3, Zenon
<1>5. ids \in SUBSET Opt /\ times \in SUBSET Opt
  BY <1>3, Zenon DEF Earlier
<1>6. \A b \in Earlier(text, addr) : b.id \in Opt /\ b.time \in Opt
  BY <1>3, Zenon DEF Earlier
<1>7. l \in [id : Read(s.id, ids), time : Read(s.time, times)]
  BY <1>1, Zenon DEF Recovered
<1> HIDE DEF s, ids, times, Opt
<1>8. Read(s.id, ids) \subseteq Nat /\ Read(s.time, times) \subseteq Nat
  BY <1>4, <1>5, ReadType DEF Opt
<1> QED
  BY <1>7, <1>8

(* A position is read back from the line that was saved, whatever follows. *)
ReadsBack(text, addr, id, time) ==
  Recovered(text, addr) # {} /\ \A l \in Recovered(text, addr) : l.id = id /\ l.time = time

THEOREM RecoveredSaved ==
  ASSUME NEW C, NEW addr \in Seq(C), addr # <<>>, SP \notin Cells(addr), NL \notin Cells(addr),
         NEW id \in Nat, NEW time \in Nat, NEW rest \in Seq(C)
  PROVE  ReadsBack(StateLine(addr, id, time) \o rest, addr, id, time)
<1> DEFINE D    == C \cup Digit \cup {SP, NL}
           body == LineBody(addr, id, time)
           line == body \o <<NL>>
           text == line \o rest
           e    == Len(body) + 1
<1>1. body \in Seq(D) /\ NL \notin Cells(body) /\ rest \in Seq(D) /\ <<NL>> \in Seq(D)
  <2>1. body \in Seq(C \cup Digit \cup {SP}) /\ NL \notin Cells(body)
    BY BodyCells
  <2> HIDE DEF body
  <2> QED
    BY <2>1, SeqMonotonic
<1>2. StateLine(addr, id, time) \o rest = text
  BY StateLineBody
<1>3. Scan(body) = [addr |-> addr, id |-> <<id>>, time |-> <<time>>]
  BY ScanLine
<1> HIDE DEF D, body
<1>4. /\ line \in Seq(D) /\ Len(line) = e /\ Len(body) \in Nat /\ line[e] = NL
      /\ \A k \in 1..Len(body) : line[k] = body[k]
  <2>1. <<NL>>[1] = NL /\ Len(<<NL>>) = 1 /\ 1 \in 1..1
    OBVIOUS
  <2>2. /\ line \in Seq(D) /\ Len(line) = Len(body) + Len(<<NL>>) /\ Len(body) \in Nat
        /\ \A k \in 1..Len(body) : line[k] = body[k]
        /\ \A k \in 1..Len(<<NL>>) : line[Len(body) + k] = <<NL>>[k]
    BY <1>1, Concat
  <2> QED
    BY <2>1, <2>2
<1> HIDE DEF line
<1>5. /\ text \in Seq(D) /\ Len(text) \in Nat /\ e <= Len(text) /\ text[e] = NL
      /\ \A k \in 1..Len(body) : text[k] = body[k]
  <2>1. /\ text \in Seq(D) /\ Len(text) = Len(line) + Len(rest) /\ Len(rest) \in Nat
        /\ \A k \in 1..Len(line) : text[k] = line[k]
    <3>1. line \in Seq(D) /\ rest \in Seq(D)
      BY <1>1, <1>4
    <3> QED
      BY <3>1, Concat
  <2> HIDE DEF text
  <2> QED
    BY <1>4, <2>1
<1> HIDE DEF text
<1>6. e \in LineEnds(text) /\ \A i \in LineEnds(text) : i >= e /\ ~(i < e)
  <2>1. e \in LineEnds(text)
    BY <1>4, <1>5 DEF LineEnds
  <2>2. \A k \in 1..Len(body) : body[k] \in Cells(body)
    BY DEF Cells
  <2>3. \A i \in LineEnds(text) : i \in Nat /\ i > 0 /\ i \notin 1..Len(body)
    BY <1>1, <1>5, <2>2 DEF LineEnds
  <2> QED
    BY <1>4, <2>1, <2>3
<1>7. LineEnding(text, e) = body
  <2>1. {i \in LineEnds(text) : i < e} = {}
    BY <1>6
  <2>2. LineEnding(text, e) = SubSeq(text, 1, e - 1)
    BY <2>1, Zenon DEF LineEnding
  <2>3. /\ SubSeq(text, 1, Len(body)) \in Seq(D) /\ Len(SubSeq(text, 1, Len(body))) = Len(body)
        /\ \A k \in 1..Len(body) : SubSeq(text, 1, Len(body))[k] = text[k]
    BY <1>4, <1>5
  <2>4. e - 1 = Len(body)
    BY <1>4
  <2>5. SubSeq(text, 1, Len(body)) = body
    BY <1>1, <1>5, <2>3, SeqEqual
  <2> QED
    BY <2>2, <2>4, <2>5
<1> HIDE DEF e
<1>8. e \in Matching(text, addr) /\ Earliest(text, addr) = e
  <2>1. e \in Matching(text, addr)
    BY <1>3, <1>6, <1>7 DEF Matching
  <2>2. Earliest(text, addr) \in LineEnds(text) /\ Earliest(text, addr) <= e
    BY <1>5, <2>1, EarliestMatches DEF Matching
  <2>3. e \in Nat /\ Earliest(text, addr) \in Nat
    BY <2>2, <1>6 DEF LineEnds
  <2> QED
    BY <1>6, <2>1, <2>2, <2>3
<1> DEFINE ids   == {b.id : b \in Earlier(text, addr)}
           times == {b.time : b \in Earlier(text, addr)}
<1>9. Recovered(text, addr) = [id : Read(Scan(body).id, ids), time : Read(Scan(body).time, times)]
  BY <1>7, <1>8, Zenon DEF Recovered
<1>10. Scan(body).id = <<id>> /\ Scan(body).time = <<time>>
  BY <1>3
<1> HIDE DEF ids, times
<1>11. Read(<<id>>, ids) = {id} /\ Read(<<time>>, times) = {time}
  BY DEF Read
<1>12. Recovered(text, addr) = [id : {id}, time : {time}]
  BY <1>9, <1>10, <1>11, Zenon
<1>13. [id |-> id, time |-> time] \in Recovered(text, addr)
  BY <1>12
<1>14. \A l \in Recovered(text, addr) : l.id = id /\ l.time = time
  BY <1>12
<1> QED
  BY <1>2, <1>13, <1>14, Zenon DEF ReadsBack

-----------------------------------------------------------------------------
(* The program.                                                            *)

(* The cells a state file may hold.                                        *)
Cell == (UNION {Cells(t) : t \in Texts \cup {Address}}) \cup Digit \cup {SP, NL}

FileType == file \in [exists : BOOLEAN, text : Seq(Cell)] /\ kept \in Packets

(* A position that counts as saved stands at the start of the file.        *)
Saved ==
  kept # NoPacket =>
    \E rest \in Seq(Cell) : file.text = StateLine(Address, kept.id, kept.time) \o rest

(* The time of the next request leaves room for those made.                *)
Idle == pc = "off" => clock = 0 /\ next = 0 /\ polls = 0

Period == repeatint * Second
Pace ==
  mode = "info" /\ Period <= IntMax =>
    polls * Period <= next /\ (polls > 0 => (polls - 1) * Period <= clock)

DalitoolInv == DalitoolTypeOK /\ FileType /\ Saved /\ RecoversSaved /\ Idle /\ Pace
-----------------------------------------------------------------------------
(* Constants.                                                              *)
LEMMA Constants ==
  /\ Modes # {} /\ Modes \subseteq {"collect", "info", "console"}
  /\ Repeats \subseteq Nat /\ 0 \in Repeats /\ Second \in Nat \ {0} /\ IntMax \in Nat \ {0}
  /\ FirstID \in Nat \ {0} /\ FirstTime \in Nat \ {0} /\ TimeStep \in Nat \ {0}
  /\ RingSize \in Nat \ {0} /\ MaxPackets \in Nat /\ MaxClock \in Nat
  BY DalitoolAssumption

LEMMA TextType ==
  /\ Address \in Seq(Cell) /\ \A t \in Texts : t \in Seq(Cell)
  /\ Address # <<>> /\ {SP, NL} \cap Cells(Address) = {}
<1>1. \A t \in Texts \cup {Address} : t \in Seq(Cells(t)) /\ Cells(t) \subseteq Cell
  BY TextAssumption, Zenon DEF Cell
<1>2. \A t \in Texts \cup {Address} : t \in Seq(Cell)
  BY <1>1, SeqMonotonic, Zenon
<1> QED
  BY <1>2, TextAssumption, Zenon

LEMMA LineType ==
  ASSUME NEW id \in Nat, NEW time \in Nat
  PROVE  /\ StateLine(Address, id, time) \in Seq(Cell)
         /\ Len(StateLine(Address, id, time)) \in Nat
<1>1. Cell \cup Digit \cup {SP, NL} = Cell
  <2>1. \A c \in Digit \cup {SP, NL} : c \in Cell
    BY Zenon DEF Cell
  <2> QED
    BY <2>1
<1>2. StateLine(Address, id, time) \in Seq(Cell)
  BY <1>1, TextType, StateLineBody
<1> QED
  BY <1>2

LEMMA AddressRecovered ==
  ASSUME NEW id \in Nat, NEW time \in Nat, NEW rest \in Seq(Cell)
  PROVE  ReadsBack(StateLine(Address, id, time) \o rest, Address, id, time)
<1>1. Address \in Seq(Cell) /\ Address # <<>> /\ SP \notin Cells(Address) /\ NL \notin Cells(Address)
  BY TextType
<1> QED
  BY <1>1, RecoveredSaved, Zenon

(* Writing a line over a text.                                             *)
LEMMA OverwriteType ==
  ASSUME NEW text \in Seq(Cell), NEW line \in Seq(Cell), NEW k \in 0..Len(line)
  PROVE  /\ Overwrite(text, line, k) \in Seq(Cell)
         /\ k = Len(line) => \E rest \in Seq(Cell) : Overwrite(text, line, k) = line \o rest
<1> DEFINE rest  == SubSeq(text, k + 1, Len(text))
           start == SubSeq(line, 1, k)
<1>1. Len(text) \in Nat /\ Len(line) \in Nat /\ k \in Nat
  OBVIOUS
<1>2. rest \in Seq(Cell)
  <2>1. \A i \in (k + 1)..Len(text) : text[i] \in Cell
    BY <1>1
  <2> QED
    BY <1>1, <2>1, SubSeqProperties
<1>3. start \in Seq(Cell)
  <2>1. \A i \in 1..k : line[i] \in Cell
    BY <1>1
  <2> QED
    BY <1>1, <2>1, SubSeqProperties
<1>4. k = Len(line) => start = line
  BY SubSeqFull
<1>5. Overwrite(text, line, k) = start \o rest
  BY Zenon DEF Overwrite
<1> HIDE DEF start, rest
<1>6. start \o rest \in Seq(Cell)
  BY <1>2, <1>3
<1> QED
  BY <1>2, <1>4, <1>5, <1>6
-----------------------------------------------------------------------------
(* INFO requests.                                                          *)
LEMMA WrapIs ==
  ASSUME NEW n \in Nat
  PROVE  Wrap(n) \in Int /\ (n <= IntMax => Wrap(n) = n)
  BY Constants DEF Wrap

LEMMA IntervalIs ==
  ASSUME repeatint \in Nat
  PROVE  Period \in Nat /\ Interval \in Int /\ (Period <= IntMax => Interval = Period)
<1>1. Period \in Nat
  BY Constants DEF Period
<1>2. Interval = Wrap(Period)
  BY DEF Interval, Period
<1> HIDE DEF Interval, Period
<1> QED
  BY <1>1, <1>2, WrapIs

(* Nothing of the INFO loop changes, and the process does not end.         *)
Elsewhere == UNCHANGED <<info, options>> /\ (pc' = "off" => pc = "off")

LEMMA PaceKept ==
  ASSUME DalitoolInv, Next
  PROVE  Idle' /\ Pace'
<1>1. /\ repeatint \in Nat /\ polls \in Nat /\ clock \in Nat /\ next \in Int
      /\ mode \in {"collect", "info", "console"}
  BY Constants DEF DalitoolInv, DalitoolTypeOK
<1>2. ASSUME Ends PROVE Idle' /\ Pace'
  BY <1>2, Constants DEF Ends, Idle, Pace, Period
<1>3. ASSUME Elsewhere PROVE Idle' /\ Pace'
  BY <1>3 DEF DalitoolInv, Elsewhere, info, options, Idle, Pace, Period
<1>4. CASE Start
  <2>1. pc' = "recover" /\ clock' = 0 /\ next' = 0 /\ polls' = 0 /\ repeatint' \in Nat
    BY <1>4, Constants DEF DalitoolInv, Start, Goto, Idle, info
  <2>2. repeatint' * Second \in Nat
    <3>1. \A r \in Nat : r * Second \in Nat
      BY Constants
    <3> QED
      BY <2>1, <3>1, Zenon
  <2>3. polls' * Period' <= next'
    <3> DEFINE p == repeatint' * Second
    <3>1. Period' = p
      BY DEF Period
    <3>2. p \in Nat
      BY <2>2
    <3> HIDE DEF p
    <3> QED
      BY <2>1, <3>1, <3>2
  <2> QED
    BY <2>1, <2>3 DEF Idle, Pace
<1>5. CASE InfoRequest
  <2>1. /\ clock >= next /\ polls' = polls + 1 /\ clock' = clock /\ mode' = mode /\ repeatint' = repeatint
        /\ next' = NextRequest(next + Interval) /\ pc' # "off"
    BY <1>5, Zenon DEF InfoRequest, options
  <2>2. SUFFICES ASSUME mode = "info", Period <= IntMax
        PROVE  polls' * Period <= next' /\ (polls' - 1) * Period <= clock
    BY <2>1 DEF Idle, Pace, Period
  <2>3. Period \in Nat /\ Interval = Period /\ polls * Period <= next
    BY <1>1, <2>2, IntervalIs DEF DalitoolInv, Pace
  <2>4. (polls + 1) * Period = polls * Period + Period /\ polls * Period \in Nat
    BY <1>1, <2>3
  <2>5. next' >= next + Period
    BY <1>1, <2>1, <2>3 DEF NextRequest
  <2>6. polls' - 1 = polls
    BY <1>1, <2>1
  <2> HIDE DEF Period
  <2>7. next' \in Int
    BY <1>1, <2>1, <2>3 DEF NextRequest
  <2>8. (polls' - 1) * Period <= clock
    BY <1>1, <2>1, <2>3, <2>4, <2>6
  <2> QED
    BY <1>1, <2>1, <2>3, <2>4, <2>5, <2>7, <2>8
<1>6. CASE Tick
  <2>1. /\ clock' = clock + 1 /\ next' = next /\ polls' = polls /\ pc' = pc /\ pc # "off"
        /\ mode' = mode /\ repeatint' = repeatint
    BY <1>6, Zenon DEF Tick, options
  <2>2. Period \in Nat /\ Period' = Period
    BY <1>1, <2>1, IntervalIs DEF Period
  <2>3. (polls - 1) * Period \in Int
    BY <1>1, <2>2
  <2> HIDE DEF Period
  <2> QED
    BY <1>1, <2>1, <2>2, <2>3 DEF DalitoolInv, Idle, Pace
<1>7. CASE ServerStep
  BY <1>3, <1>7, Zenon DEF ServerStep, NewPacket, ServerRestart, Elsewhere
<1>8. CASE GivesUp \/ InfoFails \/ SaveState \/ SaveTorn \/ Crash
  BY <1>2, <1>8, Zenon DEF GivesUp, InfoFails, SaveState, SaveTorn, Crash
<1>9. CASE RecoverState \/ Connect \/ PositionSet \/ NoPosition
  BY <1>3, <1>9 DEF RecoverState, Connect, PositionSet, NoPosition, Goto, Elsewhere
<1>10. CASE Subscribe
  BY <1>1, <1>3, <1>10 DEF Subscribe, Goto, Elsewhere
<1>11. CASE InfoTerminated \/ CollectHeader \/ CollectBody \/ CollectEnds \/ Handle \/ Shutdown
  BY <1>3, <1>11 DEF InfoTerminated, CollectHeader, CollectBody, CollectEnds, Handle, Shutdown, Goto, Elsewhere
<1>12. CASE ConsoleRead \/ ConsoleExit \/ Signal
  BY <1>3, <1>12 DEF ConsoleRead, ConsoleExit, Signal, Goto, Elsewhere
<1> QED
  BY <1>4, <1>5, <1>6, <1>7, <1>8, <1>9, <1>10, <1>11, <1>12, Zenon DEF Next, Main
-----------------------------------------------------------------------------
(* The state file.                                                         *)
LEMMA SavesKept ==
  ASSUME DalitoolInv, NEW k \in 0..Len(StateLine(Address, pktid, pkttime)), Saves(k)
  PROVE  FileType' /\ Saved'
<1> DEFINE line == StateLine(Address, pktid, pkttime)
           text == Overwrite(file.text, line, k)
<1>1. pktid \in Nat /\ pkttime \in Nat /\ file.text \in Seq(Cell)
  BY DEF DalitoolInv, DalitoolTypeOK, FileType
<1>2. line \in Seq(Cell)
  BY <1>1, LineType
<1>3. /\ file' = [exists |-> TRUE, text |-> text]
      /\ kept' = IF k = Len(line) THEN [id |-> pktid, time |-> pkttime] ELSE NoPacket
  BY Zenon DEF Saves, FileOf
<1> HIDE DEF line
<1>4. text \in Seq(Cell) /\ (k = Len(line) => \E rest \in Seq(Cell) : text = line \o rest)
  BY <1>1, <1>2, OverwriteType DEF line
<1> HIDE DEF text
<1>5. file'.text = text /\ FileType'
  BY <1>1, <1>3, <1>4 DEF FileType, Packets, NoPacket
<1>6. CASE k = Len(line)
  <2>1. kept'.id = pktid /\ kept'.time = pkttime
    BY <1>3, <1>6
  <2> QED
    BY <1>4, <1>5, <1>6, <2>1, Zenon DEF Saved, line
<1>7. CASE k # Len(line)
  <2>1. kept' = NoPacket
    BY <1>3, <1>7, Zenon
  <2> QED
    BY <1>5, <2>1, Zenon DEF Saved
<1> QED
  BY <1>5, <1>6, <1>7

LEMMA RecoverKept ==
  ASSUME DalitoolInv, RecoverState
  PROVE  pktid' \in Nat /\ pkttime' \in Nat /\ RecoversSaved'
<1> DEFINE lines == Recovered(file.text, Address)
<1>1. /\ IF lines = {} THEN UNCHANGED <<pktid, pkttime>>
         ELSE \E l \in lines : pktid' = l.id /\ pkttime' = l.time
      /\ kept' = kept
  BY Zenon DEF RecoverState, history
<1>2. /\ pktid \in Nat /\ pkttime \in Nat /\ file.text \in Seq(Cell)
      /\ kept.id \in Nat /\ kept.time \in Nat /\ kept = [id |-> kept.id, time |-> kept.time]
  BY DEF DalitoolInv, DalitoolTypeOK, FileType, Packets
<1>3. \A l \in lines : l.id \in Nat /\ l.time \in Nat
  BY <1>2, RecoveredType, Zenon
<1>4. ASSUME kept # NoPacket
      PROVE  ReadsBack(file.text, Address, kept.id, kept.time)
  <2>1. PICK rest \in Seq(Cell) : file.text = StateLine(Address, kept.id, kept.time) \o rest
    BY <1>4, Zenon DEF DalitoolInv, Saved
  <2>2. ReadsBack(StateLine(Address, kept.id, kept.time) \o rest, Address, kept.id, kept.time)
    BY <1>2, AddressRecovered, Zenon
  <2> QED
    BY <2>1, <2>2, Zenon
<1> HIDE DEF lines
<1>5. pktid' \in Nat /\ pkttime' \in Nat
  BY <1>1, <1>2, <1>3
<1>6. ASSUME kept # NoPacket
      PROVE  [id |-> pktid', time |-> pkttime'] = kept
  <2>1. pktid' = kept.id /\ pkttime' = kept.time
    BY <1>1, <1>4, <1>6, Zenon DEF ReadsBack, lines
  <2> QED
    BY <1>2, <2>1, Zenon
<1> QED
  BY <1>1, <1>5, <1>6, Zenon DEF RecoversSaved, NoPacket

(* Neither the file nor the position read from it changes.                 *)
FileStays == file' = file /\ kept' = kept

LEMMA FileKept ==
  ASSUME DalitoolInv, Next
  PROVE  FileType' /\ Saved' /\ RecoversSaved'
<1>1. ASSUME FileStays PROVE FileType' /\ Saved'
  BY <1>1, Zenon DEF DalitoolInv, FileStays, FileType, Saved, NoPacket
<1>2. ASSUME FileStays, pc' = pc, pktid' = pktid, pkttime' = pkttime PROVE RecoversSaved'
  BY <1>2, Zenon DEF DalitoolInv, FileStays, RecoversSaved, NoPacket
<1>3. ASSUME pc' # "connect" PROVE RecoversSaved'
  BY <1>3, Zenon DEF RecoversSaved
<1>4. CASE RecoverState
  BY <1>1, <1>4, RecoverKept, Zenon DEF RecoverState, FileStays, history
<1>5. CASE SaveState \/ SaveTorn
  <2>1. pktid \in Nat /\ pkttime \in Nat
    BY DEF DalitoolInv, DalitoolTypeOK
  <2>2. Len(StateLine(Address, pktid, pkttime)) \in Nat
    BY <2>1, LineType
  <2>3. pc' = "off" /\ \E k \in 0..Len(StateLine(Address, pktid, pkttime)) : Saves(k)
    <3> DEFINE n == Len(StateLine(Address, pktid, pkttime))
    <3>1. n \in 0..n /\ \A k \in 0..(n - 1) : k \in 0..n
      BY <2>2
    <3> HIDE DEF n
    <3> QED
      BY <1>5, <3>1, Zenon DEF SaveState, SaveTorn, Ends, n
  <2> QED
    BY <1>3, <2>3, SavesKept
<1>6. CASE ServerStep \/ Tick \/ Signal
  BY <1>1, <1>2, <1>6 DEF ServerStep, NewPacket, ServerRestart, Tick, Signal, FileStays, dlconn, history
<1>7. CASE Start \/ GivesUp \/ InfoFails \/ Crash
  BY <1>1, <1>3, <1>7 DEF Start, GivesUp, InfoFails, Crash, Ends, Goto, FileStays, history
<1>8. CASE Connect \/ PositionSet \/ NoPosition
  BY <1>1, <1>3, <1>8 DEF Connect, PositionSet, NoPosition, Goto, FileStays, history
<1>9. CASE Subscribe
  <2>1. mode # "connect"
    BY Constants DEF DalitoolInv, DalitoolTypeOK
  <2> QED
    BY <1>1, <1>3, <1>9, <2>1 DEF Subscribe, Goto, FileStays, history
<1>10. CASE InfoRequest \/ InfoTerminated \/ CollectHeader \/ CollectBody \/ CollectEnds \/ Handle
  BY <1>1, <1>3, <1>10 DEF InfoRequest, InfoTerminated, CollectHeader, CollectBody, CollectEnds,
     Handle, Goto, FileStays, history
<1>11. CASE Shutdown \/ ConsoleRead \/ ConsoleExit
  BY <1>1, <1>3, <1>11 DEF Shutdown, ConsoleRead, ConsoleExit, Goto, FileStays, history
<1> QED
  BY <1>4, <1>5, <1>6, <1>7, <1>8, <1>9, <1>10, <1>11, Zenon DEF Next, Main
-----------------------------------------------------------------------------
(* Types, in parts that an action leaves alone or gives new values.        *)
ServerType == ring \in Seq(Packets) /\ made \in 0..MaxPackets /\ serial \in Nat /\ Len(ring) <= RingSize
PlaceType ==
  /\ reader \in Int /\ mode \in Modes /\ repeatint \in Repeats
  /\ pc \in {"off", "recover", "connect", "position", "match", "reject", "mode",
             "info", "console", "collect", "body", "handle", "shutdown", "save"}
PositionType == pktid \in Nat /\ pkttime \in Nat /\ pkt \in Packets /\ last \in Nat
InfoType == clock \in 0..MaxClock /\ next \in Int /\ polls \in Nat
FlagType == terminate \in BOOLEAN /\ resumed \in BOOLEAN /\ browsed \in BOOLEAN

LEMMA TypeParts ==
  DalitoolTypeOK <=>
    ServerType /\ PlaceType /\ PositionType /\ InfoType /\ FlagType /\ file.exists \in BOOLEAN
<1>1. {resumed, browsed} \subseteq BOOLEAN <=> resumed \in BOOLEAN /\ browsed \in BOOLEAN
  BY Zenon
<1> QED
  BY <1>1, Zenon DEF DalitoolTypeOK, ServerType, PlaceType, PositionType, InfoType, FlagType

LEMMA TimeOfType == \A n \in Nat : TimeOf(n) \in Int /\ TimeOf(n + 1) \in Nat
<1>1. \A n \in Nat : n * TimeStep \in Nat /\ (n - 1) * TimeStep \in Int /\ (n + 1) - 1 = n
  BY Constants
<1> QED
  BY <1>1, Constants DEF TimeOf

LEMMA RingType ==
  ASSUME ServerType
  PROVE  \A i \in 1..Len(ring) : ring[i] \in Packets /\ ring[i].id \in Nat /\ ring[i].time \in Nat
<1>1. \A i \in 1..Len(ring) : ring[i] \in Packets
  BY DEF ServerType
<1>2. \A p \in Packets : p.id \in Nat /\ p.time \in Nat
  BY DEF Packets
<1> QED
  BY <1>1, <1>2, Zenon

(* The packet that is sent next.                                           *)
LEMMA NextUpType ==
  ASSUME NextUp # {}
  PROVE  (CHOOSE i \in NextUp : \A j \in NextUp : i <= j) \in 1..Len(ring)
<1>1. NextUp \in SUBSET Nat /\ NextUp \subseteq 1..Len(ring)
  BY DEF NextUp
<1>2. \E i \in NextUp : \A j \in NextUp : i <= j
  BY <1>1, LeastNumber, Zenon
<1> QED
  BY <1>1, <1>2, Zenon

LEMMA ServerTypeKept ==
  ASSUME DalitoolInv, Next
  PROVE  ServerType'
<1>1. ServerType
  BY TypeParts, Zenon DEF DalitoolInv
<1>2. ASSUME UNCHANGED server PROVE ServerType'
  BY <1>1, <1>2 DEF ServerType, server
<1>3. CASE NewPacket
  <2> DEFINE new == [id |-> serial + 1, time |-> TimeOf(made + 1)]
             all == Append(ring, new)
  <2>1. new \in Packets /\ made + 1 \in 0..MaxPackets /\ serial + 1 \in Nat
    <3>1. made \in Nat /\ made + 1 \in 0..MaxPackets /\ serial \in Nat /\ serial + 1 \in Nat
      BY <1>1, <1>3, Constants DEF ServerType, NewPacket
    <3>2. TimeOf(made + 1) \in Nat
      BY <3>1, TimeOfType, Zenon
    <3> QED
      BY <3>1, <3>2 DEF Packets
  <2>2. /\ ring' = (IF Len(all) > RingSize THEN Tail(all) ELSE all)
        /\ made' = made + 1 /\ serial' = serial + 1
    BY <1>3, Zenon DEF NewPacket
  <2> HIDE DEF new
  <2>3. ring \in Seq(Packets) /\ Len(ring) <= RingSize /\ Len(ring) \in Nat
    BY <1>1 DEF ServerType
  <2>4. /\ all \in Seq(Packets) /\ all # <<>> /\ Len(all) = Len(ring) + 1
    BY <2>1, <2>3
  <2> HIDE DEF all
  <2>5. Tail(all) \in Seq(Packets) /\ Len(Tail(all)) = Len(all) - 1
    BY <2>4
  <2>6. ring' \in Seq(Packets) /\ Len(ring') <= RingSize
    BY <2>2, <2>3, <2>4, <2>5, Constants
  <2> QED
    BY <2>1, <2>2, <2>6 DEF ServerType
<1>4. CASE ServerRestart
  BY <1>1, <1>4, Constants DEF ServerType, ServerRestart
<1>5. CASE Start \/ Tick \/ ConsoleRead \/ ConsoleExit \/ Crash \/ Signal
  BY <1>2, <1>5, Zenon DEF Start, Tick, ConsoleRead, ConsoleExit, Crash, Signal
<1>6. CASE Main
  BY <1>2, <1>6, Zenon DEF Main, RecoverState, GivesUp, Connect, PositionSet, NoPosition, Subscribe,
     InfoRequest, InfoFails, InfoTerminated, CollectHeader, CollectBody, CollectEnds, Handle,
     Shutdown, SaveState, SaveTorn
<1> QED
  BY <1>3, <1>4, <1>5, <1>6, Zenon DEF Next, ServerStep

LEMMA PlaceTypeKept ==
  ASSUME DalitoolInv, Next
  PROVE  PlaceType'
<1>1. PlaceType /\ ServerType
  BY TypeParts, Zenon DEF DalitoolInv
<1>2. (CHOOSE m \in Modes : TRUE) \in Modes
  BY Constants
<1>3. ASSUME Ends PROVE PlaceType'
  BY <1>2, <1>3, Constants DEF Ends, PlaceType, Broken
<1>4. CASE ServerStep
  BY <1>1, <1>4 DEF ServerStep, NewPacket, ServerRestart, PlaceType, options, Broken
<1>5. CASE Start
  BY <1>1, <1>5, Constants DEF Start, Goto, PlaceType
<1>6. CASE GivesUp \/ InfoFails \/ SaveState \/ SaveTorn \/ Crash
  BY <1>3, <1>6, Zenon DEF GivesUp, InfoFails, SaveState, SaveTorn, Crash
<1>7. CASE RecoverState \/ NoPosition
  BY <1>1, <1>7 DEF RecoverState, NoPosition, Goto, PlaceType, options
<1>8. CASE Connect
  BY <1>1, <1>8, TimeOfType DEF Connect, Goto, PlaceType, ServerType, options
<1>9. CASE PositionSet
  <2>1. \A i \in 1..Len(ring) : ring[i].time \in Nat
    BY <1>1, RingType, Zenon
  <2>2. reader' \in Int
    BY <1>1, <1>9, <2>1 DEF PositionSet, PlaceType
  <2> QED
    BY <1>1, <1>9, <2>2 DEF PositionSet, Goto, PlaceType, options
<1>10. CASE Subscribe
  <2>1. pc' \in {"reject", "info", "console", "collect"}
    BY <1>1, <1>10, Constants DEF Subscribe, Goto, PlaceType
  <2>2. UNCHANGED <<reader, mode, repeatint>>
    BY <1>10, Zenon DEF Subscribe, options
  <2> QED
    BY <1>1, <2>1, <2>2 DEF PlaceType
<1>11. CASE InfoRequest \/ InfoTerminated \/ Tick
  BY <1>1, <1>11 DEF InfoRequest, InfoTerminated, Tick, Goto, PlaceType, options
<1>12. CASE CollectHeader
  <2> DEFINE i == CHOOSE i \in NextUp : \A j \in NextUp : i <= j
  <2>1. reader' = ring[i].time /\ pc' = "body" /\ mode' = mode /\ repeatint' = repeatint /\ NextUp # {}
    BY <1>12, Zenon DEF CollectHeader, Goto, options
  <2>2. i \in 1..Len(ring)
    BY <2>1, NextUpType, Zenon
  <2> HIDE DEF i
  <2>3. ring[i].time \in Nat
    BY <1>1, <2>2, RingType, Zenon
  <2> QED
    BY <1>1, <2>1, <2>3 DEF PlaceType
<1>13. CASE CollectBody \/ CollectEnds \/ Handle \/ Shutdown
  BY <1>1, <1>13 DEF CollectBody, CollectEnds, Handle, Shutdown, Goto, PlaceType, options, Broken
<1>14. CASE ConsoleRead \/ ConsoleExit \/ Signal
  BY <1>1, <1>14 DEF ConsoleRead, ConsoleExit, Signal, Goto, PlaceType, options
<1> QED
  BY <1>4, <1>5, <1>6, <1>7, <1>8, <1>9, <1>10, <1>11, <1>12, <1>13, <1>14, Zenon DEF Next, Main

LEMMA PositionTypeKept ==
  ASSUME DalitoolInv, Next
  PROVE  PositionType'
<1>1. PositionType /\ ServerType /\ NoPacket \in Packets /\ NoPacket.id = 0
  BY TypeParts, Zenon DEF DalitoolInv, Packets, NoPacket
<1>2. ASSUME UNCHANGED <<pktid, pkttime, pkt, last>> PROVE PositionType'
  BY <1>1, <1>2, Zenon DEF PositionType
<1>3. ASSUME Ends, last' = last PROVE PositionType'
  BY <1>1, <1>3 DEF Ends, PositionType
<1>4. CASE ServerStep \/ Start \/ Connect \/ PositionSet \/ NoPosition \/ Subscribe
  BY <1>2, <1>4, Zenon DEF ServerStep, NewPacket, ServerRestart, Start, Connect, PositionSet,
     NoPosition, Subscribe, dlconn, history
<1>5. CASE InfoRequest \/ InfoTerminated \/ Tick \/ CollectEnds \/ ConsoleExit \/ Shutdown \/ Signal
  BY <1>2, <1>5, Zenon DEF InfoRequest, InfoTerminated, Tick, CollectEnds, ConsoleExit, Shutdown,
     Signal, dlconn, history
<1>6. CASE GivesUp \/ InfoFails \/ SaveState \/ SaveTorn \/ Crash
  BY <1>3, <1>6, Zenon DEF GivesUp, InfoFails, SaveState, SaveTorn, Crash
<1>7. CASE RecoverState
  <2>1. pktid' \in Nat /\ pkttime' \in Nat
    BY <1>7, RecoverKept
  <2>2. pkt' = pkt /\ last' = last
    BY <1>7, Zenon DEF RecoverState, history
  <2> QED
    BY <1>1, <2>1, <2>2, Zenon DEF PositionType
<1>8. CASE CollectHeader
  <2> DEFINE i == CHOOSE i \in NextUp : \A j \in NextUp : i <= j
  <2>1. pkt' = ring[i] /\ NextUp # {} /\ UNCHANGED <<pktid, pkttime, last>>
    BY <1>8, Zenon DEF CollectHeader, dlconn, history
  <2>2. i \in 1..Len(ring)
    BY <2>1, NextUpType, Zenon
  <2> HIDE DEF i
  <2>3. pkt' \in Packets
    BY <1>1, <2>1, <2>2, RingType, Zenon
  <2> QED
    BY <1>1, <2>1, <2>3, Zenon DEF PositionType
<1>9. pkt.id \in Nat /\ pkt.time \in Nat
  BY <1>1 DEF PositionType, Packets
<1>10. CASE CollectBody
  BY <1>1, <1>9, <1>10 DEF CollectBody, PositionType, history
<1>11. CASE Handle
  BY <1>1, <1>9, <1>11 DEF Handle, PositionType, dlconn
<1>12. CASE ConsoleRead
  <2>1. PICK i \in 1..Len(ring) : pktid' = ring[i].id /\ pkttime' = ring[i].time
    BY <1>12, Zenon DEF ConsoleRead
  <2>2. pktid' \in Nat /\ pkttime' \in Nat
    BY <1>1, <2>1, RingType, Zenon
  <2>3. pkt' = pkt /\ last' = last
    BY <1>12, Zenon DEF ConsoleRead
  <2> QED
    BY <1>1, <2>2, <2>3, Zenon DEF PositionType
<1> QED
  BY <1>4, <1>5, <1>6, <1>7, <1>8, <1>10, <1>11, <1>12, Zenon DEF Next, Main

LEMMA InfoTypeKept ==
  ASSUME DalitoolInv, Next
  PROVE  InfoType'
<1>1. InfoType /\ PlaceType /\ repeatint \in Nat
  BY TypeParts, Constants, Zenon DEF DalitoolInv, PlaceType
<1>2. ASSUME UNCHANGED info PROVE InfoType'
  BY <1>1, <1>2, Zenon DEF InfoType, info
<1>3. ASSUME Ends PROVE InfoType'
  BY <1>3, Constants DEF Ends, InfoType
<1>4. CASE ServerStep \/ Start \/ RecoverState \/ Connect \/ PositionSet \/ NoPosition \/ Subscribe
  BY <1>2, <1>4, Zenon DEF ServerStep, NewPacket, ServerRestart, Start, RecoverState, Connect,
     PositionSet, NoPosition, Subscribe
<1>5. CASE GivesUp \/ InfoFails \/ SaveState \/ SaveTorn \/ Crash
  BY <1>3, <1>5, Zenon DEF GivesUp, InfoFails, SaveState, SaveTorn, Crash
<1>6. CASE InfoRequest
  <2>1. Interval \in Int
    BY <1>1, IntervalIs
  <2>2. polls' = polls + 1 /\ next' = NextRequest(next + Interval) /\ clock' = clock
    BY <1>6, Zenon DEF InfoRequest
  <2>3. next' \in Int
    BY <1>1, <2>1, <2>2, Constants DEF NextRequest, InfoType
  <2> QED
    BY <1>1, <2>2, <2>3 DEF InfoType
<1>7. CASE Tick
  BY <1>1, <1>7, Constants DEF Tick, InfoType
<1>8. CASE InfoTerminated \/ CollectHeader \/ CollectBody \/ CollectEnds \/ Handle \/ Shutdown
  BY <1>2, <1>8, Zenon DEF InfoTerminated, CollectHeader, CollectBody, CollectEnds, Handle, Shutdown
<1>9. CASE ConsoleRead \/ ConsoleExit \/ Signal
  BY <1>2, <1>9, Zenon DEF ConsoleRead, ConsoleExit, Signal
<1> QED
  BY <1>4, <1>5, <1>6, <1>7, <1>8, <1>9, Zenon DEF Next, Main

LEMMA FlagTypeKept ==
  ASSUME DalitoolInv, Next
  PROVE  FlagType'
<1>1. FlagType /\ TRUE \in BOOLEAN /\ FALSE \in BOOLEAN
  BY TypeParts, Zenon DEF DalitoolInv
<1>2. ASSUME UNCHANGED <<terminate, resumed, browsed>> PROVE FlagType'
  BY <1>1, <1>2, Zenon DEF FlagType
<1>3. ASSUME Ends, browsed' = browsed PROVE FlagType'
  BY <1>1, <1>3, Zenon DEF Ends, FlagType
<1>4. CASE ServerStep \/ Start \/ RecoverState \/ Connect \/ NoPosition \/ Subscribe
  BY <1>2, <1>4, Zenon DEF ServerStep, NewPacket, ServerRestart, Start, RecoverState, Connect,
     NoPosition, Subscribe, dlconn, history
<1>5. CASE InfoRequest \/ InfoTerminated \/ Tick \/ CollectHeader \/ CollectBody \/ CollectEnds
  BY <1>2, <1>5, Zenon DEF InfoRequest, InfoTerminated, Tick, CollectHeader, CollectBody,
     CollectEnds, dlconn, history
<1>6. CASE GivesUp \/ InfoFails \/ SaveState \/ SaveTorn \/ Crash
  BY <1>3, <1>6, Zenon DEF GivesUp, InfoFails, SaveState, SaveTorn, Crash
<1>7. CASE ConsoleExit \/ Shutdown
  BY <1>2, <1>7, Zenon DEF ConsoleExit, Shutdown, dlconn, history
<1>8. CASE PositionSet
  <2>1. (resumed' = TRUE \/ resumed' = resumed) /\ terminate' = terminate /\ browsed' = browsed
    BY <1>8, Zenon DEF PositionSet, dlconn
  <2> QED
    BY <1>1, <2>1, Zenon DEF FlagType
<1>9. CASE Handle \/ ConsoleRead \/ Signal
  BY <1>1, <1>9, Zenon DEF Handle, ConsoleRead, Signal, FlagType, dlconn, history
<1> QED
  BY <1>4, <1>5, <1>6, <1>7, <1>8, <1>9, Zenon DEF Next, Main
-----------------------------------------------------------------------------
(* The invariant.                                                          *)
LEMMA InitDalitoolInv == Init => DalitoolInv
<1> SUFFICES ASSUME Init PROVE DalitoolInv
  OBVIOUS
<1>1. ServerType
  BY Constants DEF Init, ServerType
<1>2. (CHOOSE m \in Modes : TRUE) \in Modes
  BY Constants
<1>3. PlaceType
  BY <1>2, Constants DEF Init, Off, PlaceType, Broken
<1>4. PositionType /\ NoPacket \in Packets
  BY DEF Init, Off, PositionType, NoPacket, Packets
<1>5. InfoType /\ Idle
  BY Constants DEF Init, Off, InfoType, Idle
<1>6. FlagType
  BY Zenon DEF Init, Off, FlagType
<1>7. file \in [exists : BOOLEAN, text : Seq(Cell)]
  <2>1. \A t \in Texts : FileOf(t) \in [exists : BOOLEAN, text : Seq(Cell)]
    BY TextType DEF FileOf
  <2>2. NoFile \in [exists : BOOLEAN, text : Seq(Cell)]
    BY DEF NoFile
  <2> QED
    BY <2>1, <2>2, Zenon DEF Init
<1>8. FileType /\ file.exists \in BOOLEAN /\ Saved /\ RecoversSaved
  BY <1>4, <1>7 DEF Init, Off, FileType, Saved, RecoversSaved
<1>9. Pace
  BY Constants DEF Init, Off, Pace, Period
<1> QED
  BY <1>1, <1>3, <1>4, <1>5, <1>6, <1>8, <1>9, TypeParts, Zenon DEF DalitoolInv

LEMMA NextDalitoolInv == DalitoolInv /\ [Next]_vars => DalitoolInv'
<1> SUFFICES ASSUME DalitoolInv, [Next]_vars PROVE DalitoolInv'
  OBVIOUS
<1>1. CASE Next
  <2>1. ServerType' /\ PlaceType' /\ PositionType' /\ InfoType' /\ FlagType'
    BY <1>1, ServerTypeKept, PlaceTypeKept, PositionTypeKept, InfoTypeKept, FlagTypeKept
  <2>2. FileType' /\ Saved' /\ RecoversSaved' /\ Idle' /\ Pace'
    BY <1>1, FileKept, PaceKept
  <2>3. file'.exists \in BOOLEAN
    BY <2>2 DEF FileType
  <2>4. DalitoolTypeOK'
    BY <2>1, <2>3, Zenon DEF DalitoolTypeOK, ServerType, PlaceType, PositionType, InfoType, FlagType
  <2> QED
    BY <2>1, <2>2, <2>4, Zenon DEF DalitoolInv
<1>2. CASE UNCHANGED vars
  BY <1>2 DEF vars, server, options, dlconn, info, history, bounds, DalitoolInv, DalitoolTypeOK,
     FileType, Saved, RecoversSaved, Idle, Pace, Period
<1> QED
  BY <1>1, <1>2

(* The parts of DalitoolInv hold together in every state of every session, *)
(* whatever the file held at first, however sessions end and whatever the  *)
(* server loses.                                                           *)
THEOREM DalitoolInvariance == Spec => []DalitoolInv
  BY InitDalitoolInv, NextDalitoolInv, PTL DEF Spec

(* The fields of the DLCP and the variables of main() keep their types: a  *)
(* line of the state file, torn or not, never yields a position that is    *)
(* not two numbers.                                                        *)
THEOREM DalitoolTypeCorrect == Spec => []DalitoolTypeOK
<1>1. DalitoolInv => DalitoolTypeOK
  BY Zenon DEF DalitoolInv
<1> QED
  BY <1>1, DalitoolInvariance, PTL

(* What dl_savestate() wrote with all its bytes is what the next session   *)
(* takes from dl_recoverstate(), to the digit, for every address, position *)
(* and content of the file that the line was written over.                 *)
THEOREM SavedIsRecovered == Spec => []RecoversSaved
<1>1. DalitoolInv => RecoversSaved
  BY Zenon DEF DalitoolInv
<1> QED
  BY <1>1, DalitoolInvariance, PTL

(* The loop of main() that polls for INFO keeps its interval whatever the  *)
(* clock does between two requests, if the interval fits in an int.        *)
THEOREM InfoKeepsInterval == Spec => []InfoRate
<1>1. ASSUME DalitoolInv PROVE InfoRate
  <2>1. repeatint \in Nat /\ polls \in Nat /\ Second \in Nat
    BY <1>1, Constants DEF DalitoolInv, DalitoolTypeOK
  <2>2. (polls - 1) * repeatint * Second = (polls - 1) * Period
    BY <2>1 DEF Period
  <2> QED
    BY <1>1, <2>1, <2>2 DEF DalitoolInv, Pace, InfoRate, Period
<1> QED
  BY <1>1, DalitoolInvariance, PTL
-----------------------------------------------------------------------------
(* The position.  Of a torn line may be left the digits of another number, *)
(* and what a file held before the first session is not this program's:    *)
(* here no save is torn, and no position in that file has the time of a    *)
(* packet.  Sessions still end as they like, and the process is killed.    *)
Foreign(time) == \A n \in Nat \ {0} : TimeOf(n) # time

TextsApart == \A t \in Texts : \A l \in Recovered(t, Address) : Foreign(l.time)

WholeSpec == Init /\ [][Next /\ ~SaveTorn]_vars

(* The times of all packets the server received; a packet that the user    *)
(* has, or the server has no longer.                                       *)
Made == {TimeOf(n) : n \in 1..made}
Gone(time) == time \in sent \/ time \notin Times(ring)

RingShape ==
  /\ Len(ring) <= made
  /\ \A i \in 1..Len(ring) : /\ ring[i].id = serial - Len(ring) + i
                             /\ ring[i].time = TimeOf(made - Len(ring) + i)

(* The file is as it was at first, or starts with the last save.           *)
WholeFile ==
  \/ file.text = <<>> \/ file.text \in Texts
  \/ \E rest \in Seq(Cell) : file.text = StateLine(Address, kept.id, kept.time) \o rest

SentMade == sent \subseteq Made /\ (last = 0 \/ last \in sent)

(* Every position is that of a packet the user has, or of none.            *)
Handled(time) == time \in sent \/ Foreign(time)
Origins == Handled(kept.time) /\ (pc # "handle" => Handled(pkttime))

Early ==
  /\ pc \in {"off", "recover", "connect", "position"} => ~resumed
  /\ pc \in {"off", "recover"} => pktid = 0 /\ pkttime = 0
Restored ==
  pc \in {"connect", "position"} => (pktid = kept.id /\ pkttime = kept.time) \/ Foreign(pkttime)

(* The packet in hand, and the reader, are not before the last save.       *)
InHand ==
  pc \in {"body", "handle"} =>
    /\ pkt.time \in Made /\ reader \in {pkt.time, Broken}
    /\ kept.time \in sent => kept.time <= pkt.time
AtHandle == pc = "handle" => pktid = pkt.id /\ pkttime = pkt.time
Reading ==
  reader # Broken => reader <= TimeOf(made) /\ (kept.time \in sent => kept.time <= reader + 1)

(* Positions are not after the last packet handled, but for the console's. *)
LastSaved ==
  ~browsed => /\ kept.time \in sent => kept.time <= last
              /\ pc # "handle" /\ pkttime \in sent => pkttime <= last

(* What is between the last packet handled and the next one is gone.       *)
Continued ==
  resumed /\ ~browsed /\ last # 0 =>
    /\ pc \in {"match", "reject", "collect"} /\ reader # Broken =>
         \A t \in Made : last < t /\ t <= reader => Gone(t)
    /\ pc \in {"body", "handle"} => \A t \in Made : last < t /\ t < pkt.time => Gone(t)

PositionInv ==
  /\ RingShape /\ WholeFile /\ SentMade /\ Origins /\ Early /\ Restored
  /\ InHand /\ AtHandle /\ Reading /\ LastSaved /\ Continued

LEMMA TimeOrder ==
  \A m, n \in Int : TimeOf(m) \in Int /\ (m < n => TimeOf(m) < TimeOf(n))
<1> SUFFICES ASSUME NEW m \in Int, NEW n \in Int
             PROVE  TimeOf(m) \in Int /\ (m < n => TimeOf(m) < TimeOf(n))
  OBVIOUS
<1>1. TimeStep \in Nat /\ TimeStep > 0 /\ FirstTime \in Nat
  BY Constants
<1>2. \A x, y \in Int : x * TimeStep \in Int /\ (x < y => x * TimeStep < y * TimeStep)
  <2> SUFFICES ASSUME NEW x \in Int, NEW y \in Int
               PROVE  x * TimeStep \in Int /\ (x < y => x * TimeStep < y * TimeStep)
    OBVIOUS
  <2> QED
    BY <1>1
<1>3. m - 1 \in Int /\ n - 1 \in Int /\ (m < n => m - 1 < n - 1)
  OBVIOUS
<1>4. /\ (m - 1) * TimeStep \in Int /\ (n - 1) * TimeStep \in Int
      /\ m < n => (m - 1) * TimeStep < (n - 1) * TimeStep
  BY <1>2, <1>3, Zenon
<1> QED
  BY <1>1, <1>4 DEF TimeOf

LEMMA TimePositive == Foreign(0) /\ \A n \in Nat \ {0} : TimeOf(n) > 0
<1>1. TimeOf(1) = FirstTime /\ FirstTime > 0 /\ FirstTime \in Nat
  BY Constants DEF TimeOf
<1>2. \A n \in Nat \ {0} : 1 \in Int /\ n \in Int /\ (n = 1 \/ 1 < n)
  OBVIOUS
<1>3. \A n \in Nat \ {0} : TimeOf(n) \in Int /\ (n = 1 \/ TimeOf(1) < TimeOf(n))
  BY <1>2, TimeOrder, Zenon
<1>4. \A n \in Nat \ {0} : TimeOf(n) > 0
  BY <1>1, <1>3
<1>5. \A n \in Nat \ {0} : TimeOf(n) # 0
  BY <1>3, <1>4
<1> QED
  BY <1>4, <1>5, Zenon DEF Foreign

LEMMA MadeIs ==
  ASSUME made \in Nat
  PROVE  /\ \A t \in Made : t \in Int /\ t <= TimeOf(made) /\ ~Foreign(t) /\ t # 0
         /\ TimeOf(made) \in Int
<1>1. \A n \in 1..made : n \in Nat \ {0} /\ TimeOf(n) \in Int /\ TimeOf(n) <= TimeOf(made)
  BY TimeOrder
<1>2. \A n \in Nat \ {0} : TimeOf(n) > 0
  BY TimePositive
<1>3. \A t \in Made : \E n \in 1..made : t = TimeOf(n)
  BY DEF Made
<1> QED
  BY <1>1, <1>2, <1>3, TimeOrder DEF Foreign

(* What RingShape says of times and IDs.                                   *)
LEMMA RingTimes ==
  ASSUME made \in Nat, serial \in Nat, ring \in Seq(Packets), RingShape
  PROVE  /\ \A i \in 1..Len(ring) : ring[i].time \in Made
         /\ \A i, j \in 1..Len(ring) : i < j => ring[i].time < ring[j].time
         /\ \A i, j \in 1..Len(ring) : ring[i].id = ring[j].id => i = j
<1>1. Len(ring) \in Nat
  OBVIOUS
<1>2. \A i \in 1..Len(ring) : made - Len(ring) + i \in 1..made
  BY <1>1 DEF RingShape
<1>3. \A i \in 1..Len(ring) : ring[i].time = TimeOf(made - Len(ring) + i)
  BY DEF RingShape
<1>4. \A i \in 1..Len(ring) : ring[i].time \in Made
  BY <1>2, <1>3, Zenon DEF Made
<1>5. \A i, j \in 1..Len(ring) : i < j => ring[i].time < ring[j].time
  <2> SUFFICES ASSUME NEW i \in 1..Len(ring), NEW j \in 1..Len(ring), i < j
               PROVE  ring[i].time < ring[j].time
    OBVIOUS
  <2>1. made - Len(ring) + i < made - Len(ring) + j
    BY <1>1
  <2>2. made - Len(ring) + i \in Int /\ made - Len(ring) + j \in Int
    BY <1>1
  <2> QED
    BY <1>3, <2>1, <2>2, TimeOrder, Zenon
<1>6. \A i, j \in 1..Len(ring) : ring[i].id = ring[j].id => i = j
  BY <1>1 DEF RingShape
<1> QED
  BY <1>4, <1>5, <1>6

LEMMA PositionTypes ==
  ASSUME DalitoolInv
  PROVE  /\ ring \in Seq(Packets) /\ made \in Nat /\ serial \in Nat /\ reader \in Int
         /\ pktid \in Nat /\ pkttime \in Nat /\ last \in Nat
         /\ pkt \in Packets /\ pkt.id \in Nat /\ pkt.time \in Nat
         /\ kept \in Packets /\ kept.id \in Nat /\ kept.time \in Nat
         /\ TimeOf(made) \in Int /\ Broken \in Int
         /\ \A i \in 1..Len(ring) : ring[i].id \in Nat /\ ring[i].time \in Nat
<1>1. ServerType /\ PlaceType /\ PositionType /\ FileType
  BY TypeParts, Zenon DEF DalitoolInv
<1>2. pkt.id \in Nat /\ pkt.time \in Nat /\ kept.id \in Nat /\ kept.time \in Nat
  BY <1>1 DEF PositionType, FileType, Packets
<1>3. made \in Int /\ made \in Nat
  BY <1>1 DEF ServerType
<1>4. TimeOf(made) \in Int
  BY <1>3, TimeOrder, Zenon
<1>5. \A i \in 1..Len(ring) : ring[i].id \in Nat /\ ring[i].time \in Nat
  BY <1>1, RingType, Zenon
<1> QED
  BY <1>1, <1>2, <1>3, <1>4, <1>5 DEF ServerType, PlaceType, PositionType, FileType, Broken

(* Neither the server's packets, nor the file, nor a position changes.     *)
Calm ==
  /\ UNCHANGED <<ring, made, serial, file, kept, last, sent, browsed, resumed, pktid, pkttime, pkt>>
  /\ reader' \in {reader, Broken}
  /\ \/ pc' = pc
     \/ pc = "off" /\ pc' = "recover"
     \/ pc = "position" /\ pc' = "match"
     \/ pc \in {"match", "reject"} /\ pc' \in {"reject", "info", "console", "collect"}
     \/ pc # "handle" /\ pc' \in {"shutdown", "save"}

LEMMA CalmKeeps ==
  ASSUME DalitoolInv, PositionInv, Calm
  PROVE  PositionInv'
<1> USE DEF PositionInv
<1>1. Made' = Made /\ Times(ring)' = Times(ring) /\ \A t : Gone(t)' = Gone(t)
  BY Zenon DEF Calm, Made, Gone
<1>2. RingShape' /\ WholeFile'
  BY Zenon DEF Calm, RingShape, WholeFile
<1>3. SentMade' /\ (reader' # Broken => reader' = reader)
  BY <1>1, Zenon DEF Calm, SentMade
<1>4. Origins' /\ LastSaved' /\ AtHandle' /\ Early'
  BY DEF Calm, Origins, LastSaved, AtHandle, Early, Handled, Foreign
<1>5. Restored' /\ InHand' /\ Reading'
  BY <1>1, <1>3 DEF Calm, Restored, InHand, Reading, Foreign
<1>6. Continued'
  <2>1. SUFFICES ASSUME resumed, ~browsed, last # 0
                 PROVE  /\ pc' \in {"match", "reject", "collect"} /\ reader' # Broken =>
                             \A t \in Made : last < t /\ t <= reader' => Gone(t)
                        /\ pc' \in {"body", "handle"} =>
                             \A t \in Made : last < t /\ t < pkt.time => Gone(t)
    BY <1>1, Zenon DEF Calm, Continued
  <2>2. pc # "position" /\ pc # "off"
    BY <2>1 DEF Early
  <2>3. /\ pc' \in {"match", "reject", "collect"} => pc \in {"match", "reject", "collect"}
        /\ pc' \in {"body", "handle"} => pc \in {"body", "handle"}
    BY <2>2 DEF Calm
  <2> QED
    BY <1>3, <2>1, <2>3, Zenon DEF Continued
<1> QED
  BY <1>2, <1>3, <1>4, <1>5, <1>6

LEMMA CalmSteps ==
  ASSUME DalitoolInv, PositionInv,
         \/ Start \/ NoPosition \/ Subscribe \/ InfoRequest \/ InfoTerminated \/ Tick
         \/ CollectEnds \/ ConsoleExit \/ Shutdown \/ Signal \/ UNCHANGED vars
  PROVE  Calm
<1> USE DEF Calm
<1>1. CASE Start \/ NoPosition \/ InfoRequest \/ InfoTerminated \/ Tick
  BY <1>1 DEF Start, NoPosition, InfoRequest, InfoTerminated, Tick, Goto, server, dlconn, history
<1>2. CASE Subscribe
  <2>1. mode \in {"info", "console", "collect"}
    BY Constants DEF DalitoolInv, DalitoolTypeOK
  <2> QED
    BY <1>2, <2>1 DEF Subscribe, Goto, server, dlconn, history
<1>3. CASE CollectEnds \/ ConsoleExit \/ Shutdown \/ Signal \/ UNCHANGED vars
  BY <1>3 DEF CollectEnds, ConsoleExit, Shutdown, Signal, Goto, vars, server, dlconn, history
<1> QED
  BY <1>1, <1>2, <1>3

(* The process ends without a save.                                        *)
LEMMA EndKeeps ==
  ASSUME DalitoolInv, PositionInv, Ends, UNCHANGED <<server, file, kept, last, sent, browsed>>
  PROVE  PositionInv'
<1> USE DEF PositionInv
<1>1. Made' = Made
  BY Zenon DEF Made, server
<1>2. RingShape' /\ WholeFile' /\ SentMade'
  BY <1>1, Zenon DEF RingShape, WholeFile, SentMade, server
<1>3. Foreign(0)
  BY TimePositive
<1>4. 0 \notin sent
  BY PositionTypes, MadeIs DEF SentMade
<1>5. Origins' /\ Early' /\ Restored' /\ InHand' /\ AtHandle' /\ Reading' /\ Continued'
  BY <1>3 DEF Ends, Origins, Handled, Early, Restored, InHand, AtHandle, Reading, Continued, Foreign
<1>6. LastSaved'
  BY <1>4 DEF Ends, LastSaved
<1> QED
  BY <1>2, <1>5, <1>6

(* A complete save: its position is one that was handled.                  *)
LEMMA SaveKeeps ==
  ASSUME DalitoolInv, PositionInv, SaveState
  PROVE  PositionInv'
<1> USE DEF PositionInv
<1> DEFINE line == StateLine(Address, pktid, pkttime)
<1>1. /\ pc = "save" /\ Ends /\ Saves(Len(line)) /\ UNCHANGED <<server, last, sent, browsed>>
  BY Zenon DEF SaveState
<1>2. Made' = Made
  BY <1>1, Zenon DEF Made, server
<1>3. RingShape' /\ SentMade'
  BY <1>1, <1>2, Zenon DEF RingShape, SentMade, server
<1>4. kept' = [id |-> pktid, time |-> pkttime] /\ file' = FileOf(Overwrite(file.text, line, Len(line)))
  BY <1>1, Zenon DEF Saves
<1>5. kept'.id = pktid /\ kept'.time = pkttime
  BY <1>4
<1>6. \E rest \in Seq(Cell) : file'.text = line \o rest
  <2>1. file.text \in Seq(Cell) /\ line \in Seq(Cell) /\ Len(line) \in Nat
    BY PositionTypes, LineType DEF DalitoolInv, FileType
  <2>2. Len(line) \in 0..Len(line)
    BY <2>1
  <2> HIDE DEF line
  <2>3. \E rest \in Seq(Cell) : Overwrite(file.text, line, Len(line)) = line \o rest
    BY <2>1, <2>2, OverwriteType, Zenon
  <2>4. file'.text = Overwrite(file.text, line, Len(line))
    BY <1>4 DEF FileOf
  <2> QED
    BY <2>3, <2>4
<1>7. WholeFile'
  BY <1>5, <1>6, Zenon DEF WholeFile
<1>8. Handled(pkttime) /\ Foreign(0) /\ 0 \notin sent
  BY <1>1, TimePositive, PositionTypes, MadeIs DEF Origins, SentMade
<1>9. Origins' /\ Early' /\ Restored' /\ InHand' /\ AtHandle' /\ Reading' /\ Continued'
  BY <1>1, <1>5, <1>8
     DEF Ends, Origins, Handled, Early, Restored, InHand, AtHandle, Reading, Continued, Foreign
<1>10. LastSaved'
  BY <1>1, <1>5, <1>8 DEF Ends, LastSaved
<1> QED
  BY <1>3, <1>7, <1>9, <1>10

(* What is recovered: the last save, or a position of no packet.           *)
LEMMA RecoverRestores ==
  ASSUME TextsApart, DalitoolInv, PositionInv, RecoverState
  PROVE  PositionInv'
<1> USE DEF PositionInv
<1> DEFINE lines == Recovered(file.text, Address)
<1>1. /\ pc = "recover" /\ pc' = "connect"
      /\ IF lines = {} THEN UNCHANGED <<pktid, pkttime>>
         ELSE \E l \in lines : pktid' = l.id /\ pkttime' = l.time
      /\ UNCHANGED <<ring, made, serial, file, kept, last, sent, browsed, resumed, pkt, reader>>
  BY Zenon DEF RecoverState, Goto, server, history
<1>2. Made' = Made
  BY <1>1, Zenon DEF Made
<1>3. RingShape' /\ SentMade' /\ WholeFile'
  BY <1>1, <1>2, Zenon DEF RingShape, SentMade, WholeFile
<1>4. (pktid' = kept.id /\ pkttime' = kept.time) \/ Foreign(pkttime') \/ UNCHANGED <<pktid, pkttime>>
  <2>1. ASSUME file.text \in Texts PROVE lines = {} \/ Foreign(pkttime')
    BY <1>1, <2>1, Zenon DEF TextsApart
  <2>2. ASSUME file.text = <<>> PROVE lines = {}
    <3>1. LineEnds(<<>>) = {}
      BY EmptySeq DEF LineEnds
    <3>2. Matching(<<>>, Address) = {}
      BY <3>1, Zenon DEF Matching
    <3> QED
      BY <2>2, <3>2, Zenon DEF Recovered
  <2>3. ASSUME NEW rest \in Seq(Cell), file.text = StateLine(Address, kept.id, kept.time) \o rest
        PROVE  pktid' = kept.id /\ pkttime' = kept.time
    <3>1. ReadsBack(StateLine(Address, kept.id, kept.time) \o rest, Address, kept.id, kept.time)
      BY PositionTypes, AddressRecovered, Zenon
    <3> QED
      BY <1>1, <2>3, <3>1, Zenon DEF ReadsBack
  <2> QED
    BY <1>1, <2>1, <2>2, <2>3, Zenon DEF WholeFile
<1> HIDE DEF lines
<1>5. Handled(pkttime) /\ Handled(kept.time)
  BY <1>1 DEF Origins
<1>6. Origins' /\ AtHandle' /\ InHand' /\ Early' /\ Continued'
  BY <1>1, <1>4, <1>5 DEF Origins, AtHandle, InHand, Early, Continued, Handled, Foreign
<1>7. Reading'
  BY <1>1, Zenon DEF Reading
<1>8. pktid = 0 /\ pkttime = 0 /\ Foreign(0)
  BY <1>1, TimePositive DEF Early
<1>9. Restored'
  BY <1>1, <1>4, <1>8, Zenon DEF Restored, Foreign
<1>10. \A t \in sent : ~Foreign(t)
  BY PositionTypes, MadeIs DEF SentMade
<1>11. LastSaved'
  <2>1. pkttime' = kept.time \/ pkttime' \notin sent
    BY <1>4, <1>8, <1>10, Zenon
  <2> QED
    BY <1>1, <2>1, Zenon DEF LastSaved
<1> QED
  BY <1>3, <1>6, <1>7, <1>9, <1>11

(* The server.  What is gone stays so: a new packet has a new time.        *)
LEMMA NewPacketRing ==
  ASSUME DalitoolInv, RingShape, NewPacket
  PROVE  /\ RingShape'
         /\ \A i \in 1..Len(ring') : ring'[i].time = TimeOf(made + 1) \/ ring'[i].time \in Times(ring)
<1> DEFINE new == [id |-> serial + 1, time |-> TimeOf(made + 1)]
           all == Append(ring, new)
<1>1. /\ ring' = (IF Len(all) > RingSize THEN Tail(all) ELSE all)
      /\ made' = made + 1 /\ serial' = serial + 1
  BY Zenon DEF NewPacket
<1>2. made' = made + 1 /\ serial' = serial + 1
  BY <1>1
<1>3. ring \in Seq(Packets) /\ made \in Nat /\ serial \in Nat /\ Len(ring) \in Nat /\ Len(ring) <= made
  BY PositionTypes DEF RingShape
<1>4. /\ new.id = serial + 1 /\ new.time = TimeOf(made + 1)
      /\ new \in Packets
  <2>1. TimeOf(made + 1) \in Nat
    BY <1>3, TimeOfType, Zenon
  <2> QED
    BY <1>3, <2>1 DEF Packets
<1> HIDE DEF new
<1>5. /\ all \in Seq(Packets) /\ all # <<>> /\ Len(all) = Len(ring) + 1
      /\ \A i \in 1..Len(ring) : all[i] = ring[i]
      /\ all[Len(ring) + 1] = new
  BY <1>3, <1>4
<1> HIDE DEF all
<1>6. \A i \in 1..Len(all) : /\ all[i].id = serial - Len(ring) + i
                             /\ all[i].time = TimeOf(made - Len(ring) + i)
  <2> SUFFICES ASSUME NEW i \in 1..Len(all)
               PROVE  /\ all[i].id = serial - Len(ring) + i
                      /\ all[i].time = TimeOf(made - Len(ring) + i)
    OBVIOUS
  <2>1. CASE i \in 1..Len(ring)
    BY <1>5, <2>1 DEF RingShape
  <2>2. CASE i = Len(ring) + 1
    <3>1. made - Len(ring) + i = made + 1 /\ serial - Len(ring) + i = serial + 1
      BY <1>3, <2>2
    <3> QED
      BY <1>4, <1>5, <2>2, <3>1
  <2> QED
    BY <1>3, <1>5, <2>1, <2>2
<1>7. \A i \in 1..Len(all) : all[i].time = TimeOf(made + 1) \/ all[i].time \in Times(ring)
  <2>1. \A i \in 1..Len(ring) : ring[i].time \in Times(ring)
    BY Zenon DEF Times
  <2>2. \A i \in 1..Len(all) : i \in 1..Len(ring) \/ i = Len(ring) + 1
    BY <1>3, <1>5
  <2> QED
    BY <1>4, <1>5, <2>1, <2>2
<1>8. CASE Len(all) > RingSize
  <2>1. /\ Len(ring') = Len(ring)
        /\ \A i \in 1..Len(ring) : ring'[i] = all[i + 1] /\ i + 1 \in 1..Len(all)
    BY <1>1, <1>3, <1>5, <1>8
  <2>2. \A i \in 1..Len(ring) : /\ serial - Len(ring) + (i + 1) = serial' - Len(ring') + i
                                /\ made - Len(ring) + (i + 1) = made' - Len(ring') + i
    <3>1. Len(ring') = Len(ring)
      BY <2>1
    <3> QED
      BY <1>3, <1>2, <3>1
  <2>3. \A i \in 1..Len(ring) : /\ ring'[i].id = serial - Len(ring) + (i + 1)
                                /\ ring'[i].time = TimeOf(made - Len(ring) + (i + 1))
    BY <1>6, <2>1, Zenon
  <2>4. \A i \in 1..Len(ring') : /\ ring'[i].id = serial' - Len(ring') + i
                                 /\ ring'[i].time = TimeOf(made' - Len(ring') + i)
    BY <2>1, <2>2, <2>3
  <2>5. Len(ring') <= made'
    BY <1>1, <1>3, <2>1
  <2>6. RingShape'
    BY <2>4, <2>5, Zenon DEF RingShape
  <2> QED
    BY <1>7, <2>1, <2>6, Zenon
<1>9. CASE ~(Len(all) > RingSize)
  <2>1. ring' = all
    BY <1>1, <1>9, Zenon
  <2>2. Len(ring') <= made' /\ Len(ring') = Len(ring) + 1
    BY <1>1, <1>3, <1>5, <2>1
  <2>3. \A i \in 1..Len(ring') : /\ serial - Len(ring) + i = serial' - Len(ring') + i
                                 /\ made - Len(ring) + i = made' - Len(ring') + i
    BY <1>3, <1>2, <2>2
  <2>4. \A i \in 1..Len(ring') : /\ ring'[i].id = serial' - Len(ring') + i
                                 /\ ring'[i].time = TimeOf(made' - Len(ring') + i)
    BY <1>6, <2>1, <2>3
  <2>5. RingShape'
    BY <2>2, <2>4, Zenon DEF RingShape
  <2> QED
    BY <1>7, <2>1, <2>5, Zenon
<1> QED
  BY <1>8, <1>9

LEMMA ServerKeeps ==
  ASSUME DalitoolInv, PositionInv, ServerStep
  PROVE  PositionInv'
<1> USE DEF PositionInv
<1>1. /\ made \in Nat /\ TimeOf(made) \in Int /\ TimeOf(made + 1) \in Int /\ TimeOf(made) < TimeOf(made + 1)
      /\ reader \in Int /\ pkt.time \in Nat
  <2>1. made \in Int /\ made + 1 \in Int /\ made < made + 1
    BY PositionTypes
  <2>2. TimeOf(made + 1) \in Int /\ TimeOf(made) < TimeOf(made + 1)
    BY <2>1, TimeOrder, Zenon
  <2> QED
    BY <2>2, PositionTypes
<1>2. UNCHANGED <<pc, pktid, pkttime, pkt, file, kept, last, sent, browsed, resumed>>
  BY DEF ServerStep, NewPacket, ServerRestart, dlconn, history
<1>3. \A t \in Made : t \in Int /\ t <= TimeOf(made)
  BY <1>1, MadeIs
<1>4. /\ RingShape' /\ (reader' = reader \/ reader' = Broken)
      /\ Made' = Made \/ (Made' = Made \cup {TimeOf(made + 1)} /\ made' = made + 1)
      /\ Made' = Made => made' = made
      /\ \A t \in Made : Gone(t) => Gone(t)'
  <2>1. CASE NewPacket
    <3>1. RingShape' /\ reader' = reader /\ made' = made + 1
      BY <2>1, NewPacketRing, Zenon DEF NewPacket
    <3>2. 1..(made + 1) = 1..made \cup {made + 1}
      BY <1>1
    <3>3. Made' = Made \cup {TimeOf(made + 1)}
      BY <3>1, <3>2 DEF Made
    <3>4. TimeOf(made + 1) \notin Made
      BY <1>1, <1>3
    <3>5. \A t \in Times(ring)' : t = TimeOf(made + 1) \/ t \in Times(ring)
      BY <2>1, NewPacketRing, Zenon DEF Times
    <3>6. \A t \in Made : Gone(t) => Gone(t)'
      BY <1>2, <3>4, <3>5, Zenon DEF Gone
    <3> QED
      BY <3>1, <3>3, <3>4, <3>6
  <2>2. CASE ServerRestart
    <3>1. ring' = <<>> /\ made' = made /\ reader' = Broken
      BY <2>2, Zenon DEF ServerRestart
    <3>2. Len(ring') = 0 /\ 1..0 = {}
      BY <3>1
    <3>3. Made' = Made /\ Times(ring)' = {}
      BY <3>1, <3>2, Zenon DEF Made, Times
    <3>4. RingShape'
      BY <1>1, <3>1, <3>2 DEF RingShape
    <3> QED
      BY <3>1, <3>3, <3>4, Zenon DEF Gone
  <2> QED
    BY <2>1, <2>2 DEF ServerStep
<1>5. \A t \in Made' : t \in Made \/ t = TimeOf(made + 1)
  BY <1>4
<1>6. WholeFile' /\ SentMade' /\ Origins' /\ Early' /\ Restored' /\ AtHandle' /\ LastSaved'
  BY <1>2, <1>4 DEF WholeFile, SentMade, Origins, Early, Restored, AtHandle, LastSaved, Handled, Foreign
<1>7. InHand'
  BY <1>2, <1>4 DEF InHand
<1>8. Reading'
  <2>1. TimeOf(made') \in Int /\ TimeOf(made) <= TimeOf(made')
    BY <1>1, <1>4
  <2> QED
    BY <1>1, <1>2, <1>4, <2>1 DEF Reading
<1>9. Continued'
  <2>1. SUFFICES ASSUME resumed, ~browsed, last # 0
                 PROVE  /\ pc \in {"match", "reject", "collect"} /\ reader' # Broken =>
                             \A t \in Made' : last < t /\ t <= reader' => Gone(t)'
                        /\ pc \in {"body", "handle"} =>
                             \A t \in Made' : last < t /\ t < pkt.time => Gone(t)'
    BY <1>2, Zenon DEF Continued
  <2>2. ASSUME NEW t \in Made', pc \in {"match", "reject", "collect"}, reader' # Broken, last < t, t <= reader'
        PROVE  Gone(t)'
    <3>1. reader' = reader /\ reader <= TimeOf(made)
      BY <1>4, <2>2 DEF Reading
    <3>2. t \in Made
      BY <1>1, <1>5, <2>2, <3>1
    <3> QED
      BY <1>4, <2>1, <2>2, <3>1, <3>2, Zenon DEF Continued
  <2>3. ASSUME NEW t \in Made', pc \in {"body", "handle"}, last < t, t < pkt.time
        PROVE  Gone(t)'
    <3>1. pkt.time <= TimeOf(made)
      BY <1>3, <2>3 DEF InHand
    <3>2. t \in Made
      BY <1>1, <1>5, <2>3, <3>1
    <3> QED
      BY <1>4, <2>1, <2>3, <3>2, Zenon DEF Continued
  <2> QED
    BY <2>2, <2>3
<1> QED
  BY <1>4, <1>6, <1>7, <1>8, <1>9
(* A connection reads from the latest packet on.                           *)
LEMMA ConnectKeeps ==
  ASSUME DalitoolInv, PositionInv, Connect
  PROVE  PositionInv'
<1> USE DEF PositionInv
<1>1. /\ pc = "connect" /\ pc' = "position" /\ reader' = TimeOf(made)
      /\ UNCHANGED <<ring, made, serial, file, kept, last, sent, browsed, resumed, pktid, pkttime, pkt>>
  BY Zenon DEF Connect, Goto, server, dlconn, history
<1>2. Made' = Made
  BY <1>1, Zenon DEF Made
<1>3. RingShape' /\ SentMade' /\ WholeFile'
  BY <1>1, <1>2, Zenon DEF RingShape, SentMade, WholeFile
<1>4. Origins' /\ Early' /\ Restored' /\ InHand' /\ AtHandle' /\ LastSaved' /\ Continued'
  BY <1>1 DEF Origins, Early, Restored, InHand, AtHandle, LastSaved, Continued, Handled, Foreign
<1>5. TimeOf(made)' = TimeOf(made)
  BY <1>1, Zenon DEF TimeOf
<1>6. TimeOf(made) \in Int /\ (kept.time \in sent => kept.time \in Nat /\ kept.time <= TimeOf(made))
  BY PositionTypes, MadeIs DEF SentMade
<1>7. Reading'
  BY <1>1, <1>5, <1>6 DEF Reading
<1> QED
  BY <1>3, <1>4, <1>7

(* A position the server still has is the one last saved, of a packet that *)
(* was handled.                                                            *)
LEMMA PositionFound ==
  ASSUME DalitoolInv, PositionInv, pc = "position", OnServer(pktid, pkttime)
  PROVE  /\ pkttime \in sent /\ pkttime = kept.time /\ pkttime <= TimeOf(made)
         /\ \A i \in 1..Len(ring) : ring[i].id = pktid => ring[i].time = pkttime
<1> USE DEF PositionInv
<1>1. PICK j \in 1..Len(ring) : ring[j] = [id |-> pktid, time |-> pkttime]
  BY Zenon DEF OnServer
<1>2. ring[j].id = pktid /\ ring[j].time = pkttime
  BY <1>1
<1>3. \A i \in 1..Len(ring) : ring[i].id = pktid => i = j
  BY <1>2, PositionTypes, RingTimes, Zenon
<1>4. pkttime \in Made
  BY <1>2, PositionTypes, RingTimes, Zenon
<1>5. ~Foreign(pkttime) /\ pkttime <= TimeOf(made)
  BY <1>4, PositionTypes, MadeIs, Zenon
<1>6. pkttime = kept.time /\ pkttime \in sent
  BY <1>5, Zenon DEF Restored, Origins, Handled
<1> QED
  BY <1>2, <1>3, <1>5, <1>6

LEMMA PositionKeeps ==
  ASSUME DalitoolInv, PositionInv, PositionSet
  PROVE  PositionInv' /\ (resumed' => pkttime \in sent)
<1> USE DEF PositionInv
<1>1. /\ pc = "position" /\ pc' = "match"
      /\ UNCHANGED <<ring, made, serial, file, kept, last, sent, browsed, pktid, pkttime, pkt>>
  BY Zenon DEF PositionSet, Goto, server, dlconn
<1>2. Made' = Made /\ TimeOf(made)' = TimeOf(made)
  BY <1>1, Zenon DEF Made, TimeOf
<1>3. RingShape' /\ SentMade' /\ WholeFile'
  BY <1>1, <1>2, Zenon DEF RingShape, SentMade, WholeFile
<1>4. Origins' /\ Early' /\ Restored' /\ InHand' /\ AtHandle' /\ LastSaved'
  BY <1>1 DEF Origins, Early, Restored, InHand, AtHandle, LastSaved, Handled, Foreign
<1>5. ~resumed
  BY <1>1 DEF Early
<1>6. CASE OnServer(pktid, pkttime)
  <2>1. /\ pkttime \in sent /\ pkttime = kept.time /\ pkttime <= TimeOf(made)
        /\ \A i \in 1..Len(ring) : ring[i].id = pktid => ring[i].time = pkttime
    BY <1>1, <1>6, PositionFound, Zenon
  <2>2. reader' \in {pkttime - 1, pkttime}
    BY <1>6, <2>1, Zenon DEF PositionSet
  <2>3. pkttime \in Nat /\ last \in Nat /\ TimeOf(made) \in Int
    BY PositionTypes, Zenon
  <2>4. Reading'
    BY <1>1, <1>2, <2>1, <2>2, <2>3 DEF Reading
  <2>5. \A t \in Made : t \in Int
    BY PositionTypes, MadeIs, Zenon
  <2>6. ~browsed => ~\E t \in Made : last < t /\ t <= reader'
    BY <1>1, <2>1, <2>2, <2>3, <2>5 DEF LastSaved
  <2>7. Continued'
    BY <1>1, <1>2, <2>6, Zenon DEF Continued
  <2> QED
    BY <1>3, <1>4, <2>1, <2>4, <2>7
<1>7. CASE ~OnServer(pktid, pkttime)
  <2>1. UNCHANGED <<reader, resumed>>
    BY <1>7, Zenon DEF PositionSet
  <2>2. Reading' /\ Continued'
    BY <1>1, <1>2, <1>5, <2>1, Zenon DEF Reading, Continued
  <2> QED
    BY <1>3, <1>4, <1>5, <2>1, <2>2
<1> QED
  BY <1>6, <1>7

(* The header of the next packet: what it passes over the server does not  *)
(* have.                                                                   *)
LEMMA HeaderKeeps ==
  ASSUME DalitoolInv, PositionInv, CollectHeader
  PROVE  PositionInv'
<1> USE DEF PositionInv
<1> DEFINE i == CHOOSE i \in NextUp : \A j \in NextUp : i <= j
<1>1. /\ pc = "collect" /\ pc' = "body" /\ reader # Broken /\ NextUp # {}
      /\ pkt' = ring[i] /\ reader' = ring[i].time
      /\ UNCHANGED <<ring, made, serial, file, kept, last, sent, browsed, resumed, pktid, pkttime>>
  BY Zenon DEF CollectHeader, Goto, server, dlconn, history
<1>2. i \in NextUp /\ \A j \in NextUp : i <= j
  <2>1. NextUp \in SUBSET Nat
    BY DEF NextUp
  <2>2. \E n \in NextUp : \A j \in NextUp : n <= j
    BY <1>1, <2>1, LeastNumber, Zenon
  <2> QED
    BY <2>2, Zenon
<1> HIDE DEF i
<1>3. i \in 1..Len(ring) /\ ring[i].time > reader
  BY <1>2, Zenon DEF NextUp
<1>4. Made' = Made /\ Times(ring)' = Times(ring) /\ TimeOf(made)' = TimeOf(made)
  BY <1>1, Zenon DEF Made, TimeOf
<1>5. RingShape' /\ SentMade' /\ WholeFile'
  BY <1>1, <1>4, Zenon DEF RingShape, SentMade, WholeFile
<1>6. Origins' /\ Early' /\ Restored' /\ AtHandle' /\ LastSaved'
  BY <1>1 DEF Origins, Early, Restored, AtHandle, LastSaved, Handled, Foreign
<1>7. ring[i].time \in Made /\ ring[i].time \in Nat /\ ring[i].time <= TimeOf(made)
  BY <1>3, PositionTypes, RingTimes, MadeIs
<1>8. kept.time \in sent => kept.time <= ring[i].time
  BY <1>1, <1>3, <1>7, PositionTypes, SMTT(30) DEF Reading
<1>9. InHand' /\ Reading'
  BY <1>1, <1>4, <1>7, <1>8, PositionTypes, SMTT(30) DEF InHand, Reading
<1>10. ASSUME NEW t \in Made, last < t, t < ring[i].time, resumed, ~browsed, last # 0
       PROVE  Gone(t)
  <2>1. t \in Int /\ reader \in Int
    BY PositionTypes, MadeIs, Zenon
  <2>2. CASE t <= reader
    BY <1>1, <1>10, <2>2, Zenon DEF Continued
  <2>3. CASE t > reader
    <3>1. SUFFICES ASSUME NEW j \in 1..Len(ring), ring[j].time = t PROVE FALSE
      BY Zenon DEF Gone, Times
    <3>2. j \in NextUp
      BY <2>3, <3>1, Zenon DEF NextUp
    <3>3. i <= j /\ i \in Int /\ j \in Int
      BY <1>2, <1>3, <3>2
    <3>4. i = j \/ i < j
      BY <3>3
    <3>5. ring[i].time = ring[j].time \/ ring[i].time < ring[j].time
      BY <1>3, <3>4, PositionTypes, RingTimes, Zenon
    <3> QED
      BY <1>7, <1>10, <2>1, <3>1, <3>5
  <2> QED
    BY <2>1, <2>2, <2>3
<1>11. Continued'
  <2>1. \A t \in Made : Gone(t)' = Gone(t)
    BY <1>1, <1>4, Zenon DEF Gone
  <2> QED
    BY <1>1, <1>4, <1>10, <2>1, Zenon DEF Continued
<1> QED
  BY <1>5, <1>6, <1>9, <1>11

LEMMA BodyKeeps ==
  ASSUME DalitoolInv, PositionInv, CollectBody
  PROVE  PositionInv'
<1> USE DEF PositionInv
<1>1. /\ pc = "body" /\ pc' = "handle" /\ pktid' = pkt.id /\ pkttime' = pkt.time
      /\ UNCHANGED <<ring, made, serial, file, kept, last, sent, browsed, resumed, pkt, reader>>
  BY Zenon DEF CollectBody, Goto, server, history
<1>2. Made' = Made /\ TimeOf(made)' = TimeOf(made) /\ \A t \in Made : Gone(t)' = Gone(t)
  BY <1>1, Zenon DEF Made, TimeOf, Gone
<1>3. RingShape' /\ SentMade' /\ WholeFile' /\ Reading'
  BY <1>1, <1>2, Zenon DEF RingShape, SentMade, WholeFile, Reading
<1>4. Origins' /\ Early' /\ Restored' /\ AtHandle' /\ LastSaved'
  BY <1>1 DEF Origins, Early, Restored, AtHandle, LastSaved, Handled, Foreign
<1>5. InHand' /\ Continued'
  BY <1>1, <1>2 DEF InHand, Continued
<1> QED
  BY <1>3, <1>4, <1>5

(* A packet is handled: it is the last one, and the reader stands at it.   *)
LEMMA HandleKeeps ==
  ASSUME DalitoolInv, PositionInv, Handle
  PROVE  PositionInv'
<1> USE DEF PositionInv
<1>1. /\ pc = "handle" /\ pc' = "collect" /\ last' = pkt.time /\ sent' = sent \cup {pkt.time}
      /\ UNCHANGED <<ring, made, serial, file, kept, pktid, pkttime, pkt, reader>>
  BY Zenon DEF Handle, Goto, server, dlconn
<1>2. Made' = Made /\ TimeOf(made)' = TimeOf(made)
  BY <1>1, Zenon DEF Made, TimeOf
<1>3. RingShape' /\ WholeFile'
  BY <1>1, Zenon DEF RingShape, WholeFile
<1>4. /\ pkt.time \in Made /\ reader \in {pkt.time, Broken}
      /\ kept.time \in sent => kept.time <= pkt.time
  BY <1>1, Zenon DEF InHand
<1>5. pkttime = pkt.time
  BY <1>1, Zenon DEF AtHandle
<1>6. \A t \in Made : t \in Int /\ ~Foreign(t)
  BY PositionTypes, MadeIs, Zenon
<1>7. kept.time \in sent' => kept.time \in sent
  BY <1>1, <1>4, <1>6, Zenon DEF Origins, Handled
<1>8. SentMade' /\ Origins' /\ Early' /\ Restored' /\ InHand' /\ AtHandle'
  BY <1>1, <1>2, <1>4, <1>5
     DEF SentMade, Origins, Early, Restored, InHand, AtHandle, Handled, Foreign
<1>9. Reading'
  BY <1>1, <1>2, <1>7, Zenon DEF Reading
<1>10. LastSaved'
  BY <1>1, <1>4, <1>5, <1>6, <1>7 DEF LastSaved
<1>11. ~\E t \in Made : last' < t /\ t <= reader /\ reader # Broken
  BY <1>1, <1>4, <1>6
<1>12. Continued'
  BY <1>1, <1>2, <1>11, Zenon DEF Continued
<1> QED
  BY <1>3, <1>8, <1>9, <1>10, <1>12

(* A READ of the console shows a packet the server has.                    *)
LEMMA ConsoleReadKeeps ==
  ASSUME DalitoolInv, PositionInv, ConsoleRead
  PROVE  PositionInv'
<1> USE DEF PositionInv
<1>1. /\ pc = "console" /\ pc' = "console" /\ browsed' = TRUE
      /\ UNCHANGED <<ring, made, serial, file, kept, last, resumed, pkt, reader>>
  BY Zenon DEF ConsoleRead, server
<1>2. PICK i \in 1..Len(ring) : pkttime' = ring[i].time /\ sent' = sent \cup {ring[i].time}
  BY Zenon DEF ConsoleRead
<1>3. ring[i].time \in Made /\ ~Foreign(ring[i].time)
  BY PositionTypes, RingTimes, MadeIs, Zenon
<1>4. Made' = Made /\ TimeOf(made)' = TimeOf(made)
  BY <1>1, Zenon DEF Made, TimeOf
<1>5. RingShape' /\ WholeFile'
  BY <1>1, Zenon DEF RingShape, WholeFile
<1>6. kept.time \in sent' => kept.time \in sent
  BY <1>2, <1>3, Zenon DEF Origins, Handled
<1>7. SentMade' /\ Origins'
  BY <1>1, <1>2, <1>3, <1>4 DEF SentMade, Origins, Handled, Foreign
<1>8. Early' /\ Restored' /\ InHand' /\ AtHandle' /\ LastSaved' /\ Continued'
  BY <1>1 DEF Early, Restored, InHand, AtHandle, LastSaved, Continued
<1>9. Reading'
  BY <1>1, <1>4, <1>6, Zenon DEF Reading
<1> QED
  BY <1>5, <1>7, <1>8, <1>9
-----------------------------------------------------------------------------
LEMMA InitPositionInv == TextsApart /\ Init => PositionInv
<1> SUFFICES ASSUME Init PROVE PositionInv
  OBVIOUS
<1>1. RingShape
  BY DEF Init, RingShape
<1>2. WholeFile
  <2>1. file = NoFile \/ \E t \in Texts : file = FileOf(t)
    BY Zenon DEF Init
  <2>2. file.text = <<>> \/ file.text \in Texts
    BY <2>1 DEF NoFile, FileOf
  <2> QED
    BY <2>2, Zenon DEF WholeFile
<1>3. Foreign(0)
  BY TimePositive
<1>4. SentMade /\ Origins /\ Early /\ Restored /\ LastSaved
  BY <1>3 DEF Init, Off, NoPacket, SentMade, Origins, Handled, Early, Restored, LastSaved
<1>5. InHand /\ AtHandle /\ Reading /\ Continued
  BY DEF Init, Off, InHand, AtHandle, Reading, Continued
<1> QED
  BY <1>1, <1>2, <1>4, <1>5 DEF PositionInv

LEMMA NextPositionInv ==
  TextsApart /\ DalitoolInv /\ PositionInv /\ [Next /\ ~SaveTorn]_vars => PositionInv'
<1> SUFFICES ASSUME TextsApart, DalitoolInv, PositionInv, [Next /\ ~SaveTorn]_vars
             PROVE  PositionInv'
  OBVIOUS
<1>1. CASE ServerStep
  BY <1>1, ServerKeeps, Zenon
<1>2. CASE \/ Start \/ NoPosition \/ Subscribe \/ InfoRequest \/ InfoTerminated \/ Tick
           \/ CollectEnds \/ ConsoleExit \/ Shutdown \/ Signal \/ UNCHANGED vars
  BY <1>2, CalmSteps, CalmKeeps, Zenon
<1>3. CASE RecoverState
  BY <1>3, RecoverRestores, Zenon
<1>4. CASE GivesUp \/ InfoFails \/ Crash
  BY <1>4, EndKeeps, Zenon DEF GivesUp, InfoFails, Crash
<1>5. CASE Connect
  BY <1>5, ConnectKeeps, Zenon
<1>6. CASE PositionSet
  BY <1>6, PositionKeeps, Zenon
<1>7. CASE CollectHeader
  BY <1>7, HeaderKeeps, Zenon
<1>8. CASE CollectBody
  BY <1>8, BodyKeeps, Zenon
<1>9. CASE Handle
  BY <1>9, HandleKeeps, Zenon
<1>10. CASE SaveState
  BY <1>10, SaveKeeps, Zenon
<1>11. CASE ConsoleRead
  BY <1>11, ConsoleReadKeeps, Zenon
<1> QED
  BY <1>1, <1>2, <1>3, <1>4, <1>5, <1>6, <1>7, <1>8, <1>9, <1>10, <1>11, Zenon DEF Next, Main

(* The parts of PositionInv hold together in every state of every session. *)
THEOREM PositionInvariance ==
  ASSUME TextsApart
  PROVE  WholeSpec => [](DalitoolInv /\ PositionInv)
<1>1. Init => DalitoolInv /\ PositionInv
  BY InitDalitoolInv, InitPositionInv
<1>2. [Next /\ ~SaveTorn]_vars => [Next]_vars
  OBVIOUS
<1>3. DalitoolInv /\ PositionInv /\ [Next /\ ~SaveTorn]_vars => (DalitoolInv /\ PositionInv)'
  BY <1>2, NextDalitoolInv, NextPositionInv
<1> QED
  BY <1>1, <1>3, PTL DEF WholeSpec

(* The position main() sends is one that packet_handler() was given, or    *)
(* the server has no packet with it: of what dl_recoverstate() reads only  *)
(* the last save can name a packet, and that one was saved after it was    *)
(* handled, whatever IDs the server has given again since.                 *)
THEOREM ResumesWhereHandled ==
  ASSUME TextsApart
  PROVE  WholeSpec => PositionWasHandled
<1> DEFINE Found == pc = "position" /\ ~resumed /\ resumed' => pkttime \in sent
<1>1. ASSUME DalitoolInv, PositionInv, [Next /\ ~SaveTorn]_vars PROVE Found
  <2>1. SUFFICES ASSUME pc = "position", ~resumed, resumed' PROVE pkttime \in sent
    OBVIOUS
  <2>2. PositionSet
    BY <1>1, <2>1
       DEF Next, Main, ServerStep, NewPacket, ServerRestart, Start, RecoverState, GivesUp, Connect,
           NoPosition, Subscribe, InfoRequest, InfoFails, InfoTerminated, CollectHeader, CollectBody,
           CollectEnds, Handle, Shutdown, SaveState, SaveTorn, Tick, ConsoleRead, ConsoleExit, Crash,
           Signal, Goto, Ends, vars, history
  <2> QED
    BY <1>1, <2>1, <2>2, PositionKeeps, Zenon
<1>2. DalitoolInv /\ PositionInv /\ [Next /\ ~SaveTorn]_vars => [Found]_vars
  BY <1>1, Zenon
<1> HIDE DEF Found
<1>3. WholeSpec => [][Found]_vars
  BY <1>2, PositionInvariance, PTL DEF WholeSpec
<1> QED
  BY <1>3, Zenon DEF PositionWasHandled, Found

(* From one packet_handler() is given to the next, in one session or       *)
(* across stops, kills, lost connections and restarts of the server, no    *)
(* packet the server still has is passed over, once there is a packet to   *)
(* go on from.                                                             *)
THEOREM NothingPassedOver ==
  ASSUME TextsApart
  PROVE  WholeSpec => NoLoss
<1> DEFINE Covered == last # 0 /\ resumed /\ ~browsed => ~Misses(last, last')
<1>1. ASSUME DalitoolInv, PositionInv, [Next /\ ~SaveTorn]_vars PROVE Covered
  <2>1. last \in Nat
    BY <1>1, PositionTypes, Zenon
  <2>2. CASE last' = last
    <3>1. \A m \in Nat : (m + 1)..(m - 1) = {}
      OBVIOUS
    <3>2. Passed(last, last') = {}
      BY <2>1, <2>2, <3>1 DEF Passed
    <3> QED
      BY <3>2, Zenon DEF Misses
  <2>3. CASE Handle
    <3>1. pc = "handle" /\ last' = pkt.time /\ pkt.time \in Nat
      BY <1>1, <2>3, PositionTypes, Zenon DEF Handle, Goto
    <3>2. ASSUME last # 0, resumed, ~browsed, NEW t \in Passed(last, last') PROVE Gone(t)
      <4>1. t \in Made /\ t \in (last + 1)..(pkt.time - 1)
        BY <3>1, <3>2, Zenon DEF Passed, Made
      <4>2. last < t /\ t < pkt.time
        BY <2>1, <3>1, <4>1
      <4> QED
        BY <1>1, <3>1, <3>2, <4>1, <4>2, Zenon DEF PositionInv, Continued
    <3> QED
      BY <3>2, Zenon DEF Misses, Gone
  <2> QED
    BY <1>1, <2>2, <2>3
       DEF Next, Main, ServerStep, NewPacket, ServerRestart, Start, RecoverState, GivesUp, Connect,
           PositionSet, NoPosition, Subscribe, InfoRequest, InfoFails, InfoTerminated, CollectHeader,
           CollectBody, CollectEnds, Shutdown, SaveState, SaveTorn, Tick, ConsoleRead, ConsoleExit,
           Crash, Signal, Ends, vars, history
<1>2. DalitoolInv /\ PositionInv /\ [Next /\ ~SaveTorn]_vars => [Covered]_vars
  BY <1>1, Zenon
<1> HIDE DEF Covered
<1>3. WholeSpec => [][Covered]_vars
  BY <1>2, PositionInvariance, PTL DEF WholeSpec
<1> QED
  BY <1>3, Zenon DEF NoLoss, Covered
=============================================================================
