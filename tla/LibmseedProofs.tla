--------------------------- MODULE LibmseedProofs ---------------------------
(***************************************************************************)
(* Proof that RecordsRead of Files holds for every file, every way to open *)
(* it and every batch of records that is written: RecordsAreRead; and that *)
(* the parser of Records asks for no more than a record has: ParserAsks,   *)
(* which it therefore does of every record that is packed: PackedIsParsed, *)
(* RecordsAreParsed; that Selections selects the records that were asked   *)
(* for, whatever was added: SelectedWhenAsked; and that a glob matches     *)
(* what its tokens cover: GlobsCover; and that samples and codes are the   *)
(* same after they have been through Encodings: SteimIsKept, CodesAreRead, *)
(* SamplesAreDecoded.                                                      *)
(*                                                                         *)
(* First come the places of the pieces (Layout), which are sums that a     *)
(* fold yields; then what the parser makes of the bytes at a place (Found, *)
(* NotFound, Exhausted).  FileKept is what holds of an open file and the   *)
(* records handed out: the position is that of the buffer (Positioned),    *)
(* they are in order and end before the position (Handed), are records of  *)
(* the file (Sound), and none before the position is missing (Complete).   *)
(* A pass through the loop keeps it, whatever was delivered (PassesWell).  *)
(* Reading from memory is a recursive function; ReadGood says of each of   *)
(* its values, from the end of the buffer backwards, what is read from     *)
(* there on.  Detect's walk along the blockettes is such a function too    *)
(* (WalkExists); DetectIs and WalkIs say what it finds.  CodedWell is what *)
(* holds after each pass through the loop of the Steim encoder: the words  *)
(* hold the differences up to the next one.  Blockettes are laid out by    *)
(* the sums of their lengths (SizeSums, ChainIs); a header has them within *)
(* the record (BlocksAre), and the loop that packs makes records from the  *)
(* samples that are left, fewer each time (PackSamplesIs).  The matcher is *)
(* a recursive function over the places of a pattern; from the last token  *)
(* back to the first it finds the cuts of the string (TokenCuts).          *)
(***************************************************************************)
EXTENDS Files, Selections, RecordCalls, Numbers, FiniteSetTheorems, SequenceTheorems, TLAPS

(* Pieces, with the values that FilesAssumption allows.                    *)
Kinds  == {"record", "bare", "other"}
Pieces ==
  {c \in [kind : Kinds, version : {2, 3}, len : Nat, size : Nat, crc : BOOLEAN, picked : BOOLEAN, bad : BOOLEAN] :
     IsPiece(c)}

-----------------------------------------------------------------------------
(* The bytes of pieces: what the fold is, by the sums of the beginnings.   *)
Sums(P, q) ==
  /\ P \in [0..Len(q) -> Nat] /\ P[0] = 0
  /\ \A m \in 1..Len(q) : P[m] = P[m - 1] + q[m].size

(* The fold of Bytes yields the last of the sums.                          *)
LEMMA BytesSums ==
  ASSUME NEW q \in Seq(Pieces)
  PROVE  \E P : Sums(P, q) /\ Bytes(q) = P[Len(q)]
<1> DEFINE n == Len(q)
           S == SUBSET (1..n)
           Fold(f) == [s \in S |-> IF s = {} THEN 0 ELSE f[s \ {Max(s)}] + q[Max(s)].size]
           fold == CHOOSE f : f = Fold(f)
<1>1. n \in Nat /\ DOMAIN q = 1..n /\ \A i \in 1..n : q[i].size \in Nat
  <2>1. n \in Nat /\ DOMAIN q = 1..n /\ \A i \in 1..n : q[i] \in Pieces
    OBVIOUS
  <2>2. \A c \in Pieces : c.size \in Nat
    BY DEF Pieces
  <2> QED BY <2>1, <2>2
<1>2. Bytes(q) = fold[1..n]
  BY <1>1, Zenon DEF Bytes, FoldLeft, MapThenFoldSet
<1>3. ASSUME NEW s \in S, s # {}
      PROVE  Max(s) \in s /\ \A k \in s : k <= Max(s)
  <2>1. s \in SUBSET Nat /\ \A k \in s : k <= n
    BY <1>1, <1>3
  <2>2. \E m \in s : \A k \in s : k <= m
    BY <1>1, <1>3, <2>1, GreatestNumber, Zenon
  <2>3. \E m \in s : \A k \in s : m >= k
    BY <2>1, <2>2
  <2>4. Max(s) \in s /\ \A k \in s : Max(s) >= k
    BY <2>3 DEF Max
  <2> QED BY <2>1, <2>4
<1> DEFINE top == [s \in S |-> IF s = {} THEN 1 ELSE Max(s)]
           rank == [s \in S |-> Cardinality(s)]
           parent == [s \in S |-> s \ {top[s]}]
           base == [s \in S |-> 0]
           step == [s \in S |-> [v \in Nat |-> v + (IF s = {} THEN 0 ELSE q[top[s]].size)]]
<1>4. \A s \in S : s # {} => top[s] = Max(s) /\ top[s] \in s /\ s \ {top[s]} \in S
  BY <1>3
<1>5. \A s \in S : Cardinality(s) \in Nat /\ (s # {} => Cardinality(s \ {top[s]}) < Cardinality(s))
  <2> TAKE s \in S
  <2> HIDE DEF top
  <2>1. IsFiniteSet(1..n)
    BY <1>1, FS_Interval
  <2>2. IsFiniteSet(s) /\ Cardinality(s) \in Nat
    BY <2>1, FS_Subset, FS_CardinalityType
  <2>3. s # {} => Cardinality(s \ {top[s]}) = Cardinality(s) - 1
    BY <1>4, <2>2, FS_RemoveElement
  <2> QED BY <2>2, <2>3
<1> HIDE DEF S, top, n
<1>6. rank \in [S -> Nat] /\ parent \in [S -> S] /\ base \in [S -> Nat]
  <2>1. \A s \in S : s \ {top[s]} \in S
    BY DEF S
  <2>2. \A s \in S : Cardinality(s) \in Nat
    BY <1>5
  <2>3. rank \in [S -> Nat]
    BY <2>2, Zenon
  <2>4. parent \in [S -> S]
    BY <2>1, Zenon
  <2> QED BY <2>3, <2>4
<1>7. step \in [S -> [Nat -> Nat]]
  <2>1. \A s \in S : s # {} => q[top[s]].size \in Nat
    BY <1>1, <1>4 DEF S
  <2> QED BY <2>1
<1>8. \A s \in S \ {{}} : rank[parent[s]] < rank[s]
  BY <1>4, <1>5
<1>9. \A s \in S : /\ base[s] = 0 /\ parent[s] = s \ {top[s]}
                   /\ \A v \in Nat : step[s][v] = v + (IF s = {} THEN 0 ELSE q[top[s]].size)
  BY Zenon
<1> HIDE DEF rank, parent, base, step
<1>10. PICK f \in [S -> Nat] : \A s \in S : Follows(f, s, parent, {{}}, base, step)
  BY <1>6, <1>7, <1>8, Recursion
<1>11. ASSUME NEW s \in S
       PROVE  f[s] = IF s = {} THEN 0 ELSE f[s \ {Max(s)}] + q[Max(s)].size
  <2>1. f[s] = IF s = {} THEN 0 ELSE step[s][f[parent[s]]]
    BY <1>9, <1>10 DEF Follows
  <2>2. f[parent[s]] \in Nat
    BY <1>6, <1>10
  <2>3. step[s][f[parent[s]]] = f[parent[s]] + (IF s = {} THEN 0 ELSE q[top[s]].size)
    BY <1>9, <2>2, Zenon
  <2>4. CASE s = {}
    BY <2>1, <2>4
  <2>5. CASE s # {}
    <3>1. top[s] = Max(s) /\ parent[s] = s \ {top[s]}
      BY <1>4, <1>9, <2>5, Zenon
    <3> QED BY <2>1, <2>3, <2>5, <3>1
  <2> QED BY <2>4, <2>5
<1>12. f = Fold(f)
  BY <1>11
<1>13. fold = Fold(fold)
  <2> HIDE DEF Fold
  <2> QED BY <1>12
<1>14. \A s \in S : fold[s] = IF s = {} THEN 0 ELSE fold[s \ {Max(s)}] + q[Max(s)].size
  <2> HIDE DEF fold
  <2>1. \A s \in S : Fold(fold)[s] = IF s = {} THEN 0 ELSE fold[s \ {Max(s)}] + q[Max(s)].size
    OBVIOUS
  <2> HIDE DEF Fold
  <2> QED BY <1>13, <2>1
<1> HIDE DEF fold
<1> DEFINE P == [m \in 0..n |-> fold[1..m]]
<1>15. n \in Nat /\ \A m \in 0..n : 1..m \in S
  BY <1>1 DEF S
<1>16. P[0] = 0
  <2>1. 1..0 = {} /\ 0 \in 0..n
    BY <1>15
  <2> QED BY <1>14, <1>15, <2>1
<1>17. ASSUME NEW m \in 1..n
       PROVE  P[m] = P[m - 1] + q[m].size
  <2>1. 1..m \in S /\ m \in 1..m /\ m \in 0..n /\ m - 1 \in 0..n
    BY <1>15
  <2>2. Max(1..m) \in 1..m /\ \A k \in 1..m : k <= Max(1..m)
    BY <1>3, <2>1
  <2>3. Max(1..m) = m
    BY <2>1, <2>2
  <2>4. (1..m) \ {m} = 1..(m - 1)
    OBVIOUS
  <2>5. fold[1..m] = fold[1..(m - 1)] + q[m].size
    BY <1>14, <2>1, <2>3, <2>4
  <2> QED BY <2>1, <2>5
<1> DEFINE T == {m \in Nat : m <= n => P[m] \in Nat}
<1>18. 0 \in T
  BY <1>16
<1>19. ASSUME NEW m \in T PROVE m + 1 \in T
  <2> SUFFICES ASSUME m + 1 <= n PROVE P[m + 1] \in Nat
    BY <1>19
  <2> HIDE DEF P
  <2>1. m \in Nat /\ m + 1 \in 1..n /\ (m + 1) - 1 = m /\ P[m] \in Nat
    BY <1>15, <1>19
  <2>2. q[m + 1].size \in Nat
    BY <1>1, <2>1
  <2> QED BY <1>17, <2>1, <2>2
<1> HIDE DEF T
<1>20. \A m \in 0..n : P[m] \in Nat
  <2>1. T \in SUBSET Nat
    BY DEF T
  <2>2. \A m \in Nat : m \in T
    BY <1>18, <1>19, <2>1, Induction
  <2> HIDE DEF P
  <2> QED BY <1>15, <2>2 DEF T
<1>21. Sums(P, q)
  <2>1. P \in [0..n -> Nat]
    BY <1>20
  <2> HIDE DEF P
  <2> QED BY <1>16, <1>17, <2>1 DEF Sums, n
<1>22. Bytes(q) = P[Len(q)]
  BY <1>2, <1>15 DEF n
<1> HIDE DEF P
<1> QED BY <1>21, <1>22

(* The places of pieces that are laid out one after another.               *)
Laid(d, P) == d \in Seq(Pieces) /\ Sums(P, d) /\ \A i \in 1..(Len(d) + 1) : Bytes(SubSeq(d, 1, i - 1)) = P[i - 1]

(* Any pieces are laid out so.                                             *)
LEMMA Layout ==
  ASSUME NEW d \in Seq(Pieces)
  PROVE  \E P : Laid(d, P) /\ Bytes(d) = P[Len(d)]
<1>1. PICK P : Sums(P, d) /\ Bytes(d) = P[Len(d)]
  BY BytesSums
<1>2. ASSUME NEW i \in 1..(Len(d) + 1) PROVE Bytes(SubSeq(d, 1, i - 1)) = P[i - 1]
  <2> DEFINE e == SubSeq(d, 1, i - 1)
  <2>1. e \in Seq(Pieces) /\ Len(e) = i - 1 /\ \A k \in 1..(i - 1) : e[k] = d[k]
    <3>1. i - 1 \in 0..Len(d) /\ Len(d) \in Nat
      BY <1>2
    <3>2. /\ e \in Seq(Pieces) /\ Len(e) = (IF 1 <= i - 1 THEN i - 1 - 1 + 1 ELSE 0)
          /\ \A k \in 1..(i - 1 - 1 + 1) : e[k] = d[1 + k - 1]
      BY <3>1, SubSeqProperties
    <3> QED BY <3>1, <3>2
  <2> HIDE DEF e
  <2>2. PICK Q : Sums(Q, e) /\ Bytes(e) = Q[Len(e)]
    BY <2>1, BytesSums
  <2> DEFINE T == {m \in Nat : m <= i - 1 => Q[m] = P[m]}
  <2>3. 0 \in T
    BY <1>1, <2>2 DEF Sums
  <2>4. ASSUME NEW m \in T PROVE m + 1 \in T
    <3> SUFFICES ASSUME m + 1 <= i - 1 PROVE Q[m + 1] = P[m + 1]
      BY <2>4
    <3>1. /\ m \in Nat /\ m + 1 \in 1..(i - 1) /\ m + 1 \in 1..Len(d) /\ m + 1 \in 1..Len(e)
          /\ (m + 1) - 1 = m /\ Q[m] = P[m]
      BY <1>2, <2>1, <2>4
    <3>2. Q[m + 1] = Q[m] + e[m + 1].size /\ P[m + 1] = P[m] + d[m + 1].size
      BY <1>1, <2>2, <3>1 DEF Sums
    <3> QED BY <2>1, <3>1, <3>2
  <2> HIDE DEF T
  <2>5. T \in SUBSET Nat
    BY DEF T
  <2>6. \A m \in Nat : m \in T
    BY <2>3, <2>4, <2>5, Induction
  <2>7. i - 1 \in Nat
    BY <1>2
  <2> QED BY <2>1, <2>2, <2>6, <2>7 DEF T, e
<1> QED BY <1>1, <1>2 DEF Laid

Place(d, i) == Bytes(SubSeq(d, 1, i - 1))
Filled(d) == d \in Seq(Pieces) /\ \A i \in DOMAIN d : d[i].size > 0

(* Places: pieces lie one after another, up to the end of the file.        *)
LEMMA Places1 ==
  ASSUME NEW d, Filled(d)
  PROVE  /\ Bytes(d) \in Nat
         /\ \A i \in DOMAIN d : /\ Place(d, i) \in Nat /\ d[i].size \in Nat \ {0}
                                /\ Place(d, i) + d[i].size <= Bytes(d)
         /\ d # <<>> => Place(d, 1) = 0 /\ Place(d, Len(d)) + d[Len(d)].size = Bytes(d)
         /\ \A i, j \in DOMAIN d : i < j => Place(d, i) + d[i].size <= Place(d, j)
         /\ \A i, j \in DOMAIN d : j = i + 1 => Place(d, i) + d[i].size = Place(d, j)
<1>1. PICK P : Laid(d, P) /\ Bytes(d) = P[Len(d)]
  BY Layout DEF Filled
<1>2. /\ Len(d) \in Nat /\ DOMAIN d = 1..Len(d) /\ \A i \in DOMAIN d : d[i] \in Pieces
  BY DEF Filled
<1>3. \A i \in DOMAIN d : d[i].size \in Nat \ {0}
  BY <1>2 DEF Pieces, Filled
<1>4. /\ \A m \in 0..Len(d) : P[m] \in Nat
      /\ P[0] = 0 /\ \A m \in 1..Len(d) : P[m] = P[m - 1] + d[m].size
  BY <1>1 DEF Laid, Sums
<1>5. \A i \in DOMAIN d : Place(d, i) = P[i - 1] /\ Place(d, i) + d[i].size = P[i] /\ i - 1 \in 0..Len(d) /\ i \in 0..Len(d)
  BY <1>1, <1>2, <1>4 DEF Laid, Place
<1>6. \A i, j \in 0..Len(d) : i <= j => P[i] <= P[j]
  <2> DEFINE T == {k \in Nat : \A i \in 0..Len(d) : i + k <= Len(d) => P[i] <= P[i + k]}
  <2>1. 0 \in T
    BY <1>4
  <2>2. ASSUME NEW k \in T PROVE k + 1 \in T
    <3> SUFFICES ASSUME NEW i \in 0..Len(d), i + (k + 1) <= Len(d) PROVE P[i] <= P[i + (k + 1)]
      BY <2>2
    <3>1. k \in Nat /\ i + k \in 0..Len(d) /\ i + (k + 1) \in 1..Len(d) /\ i + (k + 1) \in 0..Len(d)
          /\ (i + (k + 1)) - 1 = i + k /\ P[i] <= P[i + k]
      BY <1>2, <2>2
    <3>2. P[i + (k + 1)] = P[i + k] + d[i + (k + 1)].size /\ d[i + (k + 1)].size \in Nat
      BY <1>2, <1>3, <1>4, <3>1
    <3> QED BY <1>4, <3>1, <3>2
  <2> HIDE DEF T
  <2>3. T \in SUBSET Nat
    BY DEF T
  <2>4. \A k \in Nat : k \in T
    BY <2>1, <2>2, <2>3, Induction
  <2> SUFFICES ASSUME NEW i \in 0..Len(d), NEW j \in 0..Len(d), i <= j PROVE P[i] <= P[j]
    OBVIOUS
  <2>5. j - i \in Nat /\ i + (j - i) = j /\ i + (j - i) <= Len(d)
    BY <1>2
  <2>6. j - i \in T
    BY <2>4, <2>5
  <2>7. P[i] <= P[i + (j - i)]
    BY <2>5, <2>6 DEF T
  <2> QED BY <2>5, <2>7
<1>7. Len(d) \in 0..Len(d) /\ Bytes(d) \in Nat
  BY <1>1, <1>2, <1>4
<1>8. ASSUME NEW i \in DOMAIN d
      PROVE  Place(d, i) \in Nat /\ d[i].size \in Nat \ {0} /\ Place(d, i) + d[i].size <= Bytes(d)
  <2>1. Place(d, i) \in Nat
    BY <1>4, <1>5
  <2>2. i <= Len(d)
    BY <1>2
  <2>3. P[i] <= P[Len(d)]
    BY <1>5, <1>6, <1>7, <2>2
  <2> QED BY <1>1, <1>3, <1>5, <2>1, <2>3
<1>9. ASSUME d # <<>> PROVE Place(d, 1) = 0 /\ Place(d, Len(d)) + d[Len(d)].size = Bytes(d)
  <2>1. 1 \in DOMAIN d /\ Len(d) \in DOMAIN d /\ 1 - 1 = 0
    BY <1>2, <1>9 DEF Filled
  <2> QED BY <1>1, <1>4, <1>5, <2>1
<1>10. ASSUME NEW i \in DOMAIN d, NEW j \in DOMAIN d, i < j PROVE Place(d, i) + d[i].size <= Place(d, j)
  <2>1. i <= j - 1 /\ i \in 0..Len(d) /\ j - 1 \in 0..Len(d)
    BY <1>2, <1>10
  <2>2. P[i] <= P[j - 1]
    BY <1>6, <2>1
  <2> QED BY <1>5, <2>2
<1>11. ASSUME NEW i \in DOMAIN d, NEW j \in DOMAIN d, j = i + 1 PROVE Place(d, i) + d[i].size = Place(d, j)
  <2>1. j - 1 = i
    BY <1>2, <1>11
  <2> QED BY <1>5, <2>1
<1> QED BY <1>7, <1>8, <1>9, <1>10, <1>11

-----------------------------------------------------------------------------
(* An open file: where its buffer lies in what is delivered.               *)
Ways == [start : Nat, end : Nat, skip : BOOLEAN, chunk : Nat]

MS3FileParam ==
  [chunk : Nat, skip : BOOLEAN, start : Nat, end : Nat, from : Nat, till : Nat, streampos : Nat,
   count : Nat, length : 0..MaxRecLen, offset : Nat, got : Nat, eof : BOOLEAN]

Positioned(m, size) ==
  /\ m \in MS3FileParam /\ m.offset <= m.length /\ m.length <= m.got
  /\ m.streampos - m.start = m.got - Buffered(m)
  /\ m.got = 0 \/ m.from + m.got <= m.till
  /\ m.till <= size
  /\ m.eof => m.from + m.got >= m.till

SameFile(f, m) ==
  /\ f.chunk = m.chunk /\ f.skip = m.skip /\ f.start = m.start /\ f.end = m.end
  /\ f.from = m.from /\ f.till = m.till /\ f.count = m.count

Constants1 == MinRecLen \in Nat /\ MaxRecLen \in Nat /\ MinRecLen = 40

(* The bounds of libmseed.h are numbers.                                   *)
LEMMA ConstantsAre == Constants1
BY DEF Constants1, MinRecLen, MaxRecLen

(* The fields of an open file are numbers.                                 *)
LEMMA FieldsAre ==
  ASSUME NEW m, NEW size, Positioned(m, size)
  PROVE  /\ m.chunk \in Nat /\ m.skip \in BOOLEAN /\ m.start \in Nat /\ m.end \in Nat /\ m.from \in Nat
         /\ m.till \in Nat /\ m.streampos \in Nat /\ m.count \in Nat /\ m.length \in 0..MaxRecLen
         /\ m.offset \in Nat /\ m.got \in Nat /\ m.eof \in BOOLEAN
         /\ Buffered(m) = m.length - m.offset /\ Buffered(m) \in Nat
<1>1. m \in MS3FileParam /\ m.offset <= m.length
  BY DEF Positioned
<1>2. /\ m.chunk \in Nat /\ m.skip \in BOOLEAN /\ m.start \in Nat /\ m.end \in Nat /\ m.from \in Nat
      /\ m.till \in Nat /\ m.streampos \in Nat /\ m.count \in Nat /\ m.length \in 0..MaxRecLen
      /\ m.offset \in Nat /\ m.got \in Nat /\ m.eof \in BOOLEAN
  BY <1>1 DEF MS3FileParam
<1>3. MaxRecLen \in Nat
  BY ConstantsAre DEF Constants1
<1> QED BY <1>1, <1>2, <1>3 DEF Buffered

(* ms3_shift_msfp() leaves the position and what is buffered alone.        *)
LEMMA ShiftedIs ==
  ASSUME NEW m, NEW size \in Nat, Positioned(m, size)
  PROVE  /\ Positioned(Shifted(m), size) /\ SameFile(Shifted(m), m) /\ Shifted(m).offset = 0
         /\ Shifted(m).streampos = m.streampos /\ Shifted(m).length = Buffered(m)
         /\ Shifted(m).got = m.got /\ Shifted(m).eof = m.eof
<1>1. MaxRecLen \in Nat
  BY ConstantsAre DEF Constants1
<1>2. PICK b \in Nat : b = Buffered(m) /\ b = m.length - m.offset
  BY FieldsAre
<1>3. Shifted(m) = [m EXCEPT !.length = b, !.offset = 0]
  <2>1. CASE b <= 0
    <3>1. Shifted(m) = [m EXCEPT !.length = 0, !.offset = 0] /\ b = 0
      BY <1>2, <2>1 DEF Shifted
    <3> QED BY <3>1
  <2>2. CASE ~(b <= 0)
    <3>1. Shifted(m) = [m EXCEPT !.length = @ - m.offset, !.offset = 0]
      BY <1>2, <2>2 DEF Shifted
    <3> QED BY <1>2, <3>1
  <2> QED BY <2>1, <2>2
<1>4. m \in MS3FileParam
  BY DEF Positioned
<1>5. b \in 0..MaxRecLen /\ b <= m.got
  <2>1. m.length \in 0..MaxRecLen /\ m.offset \in Nat /\ m.got \in Nat
    BY FieldsAre
  <2>2. m.length <= m.got
    BY DEF Positioned
  <2> QED BY <1>1, <1>2, <2>1, <2>2
<1>6. PICK k \in MS3FileParam : k = Shifted(m)
  BY <1>3, <1>4, <1>5 DEF MS3FileParam
<1>7. /\ SameFile(k, m) /\ k.offset = 0 /\ k.streampos = m.streampos /\ k.length = b
      /\ k.got = m.got /\ k.eof = m.eof
  BY <1>3, <1>4, <1>6 DEF MS3FileParam, SameFile
<1>8. Buffered(k) = b
  BY <1>2, <1>7 DEF Buffered
<1>9. Positioned(k, size)
  BY <1>2, <1>5, <1>7, <1>8 DEF Positioned, SameFile
<1> QED BY <1>2, <1>6, <1>7, <1>9

(* What a read adds.                                                       *)
LEMMA Added ==
  ASSUME NEW m, NEW size \in Nat, Positioned(m, size), NEW n \in Nat, NEW eof \in BOOLEAN,
         n <= MaxRecLen - m.length,
         n > 0 => m.from + m.got + n <= m.till, eof => m.from + m.got + n >= m.till
  PROVE  LET f == [m EXCEPT !.got = @ + n, !.length = @ + n, !.eof = eof]
         IN  /\ Positioned(f, size) /\ SameFile(f, m) /\ f.offset = m.offset /\ f.streampos = m.streampos
<1> DEFINE f == [m EXCEPT !.got = @ + n, !.length = @ + n, !.eof = eof]
<1>1. MaxRecLen \in Nat
  BY ConstantsAre DEF Constants1
<1>2. m \in MS3FileParam /\ m.length \in 0..MaxRecLen /\ m.got \in Nat
  <2>1. m \in MS3FileParam
    BY DEF Positioned
  <2>2. m.length \in 0..MaxRecLen /\ m.got \in Nat
    BY FieldsAre
  <2> QED BY <2>1, <2>2
<1>3. m.length + n \in 0..MaxRecLen /\ m.got + n \in Nat
  BY <1>1, <1>2
<1>4. f = [m EXCEPT !.got = m.got + n, !.length = m.length + n, !.eof = eof]
  BY <1>2
<1> HIDE DEF f
<1>5. f \in MS3FileParam /\ f.got = m.got + n /\ f.length = m.length + n /\ f.eof = eof
      /\ SameFile(f, m) /\ f.offset = m.offset /\ f.streampos = m.streampos
  BY <1>2, <1>3, <1>4 DEF MS3FileParam, SameFile
<1>6. Buffered(f) = Buffered(m) + n
  BY <1>2, <1>5, FieldsAre DEF Buffered
<1>7. f.offset <= f.length /\ f.length <= f.got /\ f.streampos - f.start = f.got - Buffered(f)
  BY <1>2, <1>5, <1>6, FieldsAre DEF Positioned, SameFile
<1>8. f.got = 0 \/ f.from + f.got <= f.till
  <2>1. CASE n = 0
    BY <1>2, <1>5, <2>1 DEF Positioned, SameFile
  <2>2. CASE n > 0
    BY <1>5, <2>2, FieldsAre DEF SameFile
  <2> QED BY <2>1, <2>2
<1>9. f.till <= size /\ (f.eof => f.from + f.got >= f.till)
  BY <1>5, FieldsAre DEF Positioned, SameFile
<1>10. Positioned(f, size)
  BY <1>5, <1>7, <1>8, <1>9 DEF Positioned
<1> QED BY <1>5, <1>10 DEF f

(* What whole chunks leave over.                                           *)
LEMMA DivRemainder ==
  ASSUME NEW a \in Nat, NEW B \in Nat \ {0}
  PROVE  a \div B \in Int /\ a - (a \div B) * B \in 0..(B - 1)
OBVIOUS

(* msio_fread() adds to the buffer, within its room and what is delivered. *)
LEMMA ReadsAre ==
  ASSUME NEW m, NEW size \in Nat, Positioned(m, size), NEW f \in Reads(m, MaxRecLen - m.length)
  PROVE  Positioned(f, size) /\ SameFile(f, m) /\ f.offset = m.offset /\ f.streampos = m.streampos
<1>1. MaxRecLen \in Nat
  BY ConstantsAre DEF Constants1
<1>2. PICK room \in Nat : room = MaxRecLen - m.length
  BY <1>1, FieldsAre
<1>3. /\ m.chunk \in Nat /\ m.from \in Nat /\ m.till \in Nat /\ m.got \in Nat
  BY FieldsAre
<1> DEFINE left0 == IF m.till > m.from + m.got THEN m.till - m.from - m.got ELSE 0
           n0    == Least2(left0, room)
           full0 == (n0 \div m.chunk) * m.chunk
           rest0 == IF left0 - full0 < m.chunk /\ left0 <= room THEN left0 ELSE full0
           Read(k, eof) == [m EXCEPT !.got = @ + k, !.length = @ + k, !.eof = eof]
<1>4. PICK left \in Nat : left = left0 /\ (left > 0 => m.from + m.got + left = m.till) /\ m.from + m.got + left >= m.till
  BY <1>3
<1>5. PICK n \in Nat : n = n0 /\ n <= left /\ n <= room /\ (n < room => n = left)
  BY <1>2, <1>4 DEF Least2
<1>6. Reads(m, room) =
        IF m.chunk = 0 THEN {Read(n, n < room)}
        ELSE {Read(rest0, rest0 = left /\ rest0 < room)} \cup (IF rest0 = left THEN {Read(rest0, TRUE)} ELSE {})
  BY <1>4, <1>5 DEF Reads
<1>7. ASSUME m.chunk # 0
      PROVE  rest0 \in Nat /\ rest0 <= left /\ rest0 <= room
  <2>1. PICK c \in Nat \ {0} : c = m.chunk
    BY <1>3, <1>7
  <2>2. PICK q \in Int : q = n \div c
    BY <2>1
  <2>3. n - q * c \in 0..(c - 1)
    <3>1. n - (n \div c) * c \in 0..(c - 1)
      BY <2>1, DivRemainder, Zenon
    <3> QED BY <2>2, <3>1
  <2>4. q >= 0
    BY <2>1, <2>3
  <2>5. PICK full \in Nat : full = q * c
    BY <2>1, <2>4
  <2>6. full0 = full /\ full <= n
    BY <1>5, <2>1, <2>2, <2>3, <2>5
  <2>7. rest0 = IF left - full < c /\ left <= room THEN left ELSE full
    BY <1>4, <2>1, <2>6
  <2> QED BY <1>5, <2>6, <2>7
<1> HIDE DEF left0, n0, full0, rest0
<1>8. \E k \in Nat, eof \in BOOLEAN : k <= left /\ k <= room /\ (eof => k = left) /\ f = Read(k, eof)
  <2>1. f \in Reads(m, room)
    BY <1>2
  <2> HIDE DEF Read
  <2>2. CASE m.chunk = 0
    <3>1. f = Read(n, n < room)
      BY <1>6, <2>1, <2>2
    <3>2. (n < room) \in BOOLEAN /\ (n < room => n = left)
      BY <1>5
    <3> QED BY <1>5, <3>1, <3>2
  <2>3. CASE m.chunk # 0
    <3>1. f = Read(rest0, rest0 = left /\ rest0 < room) \/ (rest0 = left /\ f = Read(rest0, TRUE))
      BY <1>6, <2>1, <2>3
    <3> QED BY <1>7, <2>3, <3>1
  <2> QED BY <2>2, <2>3
<1>9. PICK k \in Nat, eof \in BOOLEAN : k <= left /\ k <= room /\ (eof => k = left) /\ f = Read(k, eof)
  BY <1>8
<1>10. /\ k <= MaxRecLen - m.length /\ (k > 0 => m.from + m.got + k <= m.till)
       /\ (eof => m.from + m.got + k >= m.till)
  BY <1>2, <1>3, <1>4, <1>9
<1> QED BY <1>9, <1>10, Added, ZenonT(30)

(* The position is moved within the buffer.                                *)
LEMMA PassedIs ==
  ASSUME NEW m, NEW size \in Nat, Positioned(m, size), NEW n \in Nat, n <= Buffered(m)
  PROVE  /\ Positioned(Passed(m, n), size) /\ SameFile(Passed(m, n), m) /\ Passed(m, n).eof = m.eof
         /\ Passed(m, n).streampos = m.streampos + n /\ Passed(m, n).offset = m.offset + n
<1>1. MaxRecLen \in Nat
  BY ConstantsAre DEF Constants1
<1>2. m \in MS3FileParam /\ m.offset \in Nat /\ m.streampos \in Nat
  BY FieldsAre DEF Positioned
<1>3. m.offset + n \in Nat /\ m.streampos + n \in Nat
  BY <1>2
<1>4. Passed(m, n) = [m EXCEPT !.offset = m.offset + n, !.streampos = m.streampos + n]
  BY <1>2 DEF Passed
<1>5. PICK f \in MS3FileParam : f = Passed(m, n)
  BY <1>2, <1>3, <1>4 DEF MS3FileParam
<1>6. /\ SameFile(f, m) /\ f.offset = m.offset + n /\ f.streampos = m.streampos + n
      /\ f.length = m.length /\ f.got = m.got /\ f.eof = m.eof
  BY <1>2, <1>4, <1>5 DEF MS3FileParam, SameFile
<1>7. Buffered(f) = Buffered(m) - n
  BY <1>2, <1>6, FieldsAre DEF Buffered
<1>8. f.offset <= f.length /\ f.length <= f.got
  BY <1>2, <1>6, FieldsAre DEF Positioned, Buffered
<1>9. f.streampos - f.start = f.got - Buffered(f)
  <2>1. m.streampos - m.start = m.got - Buffered(m)
    BY DEF Positioned
  <2> QED BY <1>6, <1>7, <2>1, FieldsAre DEF SameFile
<1>10. (f.got = 0 \/ f.from + f.got <= f.till) /\ f.till <= size /\ (f.eof => f.from + f.got >= f.till)
  BY <1>6 DEF Positioned, SameFile
<1>11. Positioned(f, size)
  BY <1>5, <1>8, <1>9, <1>10 DEF Positioned
<1> QED BY <1>5, <1>6, <1>11

(* Counting a record leaves the position alone.                            *)
LEMMA CountedIs ==
  ASSUME NEW m, NEW size, Positioned(m, size)
  PROVE  LET f == [m EXCEPT !.count = @ + 1]
         IN  /\ Positioned(f, size) /\ f.streampos = m.streampos /\ f.offset = m.offset /\ f.start = m.start
             /\ f.from = m.from /\ f.till = m.till /\ f.end = m.end /\ f.eof = m.eof
<1> DEFINE f == [m EXCEPT !.count = @ + 1]
<1>1. m \in MS3FileParam /\ m.count \in Nat
  BY FieldsAre DEF Positioned
<1>2. m.count + 1 \in Nat /\ f = [m EXCEPT !.count = m.count + 1]
  BY <1>1
<1> HIDE DEF f
<1>3. /\ f \in MS3FileParam /\ f.streampos = m.streampos /\ f.offset = m.offset /\ f.start = m.start
      /\ f.from = m.from /\ f.till = m.till /\ f.end = m.end /\ f.eof = m.eof
      /\ f.length = m.length /\ f.got = m.got
  BY <1>1, <1>2 DEF MS3FileParam
<1>4. Buffered(f) = Buffered(m)
  BY <1>3 DEF Buffered
<1>5. Positioned(f, size)
  BY <1>3, <1>4 DEF Positioned
<1> QED BY <1>3, <1>5 DEF f

-----------------------------------------------------------------------------
(* What the parser finds at a place of the file.                           *)
ReadableOf(d) ==
  {i \in DOMAIN d : /\ d[i].kind # "other" /\ d[i].picked /\ ~d[i].bad
                    /\ d[i].len \in MinRecLen..MaxRecLen}

CleanOf(d) ==
  \A i \in DOMAIN d :
     /\ d[i].size = d[i].len /\ (d[i].bad => ~d[i].picked)
     /\ d[i].kind = "bare" => i = Len(d) \/ (d[i + 1].kind # "other" /\ d[i + 1].version = 2)

(* What FilesAssumption says of a piece of a file.                         *)
LEMMA PieceIs ==
  ASSUME NEW d, Filled(d), NEW i \in DOMAIN d
  PROVE  /\ d[i].kind \in Kinds /\ d[i].version \in {2, 3} /\ d[i].len \in Nat /\ d[i].size \in Nat \ {0}
         /\ d[i].kind = "bare" => d[i].version = 2 /\ PowerOfTwo(d[i].len)
         /\ d[i].kind # "other" /\ d[i].version = 2 => d[i].len >= 64
<1>1. d[i] \in Pieces /\ d[i].size > 0
  BY DEF Filled
<1>2. PICK c : c = d[i] /\ c \in Pieces /\ c.size > 0
  BY <1>1
<1>3. /\ c \in [kind : Kinds, version : {2, 3}, len : Nat, size : Nat, crc : BOOLEAN, picked : BOOLEAN, bad : BOOLEAN]
      /\ IsPiece(c)
  BY <1>2 DEF Pieces
<1>4. c.kind \in Kinds /\ c.version \in {2, 3} /\ c.len \in Nat /\ c.size \in Nat
  BY <1>3
<1>5. /\ c.kind = "bare" => c.version = 2 /\ PowerOfTwo(c.len)
      /\ c.kind # "other" /\ c.version = 2 => c.len >= 64
  BY <1>3 DEF IsPiece
<1> QED BY <1>2, <1>4, <1>5

(* A power of two is 64 times a number, from MinRecLen on.                 *)
LEMMA PowerIs ==
  ASSUME NEW n, PowerOfTwo(n)
  PROVE  n \in Nat /\ n + 100 <= MaxRecLen /\ (n >= MinRecLen => n % 64 = 0)
<1>1. PICK i \in 0..17 : n = 2 ^ i
  BY DEF PowerOfTwo
<1>2. n \in {1, 2, 4, 8, 16, 32, 64, 128, 256, 512,
              1024, 2048, 4096, 8192, 16384, 32768, 65536, 131072}
  <2>1. i \in {0, 1, 2, 3, 4, 5, 6, 7, 8, 9, 10, 11, 12, 13, 14, 15, 16, 17}
    BY SMT
  <2>2. /\ 2 ^ 0 = 1 /\ 2 ^ 1 = 2 /\ 2 ^ 2 = 4 /\ 2 ^ 3 = 8 /\ 2 ^ 4 = 16
        /\ 2 ^ 5 = 32 /\ 2 ^ 6 = 64 /\ 2 ^ 7 = 128 /\ 2 ^ 8 = 256 /\ 2 ^ 9 = 512
        /\ 2 ^ 10 = 1024 /\ 2 ^ 11 = 2048 /\ 2 ^ 12 = 4096 /\ 2 ^ 13 = 8192 /\ 2 ^ 14 = 16384
        /\ 2 ^ 15 = 32768 /\ 2 ^ 16 = 65536 /\ 2 ^ 17 = 131072
    BY SMT
  <2> DEFINE power == [k \in 0..17 |-> 2 ^ k]
  <2>3. n = power[i]
    BY <1>1, SMT
  <2>4. \A k \in 0..17 : power[k] = 2 ^ k
    BY SMT
  <2> HIDE DEF power
  <2>5. /\ power[0] = 1 /\ power[1] = 2 /\ power[2] = 4 /\ power[3] = 8 /\ power[4] = 16
        /\ power[5] = 32 /\ power[6] = 64 /\ power[7] = 128 /\ power[8] = 256 /\ power[9] = 512
        /\ power[10] = 1024 /\ power[11] = 2048 /\ power[12] = 4096 /\ power[13] = 8192 /\ power[14] = 16384
        /\ power[15] = 32768 /\ power[16] = 65536 /\ power[17] = 131072
    BY <2>2, <2>4, SMT
  <2> QED BY <2>1, <2>3, <2>5, SMT
<1>3. MinRecLen = 40 /\ MaxRecLen = 131172
  BY SMT DEF MinRecLen, MaxRecLen
<1> QED BY <1>2, <1>3, SMT

(* At the place of a piece there is no other one.                          *)
LEMMA OnePiece ==
  ASSUME Filled(disk), NEW i \in DOMAIN disk
  PROVE  PieceAt(Place(disk, i)) = {i} /\ (CHOOSE j \in PieceAt(Place(disk, i)) : TRUE) = i
<1>1. \A j \in DOMAIN disk : Place(disk, j) \in Nat /\ disk[j].size \in Nat \ {0}
  BY Places1
<1>2. \A j, k \in DOMAIN disk : j < k => Place(disk, j) + disk[j].size <= Place(disk, k)
  BY Places1
<1>3. \A j \in DOMAIN disk : j # i => Place(disk, j) # Place(disk, i)
  <2> TAKE j \in DOMAIN disk
  <2> HAVE j # i
  <2>1. i \in Nat /\ j \in Nat
    BY DEF Filled
  <2>2. j < i \/ i < j
    BY <2>1
  <2> QED BY <1>1, <1>2, <2>2
<1>4. PieceAt(Place(disk, i)) = {j \in DOMAIN disk : Place(disk, j) = Place(disk, i)}
  BY Zenon DEF PieceAt, PlaceOf, Place
<1>5. PieceAt(Place(disk, i)) = {i}
  BY <1>3, <1>4
<1> QED BY <1>5

(* The scan for the next header.                                           *)
DetectedFrom(i, p, n) ==
  LET Next2 == {k \in Starts : k > i /\ disk[k].version = 2 /\ (PlaceOf(k) - p) % 64 = 0}
      next == {PlaceOf(j) - p : j \in Next2}
      seen == {d \in next : d + 48 < n}
  IN  IF PieceAt(p) \cap Starts = {} THEN -1
      ELSE IF disk[i].kind = "record" THEN disk[i].len
      ELSE IF seen = {} THEN 0 ELSE CHOOSE d \in seen : \A e \in seen : d <= e

(* The scan ends at a header of version 2 behind the bare record, or finds *)
(* none.                                                                   *)
LEMMA Unmeasured ==
  ASSUME Filled(disk), NEW i \in DOMAIN disk, disk[i].kind = "bare", NEW n \in Nat
  PROVE  LET D == DetectedAt(Place(disk, i), n)
         IN  /\ D \in Nat /\ (D # 0 => D + 48 < n /\ i < Len(disk))
             /\ D # 0 => D >= disk[i].size
             /\ CleanOf(disk) => D <= disk[i].size
             /\ CleanOf(disk) /\ i < Len(disk) /\ disk[i].size + 48 < n => D # 0
<1> DEFINE p == Place(disk, i)
           Next2 == {k \in Starts : k > i /\ disk[k].version = 2 /\ (PlaceOf(k) - p) % 64 = 0}
           next == {PlaceOf(j) - p : j \in Next2}
           seen == {d \in next : d + 48 < n}
<1>1. PieceAt(p) = {i} /\ (CHOOSE j \in PieceAt(p) : TRUE) = i
  BY OnePiece
<1>2. PieceAt(p) \cap Starts # {} /\ disk[i].kind # "record" /\ disk[i].kind # "other"
  BY <1>1 DEF Starts
<1>3. DetectedAt(p, n) = IF seen = {} THEN 0 ELSE CHOOSE d \in seen : \A e \in seen : d <= e
  <2>1. DetectedAt(p, n) = DetectedFrom(CHOOSE j \in PieceAt(p) : TRUE, p, n)
    BY Zenon DEF DetectedAt, DetectedFrom
  <2>2. DetectedAt(p, n) = DetectedFrom(i, p, n)
    BY <1>1, <2>1, Zenon
  <2> HIDE DEF p
  <2> QED BY <1>2, <2>2, Zenon DEF DetectedFrom
<1>4. \A j \in DOMAIN disk : PlaceOf(j) = Place(disk, j) /\ PlaceOf(j) \in Nat
  BY Places1 DEF PlaceOf, Place
<1>5. i \in 1..Len(disk) /\ Len(disk) \in Nat /\ DOMAIN disk = 1..Len(disk)
  BY DEF Filled
<1>6. \A j \in Next2 : j \in DOMAIN disk /\ i < j /\ PlaceOf(j) - p \in Nat \ {0} /\ i < Len(disk)
                   /\ PlaceOf(j) - p >= disk[i].size
  <2> TAKE j \in Next2
  <2>1. j \in DOMAIN disk /\ i < j
    BY DEF Starts
  <2>2. p + disk[i].size <= Place(disk, j) /\ disk[i].size \in Nat \ {0} /\ p \in Nat
    BY <2>1, Places1
  <2> QED BY <1>4, <1>5, <2>1, <2>2
<1>7. seen \in SUBSET (Nat \ {0}) /\ (seen # {} => i < Len(disk)) /\ \A d \in seen : d + 48 < n /\ d >= disk[i].size
  <2> HIDE DEF p
  <2> QED BY <1>6
<1>8. ASSUME seen # {}
      PROVE  DetectedAt(p, n) \in seen /\ \A e \in seen : DetectedAt(p, n) <= e
  <2>1. \E d \in seen : \A e \in seen : d <= e
    <3> HIDE DEF seen
    <3>1. seen \in SUBSET Nat
      BY <1>7
    <3> QED BY <1>8, <3>1, LeastNumber, Zenon
  <2> HIDE DEF seen
  <2> QED BY <1>3, <1>8, <2>1
<1>9. ASSUME CleanOf(disk), i < Len(disk)
      PROVE  disk[i].size \in next
  <2>1. i + 1 \in DOMAIN disk /\ i + 1 > i /\ i # Len(disk)
    BY <1>5, <1>9
  <2>2. disk[i].size = disk[i].len /\ disk[i + 1].kind # "other" /\ disk[i + 1].version = 2
    BY <1>9, <2>1 DEF CleanOf
  <2>3. PowerOfTwo(disk[i].len) /\ disk[i].len >= 64 /\ disk[i].len \in Nat
    BY PieceIs
  <2>4. disk[i].size % 64 = 0
    <3>1. disk[i].len >= MinRecLen
      BY <2>3, ConstantsAre DEF Constants1
    <3>2. disk[i].len % 64 = 0
      BY <2>3, <3>1, PowerIs
    <3> QED BY <2>2, <3>2, Zenon
  <2>5. p + disk[i].size = Place(disk, i + 1) /\ p \in Nat /\ disk[i].size \in Nat
    BY <2>1, Places1
  <2>6. PlaceOf(i + 1) - p = disk[i].size
    <3> HIDE DEF p
    <3> QED BY <1>4, <2>1, <2>5
  <2>7. i + 1 \in Next2
    <3> HIDE DEF p
    <3> QED BY <2>1, <2>2, <2>4, <2>6 DEF Starts
  <2> HIDE DEF p, Next2
  <2> QED BY <2>6, <2>7
<1> HIDE DEF p, next, seen
<1>10. DetectedAt(p, n) \in Nat /\ (DetectedAt(p, n) # 0 => DetectedAt(p, n) + 48 < n /\ i < Len(disk))
      /\ (DetectedAt(p, n) # 0 => DetectedAt(p, n) >= disk[i].size)
  <2>1. CASE seen = {}
    BY <1>3, <2>1
  <2>2. CASE seen # {}
    <3>1. DetectedAt(p, n) \in seen
      BY <1>8, <2>2
    <3> QED BY <1>7, <2>2, <3>1
  <2> QED BY <2>1, <2>2
<1>11. ASSUME CleanOf(disk) PROVE DetectedAt(p, n) <= disk[i].size
  <2>1. disk[i].size \in Nat
    BY PieceIs
  <2>2. CASE seen = {}
    BY <1>3, <2>1, <2>2
  <2>3. CASE seen # {}
    <3>1. disk[i].size \in next
      BY <1>7, <1>9, <1>11, <2>3
    <3>2. CASE disk[i].size + 48 < n
      <4>1. disk[i].size \in seen
        BY <3>1, <3>2 DEF seen
      <4> QED BY <1>8, <2>3, <4>1
    <3>3. CASE ~(disk[i].size + 48 < n)
      <4>1. DetectedAt(p, n) \in Nat /\ DetectedAt(p, n) + 48 < n
        BY <1>7, <1>8, <2>3
      <4> QED BY <2>1, <3>3, <4>1
    <3> QED BY <3>2, <3>3
  <2> QED BY <2>2, <2>3
<1>12. ASSUME CleanOf(disk), i < Len(disk), disk[i].size + 48 < n PROVE DetectedAt(p, n) # 0
  <2>1. disk[i].size \in seen
    BY <1>9, <1>12 DEF seen
  <2> QED BY <1>7, <1>8, <2>1
<1> QED BY <1>10, <1>11, <1>12 DEF p

(* Where no record starts the parser finds none.                           *)
LEMMA NoStart ==
  ASSUME Filled(disk), NEW p, NEW n, NEW atend, \A i \in DOMAIN disk : Place(disk, i) = p => disk[i].kind = "other"
  PROVE  ParseAt(p, n, atend) = Outcome("notseed", 0)
<1>1. PieceAt(p) = {j \in DOMAIN disk : Place(disk, j) = p}
  BY Zenon DEF PieceAt, PlaceOf, Place
<1>2. PieceAt(p) \cap Starts = {}
  BY <1>1 DEF Starts
<1>3. DetectedAt(p, n) = -1
  BY <1>2, Zenon DEF DetectedAt
<1>4. \A v : ParseOf([version |-> v], n, atend, -1) = Outcome("notseed", 0)
  BY DEF ParseOf
<1> DEFINE version == IF PieceAt(p) = {} THEN 3 ELSE disk[CHOOSE i \in PieceAt(p) : TRUE].version
<1>5. Outcome("notseed", 0).result # "parsed"
  BY DEF Outcome
<1>6. ParseOf([version |-> version], n, atend, DetectedAt(p, n)) = Outcome("notseed", 0)
  BY <1>3, <1>4, Zenon
<1> QED BY <1>5, <1>6, Zenon DEF ParseAt

(* The length that is known of the record or bare record i.                *)
Known(i, n, atend, known) ==
  /\ disk[i].kind = "record" => known = disk[i].len
  /\ disk[i].kind = "bare" =>
       /\ known <= n /\ (known = 0 => ~(atend /\ PowerOfTwo(n))) /\ (known # 0 /\ ~atend => i < Len(disk))
       /\ CleanOf(disk) => /\ known <= disk[i].size /\ (known # 0 => known >= MinRecLen)
                           /\ (i < Len(disk) /\ disk[i].size + 48 < n => known # 0)

ReadAs(i, n, known) ==
  IF known = 0 THEN Outcome("more", MinRecLen)
  ELSE IF known \notin MinRecLen..MaxRecLen THEN Outcome("outofrange", 0)
  ELSE IF known > n THEN Outcome("more", known - n)
  ELSE IF disk[i].crc /\ ~Whole(i) THEN Outcome("invalidcrc", 0) ELSE Outcome("parsed", known)

(* A record says how long it is.                                           *)
LEMMA Measured ==
  ASSUME Filled(disk), NEW i \in Starts, disk[i].kind = "record", NEW n
  PROVE  DetectedAt(Place(disk, i), n) = disk[i].len
<1> DEFINE p == Place(disk, i)
<1>1. PieceAt(p) = {i} /\ (CHOOSE j \in PieceAt(p) : TRUE) = i
  BY OnePiece DEF Starts
<1>2. PieceAt(p) \cap Starts # {}
  BY <1>1
<1> HIDE DEF p
<1>3. DetectedAt(p, n) = DetectedFrom(CHOOSE j \in PieceAt(p) : TRUE, p, n)
  BY Zenon DEF DetectedAt, DetectedFrom
<1>4. DetectedAt(p, n) = DetectedFrom(i, p, n)
  BY <1>1, <1>3, Zenon
<1>5. DetectedAt(p, n) = disk[i].len
  BY <1>2, <1>4, Zenon DEF DetectedFrom
<1> QED BY <1>5 DEF p

(* Multiples of 64 that differ by less than 48.                            *)
LEMMA WithinSize ==
  ASSUME NEW n \in Nat, NEW size \in Nat, n % 64 = 0, size % 64 = 0, n <= size + 48
  PROVE  n <= size
OBVIOUS

(* The parser reads the record or bare record at its place by a length     *)
(* that is known of it.                                                    *)
LEMMA KnownIs ==
  ASSUME Filled(disk), NEW i \in Starts, NEW n \in Nat, n >= MinRecLen, NEW atend \in BOOLEAN,
         Place(disk, i) + n <= Bytes(disk)
  PROVE  \E known \in Nat : Known(i, n, atend, known) /\ ParseAt(Place(disk, i), n, atend) = ReadAs(i, n, known)
<1> DEFINE p == Place(disk, i)
           D == DetectedAt(p, n)
<1>1. i \in DOMAIN disk /\ disk[i].kind \in {"record", "bare"}
  BY PieceIs DEF Starts, Kinds
<1>2. PieceAt(p) = {i} /\ (CHOOSE j \in PieceAt(p) : TRUE) = i
  BY <1>1, OnePiece
<1>3. /\ disk[i].version \in {2, 3} /\ disk[i].len \in Nat /\ disk[i].size \in Nat \ {0}
      /\ disk[i].kind = "bare" => disk[i].version = 2 /\ PowerOfTwo(disk[i].len)
      /\ disk[i].version = 2 => disk[i].len >= 64
  BY <1>1, PieceIs DEF Starts
<1> DEFINE known == IF disk[i].version = 2 /\ D = 0 /\ atend /\ PowerOfTwo(n) THEN n ELSE D
           parsed == ParseOf([version |-> disk[i].version], n, atend, D)
<1>4. ParseAt(p, n, atend) =
        IF parsed.result = "parsed" /\ disk[i].crc /\ ~Whole(i) THEN Outcome("invalidcrc", 0) ELSE parsed
  <2>1. PieceAt(p) # {}
    BY <1>2
  <2> HIDE DEF p
  <2> QED BY <1>2, <2>1, Zenon DEF ParseAt
<1>5. known \in Nat
  <2>1. D \in Nat
    <3>1. CASE disk[i].kind = "record"
      <4>1. D = disk[i].len
        BY <3>1, Measured
      <4> QED BY <1>3, <4>1
    <3>2. CASE disk[i].kind = "bare"
      BY <1>1, <3>2, Unmeasured
    <3> QED BY <1>1, <3>1, <3>2
  <2> HIDE DEF D
  <2> QED BY <2>1
<1>6. parsed = IF known < 0 THEN Outcome("notseed", 0) ELSE IF known = 0 THEN Outcome("more", MinRecLen)
               ELSE IF known \notin MinRecLen..MaxRecLen THEN Outcome("outofrange", 0)
               ELSE IF known > n THEN Outcome("more", known - n) ELSE Outcome("parsed", known)
  BY DEF ParseOf, Asks
<1>7. ParseAt(p, n, atend) = ReadAs(i, n, known)
  <2>1. /\ \A k : Outcome("parsed", k).result = "parsed" /\ Outcome("more", k).result # "parsed"
        /\ Outcome("outofrange", 0).result # "parsed"
    BY DEF Outcome
  <2>2. ~(known < 0)
    BY <1>5
  <2> HIDE DEF p, known, parsed
  <2> QED BY <1>4, <1>6, <2>1, <2>2, Zenon DEF ReadAs
<1>8. CASE disk[i].kind = "record"
  <2>1. D = disk[i].len
    BY <1>8, Measured
  <2>2. known = disk[i].len
    <3> HIDE DEF D
    <3> QED BY <1>3, <2>1
  <2>3. Known(i, n, atend, known)
    <3> HIDE DEF known
    <3> QED BY <1>8, <2>2 DEF Known
  <2> HIDE DEF known
  <2> QED BY <1>5, <1>7, <2>3, Zenon
<1>9. CASE disk[i].kind = "bare"
  <2>1. /\ D \in Nat /\ (D # 0 => D + 48 < n /\ i < Len(disk))
        /\ D # 0 => D >= disk[i].size
        /\ CleanOf(disk) => D <= disk[i].size
        /\ CleanOf(disk) /\ i < Len(disk) /\ disk[i].size + 48 < n => D # 0
    BY <1>1, <1>9, Unmeasured
  <2>2. i \in 1..Len(disk) /\ Len(disk) \in Nat
    BY <1>1 DEF Filled
  <2>3. ASSUME CleanOf(disk), D = 0, PowerOfTwo(n) PROVE n <= disk[i].size
    <3>1. CASE i < Len(disk)
      <4>1. n <= disk[i].size + 48
        BY <1>3, <2>1, <2>3, <3>1
      <4>2. n % 64 = 0
        BY <2>3, PowerIs
      <4>3. disk[i].size = disk[i].len
        BY <1>1, <2>3 DEF CleanOf
      <4>4. disk[i].len >= MinRecLen
        BY <1>3, <1>9, ConstantsAre DEF Constants1
      <4>5. disk[i].len % 64 = 0
        BY <1>3, <1>9, <4>4, PowerIs
      <4>6. disk[i].size % 64 = 0
        BY <4>3, <4>5, Zenon
      <4> QED BY <1>3, <4>1, <4>2, <4>6, WithinSize
    <3>2. CASE ~(i < Len(disk))
      <4>1. i = Len(disk)
        BY <2>2, <3>2
      <4>2. p + disk[i].size = Bytes(disk) /\ p \in Nat
        <5>1. disk # <<>>
          BY <1>1
        <5> QED BY <1>1, <4>1, <5>1, Places1
      <4> HIDE DEF p
      <4>3. p + n <= Bytes(disk)
        BY DEF p
      <4> QED BY <1>3, <4>2, <4>3
    <3> QED BY <3>1, <3>2
  <2>4. Known(i, n, atend, known)
    <3> HIDE DEF D, p
    <3>1. CASE disk[i].version = 2 /\ D = 0 /\ atend /\ PowerOfTwo(n)
      <4>1. known = n /\ n # 0 /\ n <= n
        BY <3>1, ConstantsAre DEF Constants1
      <4>2. CleanOf(disk) => n <= disk[i].size
        BY <2>3, <3>1
      <4> HIDE DEF known
      <4> QED BY <1>9, <3>1, <4>1, <4>2 DEF Known
    <3>2. CASE ~(disk[i].version = 2 /\ D = 0 /\ atend /\ PowerOfTwo(n))
      <4>1. known = D /\ D <= n
        BY <2>1, <3>2
      <4>2. D = 0 => ~(atend /\ PowerOfTwo(n))
        BY <1>3, <1>9, <3>2, Zenon
      <4> HIDE DEF known
      <4>3. known # 0 => i < Len(disk)
        BY <2>1, <4>1
      <4>4. ASSUME CleanOf(disk), known # 0 PROVE known >= MinRecLen
        <5>1. disk[i].size = disk[i].len /\ disk[i].len >= 64
          BY <1>1, <1>3, <1>9, <4>4 DEF CleanOf
        <5> QED BY <1>3, <2>1, <4>1, <4>4, <5>1, ConstantsAre DEF Constants1
      <4> QED BY <1>9, <2>1, <4>1, <4>2, <4>3, <4>4 DEF Known
    <3> QED BY <3>1, <3>2
  <2> HIDE DEF known
  <2> QED BY <1>5, <1>7, <2>4, Zenon
<1> QED BY <1>1, <1>8, <1>9

(* What the parser makes of the n bytes from p on.                         *)
LEMMA Results ==
  ASSUME Filled(disk), NEW i \in Starts, NEW n \in Nat, n >= MinRecLen, NEW known \in Nat
  PROVE  LET o == ReadAs(i, n, known)
         IN  /\ o.result \in {"parsed", "more", "notseed", "outofrange", "invalidcrc"}
             /\ o.result = "parsed" => /\ o.asks = known /\ known \in MinRecLen..MaxRecLen /\ known <= n
                                       /\ disk[i].crc => Whole(i)
             /\ o.result \in {"notseed", "outofrange", "invalidcrc"} =>
                  /\ known # 0
                  /\ known \notin MinRecLen..MaxRecLen \/ (known <= n /\ disk[i].crc /\ ~Whole(i))
             /\ o.result = "more" => \/ known = 0 /\ o.asks = MinRecLen
                                     \/ known # 0 /\ known > n /\ known <= MaxRecLen /\ o.asks = known - n
<1>1. MinRecLen \in Nat /\ MaxRecLen \in Nat
  BY ConstantsAre DEF Constants1
<1>2. \A r, k : Outcome(r, k).result = r /\ Outcome(r, k).asks = k
  BY DEF Outcome
<1>3. CASE known = 0
  BY <1>2, <1>3 DEF ReadAs
<1>4. CASE known # 0 /\ known \notin MinRecLen..MaxRecLen
  BY <1>2, <1>4 DEF ReadAs
<1>5. CASE known # 0 /\ known \in MinRecLen..MaxRecLen /\ known > n
  <2>1. ReadAs(i, n, known) = Outcome("more", known - n)
    BY <1>5 DEF ReadAs
  <2> QED BY <1>1, <1>2, <1>5, <2>1
<1>6. CASE known # 0 /\ known \in MinRecLen..MaxRecLen /\ known <= n
  <2>1. ReadAs(i, n, known) = IF disk[i].crc /\ ~Whole(i) THEN Outcome("invalidcrc", 0) ELSE Outcome("parsed", known)
    BY <1>6 DEF ReadAs
  <2>2. CASE disk[i].crc /\ ~Whole(i)
    BY <1>2, <1>6, <2>1, <2>2
  <2>3. CASE ~(disk[i].crc /\ ~Whole(i))
    <3>1. ReadAs(i, n, known) = Outcome("parsed", known) /\ (disk[i].crc => Whole(i))
      BY <2>1, <2>3, Zenon
    <3> QED BY <1>2, <1>6, <3>1
  <2> QED BY <2>2, <2>3
<1> QED BY <1>1, <1>3, <1>4, <1>5, <1>6

(* What is parsed is at the start of a record, and in a clean file no      *)
(* longer than it.                                                         *)
LEMMA Found ==
  ASSUME Filled(disk), NEW p \in Nat, NEW n \in Nat, n >= MinRecLen, NEW atend \in BOOLEAN,
         p + n <= Bytes(disk), ParseAt(p, n, atend).result = "parsed"
  PROVE  \E i \in Starts :
           /\ Place(disk, i) = p /\ (CHOOSE j \in PieceAt(p) : TRUE) = i
           /\ ParseAt(p, n, atend).asks \in MinRecLen..MaxRecLen /\ ParseAt(p, n, atend).asks <= n
           /\ disk[i].len \in MinRecLen..MaxRecLen /\ (disk[i].crc => Whole(i))
           /\ CleanOf(disk) => ParseAt(p, n, atend).asks <= disk[i].size
           /\ CleanOf(disk) /\ ~atend =>
                i < Len(disk) \/ (disk[i].kind = "record" /\ disk[i].len = ParseAt(p, n, atend).asks)
<1>1. PICK i \in Starts : Place(disk, i) = p
  <2> SUFFICES ASSUME \A i \in Starts : Place(disk, i) # p PROVE FALSE
    OBVIOUS
  <2>1. \A i \in DOMAIN disk : Place(disk, i) = p => disk[i].kind = "other"
    BY DEF Starts
  <2>2. ParseAt(p, n, atend) = Outcome("notseed", 0)
    BY <2>1, NoStart
  <2> QED BY <2>2 DEF Outcome
<1>2. PICK known \in Nat : Known(i, n, atend, known) /\ ParseAt(p, n, atend) = ReadAs(i, n, known)
  BY <1>1, KnownIs
<1>3. /\ ParseAt(p, n, atend).asks = known /\ known \in MinRecLen..MaxRecLen /\ known <= n
      /\ disk[i].crc => Whole(i)
  BY <1>2, Results
<1>4. (CHOOSE j \in PieceAt(p) : TRUE) = i
  BY <1>1, OnePiece DEF Starts
<1>5. i \in DOMAIN disk /\ disk[i].kind \in {"record", "bare"}
  BY PieceIs DEF Starts, Kinds
<1>6. disk[i].len \in MinRecLen..MaxRecLen
  <2>1. CASE disk[i].kind = "record"
    BY <1>2, <1>3, <2>1 DEF Known
  <2>2. CASE disk[i].kind = "bare"
    <3>1. PowerOfTwo(disk[i].len) /\ disk[i].len >= 64
      BY <1>5, <2>2, PieceIs
    <3>2. disk[i].len \in Nat /\ disk[i].len + 100 <= MaxRecLen
      BY <3>1, PowerIs
    <3> QED BY <3>1, <3>2, ConstantsAre DEF Constants1
  <2> QED BY <1>5, <2>1, <2>2
<1>7. ASSUME CleanOf(disk) PROVE known <= disk[i].size
  <2>1. disk[i].size = disk[i].len /\ disk[i].len \in Nat
    BY <1>5, <1>7, PieceIs DEF CleanOf
  <2> QED BY <1>2, <1>5, <1>7, <2>1 DEF Known
<1>8. ASSUME ~atend PROVE i < Len(disk) \/ (disk[i].kind = "record" /\ disk[i].len = known)
  <2>1. known # 0
    BY <1>3, ConstantsAre DEF Constants1
  <2> QED BY <1>2, <1>5, <1>8, <2>1 DEF Known
<1>9. PICK a : a = ParseAt(p, n, atend).asks /\ a = known
  BY <1>3
<1> QED BY <1>1, <1>3, <1>4, <1>6, <1>7, <1>8, <1>9

(* No record that can be read is where the parser finds none.              *)
LEMMA NotFound ==
  ASSUME Filled(disk), CleanOf(disk), NEW p \in Nat, NEW n \in Nat, n >= MinRecLen, NEW atend \in BOOLEAN,
         p + n <= Bytes(disk), NEW i \in ReadableOf(disk), Place(disk, i) = p,
         \/ ParseAt(p, n, atend).result \in {"notseed", "outofrange", "invalidcrc"}
         \/ ParseAt(p, n, atend).result = "more" /\ n + ParseAt(p, n, atend).asks > MaxRecLen
  PROVE  FALSE
<1>1. i \in Starts /\ disk[i].len \in MinRecLen..MaxRecLen /\ i \in DOMAIN disk
  BY DEF ReadableOf, Starts
<1>2. PICK known \in Nat : Known(i, n, atend, known) /\ ParseAt(p, n, atend) = ReadAs(i, n, known)
  BY <1>1, KnownIs
<1>3. disk[i].kind \in {"record", "bare"} /\ Whole(i) /\ disk[i].size = disk[i].len
  BY <1>1, PieceIs DEF Starts, Kinds, CleanOf, Whole
<1>4. CASE ReadAs(i, n, known).result \in {"notseed", "outofrange", "invalidcrc"}
  <2>1. known # 0 /\ known \notin MinRecLen..MaxRecLen
    BY <1>1, <1>3, <1>4, Results
  <2>2. disk[i].kind # "record"
    BY <1>1, <1>2, <2>1 DEF Known
  <2>3. disk[i].kind = "bare" /\ known <= disk[i].size /\ known >= MinRecLen
    BY <1>2, <1>3, <2>1, <2>2 DEF Known
  <2> QED BY <1>1, <1>3, <2>1, <2>3, ConstantsAre DEF Constants1
<1>5. CASE ReadAs(i, n, known).result = "more" /\ n + ReadAs(i, n, known).asks > MaxRecLen
  <2>1. known = 0 /\ n + MinRecLen > MaxRecLen
    <3> DEFINE o == ReadAs(i, n, known)
    <3>1. \/ known = 0 /\ o.asks = MinRecLen
          \/ known > n /\ known <= MaxRecLen /\ o.asks = known - n
      BY <1>1, <1>5, Results
    <3>2. n + o.asks > MaxRecLen
      BY <1>5
    <3> HIDE DEF o
    <3> QED BY <3>1, <3>2, ConstantsAre DEF Constants1
  <2>2. disk[i].kind = "bare" /\ disk[i].len > 0
    BY <1>1, <1>2, <1>3, <2>1, ConstantsAre DEF Known, Constants1
  <2>3. disk[i].len \in Nat /\ disk[i].len + 100 <= MaxRecLen
    BY <1>1, <2>2, PieceIs, PowerIs
  <2>4. CASE i < Len(disk)
    <3>1. disk[i].size + 48 < n
      BY <1>3, <2>1, <2>3, ConstantsAre DEF Constants1
    <3> QED BY <1>2, <2>1, <2>2, <2>4, <3>1 DEF Known
  <2>5. CASE ~(i < Len(disk))
    <3>1. i = Len(disk) /\ disk # <<>>
      BY <1>1, <2>5 DEF Filled
    <3>2. p + disk[i].size = Bytes(disk)
      BY <3>1, Places1
    <3>3. n <= disk[i].size
      BY <1>3, <2>3, <3>2
    <3> QED BY <1>3, <2>1, <2>3, <3>3, ConstantsAre DEF Constants1
  <2> QED BY <2>4, <2>5
<1> QED BY <1>2, <1>4, <1>5

(* Where more is asked for and the file has none, what is left holds no    *)
(* whole record.                                                           *)
LEMMA Exhausted ==
  ASSUME Filled(disk), CleanOf(disk), NEW p \in Nat, NEW n \in Nat, n >= MinRecLen,
         NEW atend \in BOOLEAN, p + n <= Bytes(disk), ParseAt(p, n, atend).result = "more",
         NEW i \in ReadableOf(disk), Place(disk, i) >= p, Place(disk, i) + disk[i].len <= p + n,
         (\E k \in DOMAIN disk : disk[k].kind = "bare") => p + n = Bytes(disk)
  PROVE  ~atend /\ i = Len(disk) /\ disk[i].kind = "bare"
<1>1. PICK k \in Starts : Place(disk, k) = p
  <2> SUFFICES ASSUME \A k \in Starts : Place(disk, k) # p PROVE FALSE
    OBVIOUS
  <2>1. \A k \in DOMAIN disk : Place(disk, k) = p => disk[k].kind = "other"
    BY DEF Starts
  <2>2. ParseAt(p, n, atend) = Outcome("notseed", 0)
    BY <2>1, NoStart
  <2> QED BY <2>2 DEF Outcome
<1>2. PICK known \in Nat : Known(k, n, atend, known) /\ ParseAt(p, n, atend) = ReadAs(k, n, known)
  BY <1>1, KnownIs
<1>3. known = 0 \/ (known > n /\ known <= MaxRecLen)
  BY <1>1, <1>2, Results
<1>4. /\ k \in DOMAIN disk /\ i \in DOMAIN disk /\ disk[k].kind \in {"record", "bare"}
      /\ disk[k].size = disk[k].len /\ disk[i].size = disk[i].len
      /\ disk[k].size \in Nat \ {0} /\ disk[i].size \in Nat \ {0}
  BY PieceIs DEF Starts, Kinds, CleanOf, ReadableOf
<1>5. /\ \A j \in DOMAIN disk : Place(disk, j) \in Nat /\ Place(disk, j) + disk[j].size <= Bytes(disk)
      /\ \A j, l \in DOMAIN disk : j < l => Place(disk, j) + disk[j].size <= Place(disk, l)
  BY Places1
<1>6. i \in 1..Len(disk) /\ k \in 1..Len(disk) /\ Len(disk) \in Nat
  BY <1>4 DEF Filled
<1>7. k <= i
  <2> SUFFICES ASSUME i < k PROVE FALSE
    BY <1>6
  <2>1. Place(disk, i) + disk[i].size <= p
    BY <1>1, <1>4, <1>5
  <2> QED BY <1>4, <1>5, <2>1
<1>8. p + disk[k].size <= p + n
  <2>1. CASE k = i
    BY <1>1, <1>4, <2>1
  <2>2. CASE k < i
    <3>1. p + disk[k].size <= Place(disk, i)
      BY <1>1, <1>4, <1>5, <2>2
    <3> QED BY <1>4, <1>5, <3>1
  <2> QED BY <1>6, <1>7, <2>1, <2>2
<1>9. disk[k].size <= n
  BY <1>4, <1>8
<1>10. disk[k].kind = "bare" /\ known = 0
  <2>1. CASE disk[k].kind = "record"
    <3>1. known = disk[k].size
      BY <1>2, <1>4, <2>1 DEF Known
    <3> QED BY <1>3, <1>4, <1>9, <3>1
  <2>2. CASE disk[k].kind = "bare"
    <3>1. known <= n
      BY <1>2, <2>2 DEF Known
    <3> QED BY <1>3, <2>2, <3>1
  <2> QED BY <1>4, <2>1, <2>2
<1>11. p + n = Bytes(disk)
  BY <1>4, <1>10
<1>12. k = Len(disk)
  <2> SUFFICES ASSUME k # Len(disk) PROVE FALSE
    OBVIOUS
  <2>1. k < Len(disk) /\ k + 1 \in DOMAIN disk
    BY <1>6 DEF Filled
  <2>2. disk[k + 1].kind # "other" /\ disk[k + 1].version = 2 /\ disk[k + 1].size = disk[k + 1].len
    BY <1>4, <1>10, <2>1 DEF CleanOf
  <2>3. disk[k + 1].size >= 64 /\ disk[k + 1].size \in Nat
    BY <2>1, <2>2, PieceIs
  <2>4. p + disk[k].size = Place(disk, k + 1)
    BY <1>1, <1>4, <2>1, Places1
  <2>5. Place(disk, k + 1) + disk[k + 1].size <= p + n
    BY <1>5, <1>11, <2>1
  <2>6. disk[k].size + 48 < n
    BY <1>4, <2>3, <2>4, <2>5
  <2> QED BY <1>2, <1>10, <2>1, <2>6 DEF Known
<1>13. i = k
  BY <1>6, <1>7, <1>12
<1>14. ~atend
  <2>1. p + disk[k].size = Bytes(disk)
    <3>1. disk # <<>>
      BY <1>4
    <3> QED BY <1>1, <1>12, <3>1, Places1
  <2>2. n = disk[k].len
    BY <1>4, <1>11, <2>1
  <2>3. PowerOfTwo(n)
    BY <1>4, <1>10, <2>2, PieceIs
  <2> QED BY <1>2, <1>10, <2>3 DEF Known
<1> QED BY <1>10, <1>12, <1>13, <1>14

-----------------------------------------------------------------------------
(* What holds of an open file: m reads d, rs are the records handed out.   *)
HandedRecords == [at : Nat, len : Nat]
ToldIn(rs)    == {r.at : r \in Range(rs)}
InOrderOf(rs) == \A k, l \in DOMAIN rs : k < l => rs[k].at + rs[k].len <= rs[l].at
OffsetIn(d, m, i) == Place(d, i) - m.from + m.start
Position(m)   == m.from + m.streampos - m.start

Handed(rs, streampos) ==
  /\ rs \in Seq(HandedRecords) /\ InOrderOf(rs)
  /\ \A k \in DOMAIN rs : rs[k].at + rs[k].len <= streampos

Sound(d, m, rs) ==
  \A at \in ToldIn(rs) : \E i \in ReadableOf(d) : OffsetIn(d, m, i) = at /\ (d[i].crc => d[i].size = d[i].len)

Complete(d, m, rs) ==
  CleanOf(d) =>
    \A i \in ReadableOf(d) : Place(d, i) >= m.from /\ OffsetIn(d, m, i) < m.streampos => OffsetIn(d, m, i) \in ToldIn(rs)

InRangeOf(d, m, i) ==
  /\ (\E k \in DOMAIN d : d[k].kind = "bare") => m.till = Bytes(d)
  /\ Place(d, i) + d[i].len <= m.till /\ (m.end > 0 => OffsetIn(d, m, i) + d[i].len <= m.end + 1)

Behind(d, m) ==
  CleanOf(d) =>
    \A i \in ReadableOf(d) : Place(d, i) >= m.from /\ InRangeOf(d, m, i) => OffsetIn(d, m, i) < m.streampos

FileKept(d, m, rs) ==
  Positioned(m, Bytes(d)) /\ Handed(rs, m.streampos) /\ Sound(d, m, rs) /\ Complete(d, m, rs)

(* The position is where the buffer is, as numbers.                        *)
LEMMA PositionSum ==
  ASSUME NEW m, m.from \in Nat, m.start \in Nat, m.till \in Nat, m.streampos \in Nat, m.length \in Nat,
         m.offset \in Nat, m.got \in Nat, m.offset <= m.length, m.length <= m.got,
         m.streampos - m.start = m.got - (m.length - m.offset), m.got = 0 \/ m.from + m.got <= m.till
  PROVE  /\ Position(m) \in Nat /\ Position(m) = m.from + m.got - (m.length - m.offset)
         /\ Position(m) + (m.length - m.offset) = m.from + m.got
         /\ m.length - m.offset > 0 => Position(m) + (m.length - m.offset) <= m.till
BY DEF Position

(* The position moves with streampos.                                      *)
LEMMA PositionMoves ==
  ASSUME NEW m, NEW f, NEW k \in Nat, m.start \in Nat, m.from \in Nat, m.streampos \in Nat,
         f.start = m.start, f.from = m.from, f.streampos = m.streampos + k
  PROVE  Position(f) = Position(m) + k
BY DEF Position

(* The position of an open file, and the records before and at it.         *)
LEMMA PositionIs ==
  ASSUME NEW d, Filled(d), NEW m, Positioned(m, Bytes(d))
  PROVE  /\ Position(m) \in Nat /\ Position(m) + Buffered(m) = m.from + m.got
         /\ Position(m) = m.from + m.got - Buffered(m)
         /\ Buffered(m) > 0 => Position(m) + Buffered(m) <= m.till
         /\ m.till <= Bytes(d)
         /\ \A i \in DOMAIN d : /\ OffsetIn(d, m, i) \in Int
                                /\ (OffsetIn(d, m, i) < m.streampos <=> Place(d, i) < Position(m))
                                /\ (OffsetIn(d, m, i) = m.streampos <=> Place(d, i) = Position(m))
<1>1. /\ m.start \in Nat /\ m.from \in Nat /\ m.till \in Nat /\ m.streampos \in Nat
      /\ m.length \in Nat /\ m.offset \in Nat /\ m.got \in Nat
      /\ Buffered(m) = m.length - m.offset /\ Buffered(m) \in Nat
  <2>1. m.length \in 0..MaxRecLen /\ MaxRecLen \in Nat
    BY FieldsAre, ConstantsAre DEF Constants1
  <2> QED BY <2>1, FieldsAre
<1>2. /\ m.length <= m.got /\ m.streampos - m.start = m.got - Buffered(m)
      /\ m.got = 0 \/ m.from + m.got <= m.till
      /\ m.till <= Bytes(d)
  BY DEF Positioned
<1>3. m.offset <= m.length
  BY DEF Positioned
<1>4. /\ Position(m) \in Nat /\ Position(m) = m.from + m.got - Buffered(m)
      /\ Position(m) + Buffered(m) = m.from + m.got /\ (Buffered(m) > 0 => Position(m) + Buffered(m) <= m.till)
  <2>1. m.streampos - m.start = m.got - (m.length - m.offset)
    BY <1>1, <1>2
  <2>2. /\ Position(m) \in Nat /\ Position(m) = m.from + m.got - (m.length - m.offset)
        /\ Position(m) + (m.length - m.offset) = m.from + m.got
        /\ m.length - m.offset > 0 => Position(m) + (m.length - m.offset) <= m.till
    BY <1>1, <1>2, <1>3, <2>1, PositionSum, Zenon
  <2> QED BY <1>1, <2>2, Zenon
<1>5. ASSUME NEW i \in DOMAIN d
      PROVE  /\ OffsetIn(d, m, i) \in Int
             /\ (OffsetIn(d, m, i) < m.streampos <=> Place(d, i) < Position(m))
             /\ (OffsetIn(d, m, i) = m.streampos <=> Place(d, i) = Position(m))
  <2>1. Place(d, i) \in Nat
    BY Places1
  <2> QED BY <1>1, <2>1 DEF OffsetIn, Position
<1> QED BY <1>2, <1>4, <1>5

(* Records that were handed out have an offset and a length.               *)
LEMMA HandedAre ==
  ASSUME NEW rs \in Seq(HandedRecords)
  PROVE  \A j \in DOMAIN rs : rs[j].at \in Nat /\ rs[j].len \in Nat
<1>1. \A j \in DOMAIN rs : rs[j] \in HandedRecords
  OBVIOUS
<1>2. \A rec \in HandedRecords : rec.at \in Nat /\ rec.len \in Nat
  BY DEF HandedRecords
<1> QED BY <1>1, <1>2

(* The position moves on, over no record that can be read.                 *)
LEMMA MovedOn ==
  ASSUME NEW d, Filled(d), NEW m, NEW rs, FileKept(d, m, rs), NEW f, Positioned(f, Bytes(d)),
         f.start = m.start, f.from = m.from, NEW k \in Nat, f.streampos = m.streampos + k,
         CleanOf(d) => \A i \in ReadableOf(d) : Place(d, i) >= Position(m) => Place(d, i) >= Position(m) + k
  PROVE  FileKept(d, f, rs)
<1>1. Positioned(m, Bytes(d)) /\ Handed(rs, m.streampos) /\ Sound(d, m, rs) /\ Complete(d, m, rs)
  BY DEF FileKept
<1>2. m.start \in Nat /\ m.from \in Nat /\ m.streampos \in Nat
  BY <1>1, FieldsAre
<1>3. Handed(rs, f.streampos)
  <2>1. rs \in Seq(HandedRecords) /\ InOrderOf(rs) /\ \A j \in DOMAIN rs : rs[j].at + rs[j].len <= m.streampos
    BY <1>1 DEF Handed
  <2>2. \A j \in DOMAIN rs : rs[j].at \in Nat /\ rs[j].len \in Nat
    BY <2>1, HandedAre
  <2>3. \A j \in DOMAIN rs : rs[j].at + rs[j].len <= f.streampos
    BY <1>2, <2>1, <2>2
  <2> QED BY <2>1, <2>3 DEF Handed
<1>4. \A i : OffsetIn(d, f, i) = OffsetIn(d, m, i)
  BY DEF OffsetIn
<1>5. Sound(d, f, rs)
  BY <1>1, <1>4 DEF Sound
<1>6. Complete(d, f, rs)
  <2> SUFFICES ASSUME CleanOf(d), NEW i \in ReadableOf(d), Place(d, i) >= f.from, OffsetIn(d, f, i) < f.streampos
               PROVE  OffsetIn(d, f, i) \in ToldIn(rs)
    BY DEF Complete
  <2>1. i \in DOMAIN d /\ Place(d, i) \in Nat
    BY Places1 DEF ReadableOf
  <2>2. Place(d, i) < Position(f)
    BY <2>1, PositionIs
  <2>3. Position(f) = Position(m) + k /\ Position(m) \in Nat
    <3>1. Position(m) \in Nat
      BY <1>1, PositionIs
    <3> QED BY <1>2, <3>1, PositionMoves
  <2>4. Place(d, i) >= Position(m) => Place(d, i) >= Position(m) + k
    OBVIOUS
  <2>5. Place(d, i) < Position(m)
    BY <2>1, <2>2, <2>3, <2>4
  <2>6. OffsetIn(d, m, i) < m.streampos
    BY <1>1, <2>1, <2>5, PositionIs
  <2> QED BY <1>1, <1>4, <2>6 DEF Complete
<1> QED BY <1>3, <1>5, <1>6 DEF FileKept

(* A record is handed out and passed.                                      *)
LEMMA HandedOut ==
  ASSUME NEW d, Filled(d), NEW m, NEW rs, FileKept(d, m, rs), NEW f, Positioned(f, Bytes(d)),
         f.start = m.start, f.from = m.from, NEW k \in Nat, f.streampos = m.streampos + k,
         NEW i0 \in ReadableOf(d), Place(d, i0) = Position(m), d[i0].crc => d[i0].size = d[i0].len,
         CleanOf(d) => \A i \in ReadableOf(d) : Place(d, i) > Position(m) => Place(d, i) >= Position(m) + k
  PROVE  FileKept(d, f, Append(rs, [at |-> m.streampos, len |-> k]))
<1> DEFINE rec == [at |-> m.streampos, len |-> k]
           rs2 == Append(rs, rec)
<1>1. Positioned(m, Bytes(d)) /\ Handed(rs, m.streampos) /\ Sound(d, m, rs) /\ Complete(d, m, rs)
  BY DEF FileKept
<1>2. m.start \in Nat /\ m.from \in Nat /\ m.streampos \in Nat
  BY <1>1, FieldsAre
<1>3. rec \in HandedRecords /\ rec.at = m.streampos /\ rec.len = k
  BY <1>2 DEF HandedRecords
<1>4. rs \in Seq(HandedRecords) /\ \A j \in DOMAIN rs : rs[j].at \in Nat /\ rs[j].len \in Nat
  <2>1. rs \in Seq(HandedRecords)
    BY <1>1 DEF Handed
  <2> QED BY <2>1, HandedAre
<1> HIDE DEF rec
<1>5. /\ rs2 \in Seq(HandedRecords) /\ Len(rs) \in Nat /\ DOMAIN rs = 1..Len(rs)
      /\ DOMAIN rs2 = 1..(Len(rs) + 1) /\ rs2[Len(rs) + 1] = rec /\ \A j \in DOMAIN rs : rs2[j] = rs[j]
  <2>1. rec \in HandedRecords /\ rs \in Seq(HandedRecords)
    BY <1>3, <1>4
  <2>2. /\ rs2 \in Seq(HandedRecords) /\ Len(rs2) = Len(rs) + 1 /\ rs2[Len(rs) + 1] = rec
        /\ \A j \in 1..Len(rs) : rs2[j] = rs[j]
    BY <2>1, AppendProperties
  <2> HIDE DEF rs2
  <2>3. Len(rs) \in Nat /\ DOMAIN rs = 1..Len(rs) /\ DOMAIN rs2 = 1..Len(rs2)
    BY <2>1, <2>2
  <2> QED BY <2>2, <2>3
<1> HIDE DEF rs2
<1>6. Handed(rs2, f.streampos)
  <2>1. \A j \in DOMAIN rs : rs[j].at + rs[j].len <= m.streampos
    BY <1>1 DEF Handed
  <2>2. \A j \in DOMAIN rs2 : rs2[j].at + rs2[j].len <= f.streampos
    <3> TAKE j \in DOMAIN rs2
    <3>1. CASE j \in DOMAIN rs
      BY <1>2, <1>4, <1>5, <2>1, <3>1
    <3>2. CASE j \notin DOMAIN rs
      <4>1. j = Len(rs) + 1
        BY <1>5, <3>2
      <4> QED BY <1>2, <1>3, <1>5, <4>1
    <3> QED BY <3>1, <3>2
  <2>3. InOrderOf(rs2)
    <3> SUFFICES ASSUME NEW a \in DOMAIN rs2, NEW b \in DOMAIN rs2, a < b
                 PROVE  rs2[a].at + rs2[a].len <= rs2[b].at
      BY DEF InOrderOf
    <3>1. a \in DOMAIN rs
      BY <1>5
    <3>2. CASE b \in DOMAIN rs
      BY <1>1, <1>5, <3>1, <3>2 DEF Handed, InOrderOf
    <3>3. CASE b \notin DOMAIN rs
      <4>1. b = Len(rs) + 1
        BY <1>5, <3>3
      <4> QED BY <1>3, <1>5, <2>1, <3>1, <4>1
    <3> QED BY <3>2, <3>3
  <2> QED BY <1>5, <2>2, <2>3 DEF Handed
<1>7. ToldIn(rs2) = ToldIn(rs) \cup {m.streampos}
  <2>1. Range(rs2) = Range(rs) \cup {rec}
    <3>1. Range(rs2) = {rs2[j] : j \in DOMAIN rs2} /\ Range(rs) = {rs[j] : j \in DOMAIN rs}
      BY DEF Range
    <3>2. DOMAIN rs2 = DOMAIN rs \cup {Len(rs) + 1}
      BY <1>5
    <3> QED BY <1>5, <3>1, <3>2
  <2> QED BY <1>3, <2>1 DEF ToldIn
<1>8. \A i : OffsetIn(d, f, i) = OffsetIn(d, m, i)
  BY DEF OffsetIn
<1>9. OffsetIn(d, m, i0) = m.streampos
  BY <1>1, PositionIs DEF ReadableOf
<1>10. Sound(d, f, rs2)
  BY <1>1, <1>7, <1>8, <1>9 DEF Sound
<1>11. Complete(d, f, rs2)
  <2> SUFFICES ASSUME CleanOf(d), NEW i \in ReadableOf(d), Place(d, i) >= f.from, OffsetIn(d, f, i) < f.streampos
               PROVE  OffsetIn(d, f, i) \in ToldIn(rs2)
    BY DEF Complete
  <2>1. i \in DOMAIN d /\ Place(d, i) \in Nat
    BY Places1 DEF ReadableOf
  <2>2. Place(d, i) < Position(f)
    BY <2>1, PositionIs
  <2>3. Position(f) = Position(m) + k /\ Position(m) \in Nat
    <3>1. Position(m) \in Nat
      BY <1>1, PositionIs
    <3> QED BY <1>2, <3>1, PositionMoves
  <2>4. Place(d, i) <= Position(m)
    <3>1. Place(d, i) > Position(m) => Place(d, i) >= Position(m) + k
      OBVIOUS
    <3> QED BY <2>1, <2>2, <2>3, <3>1
  <2>5. CASE Place(d, i) = Position(m)
    <3>1. OffsetIn(d, m, i) = m.streampos
      BY <1>1, <2>1, <2>5, PositionIs
    <3> QED BY <1>7, <1>8, <3>1
  <2>6. CASE Place(d, i) < Position(m)
    <3>1. OffsetIn(d, m, i) < m.streampos
      BY <1>1, <2>1, <2>6, PositionIs
    <3> QED BY <1>1, <1>7, <1>8, <3>1 DEF Complete
  <2> QED BY <2>1, <2>3, <2>4, <2>5, <2>6
<1> QED BY <1>6, <1>10, <1>11 DEF FileKept, rs2, rec

-----------------------------------------------------------------------------
(* One pass of ms3_readmsr_selection(): f is the open file m once its      *)
(* buffer was filled.                                                      *)
Ready(f, m) ==
  /\ Positioned(f, Bytes(disk)) /\ SameFile(f, m) /\ f.streampos = m.streampos
  /\ f.offset = IF Fills(m) THEN 0 ELSE m.offset

PassOf(f) ==
  IF Buffered(f) < MinRecLen THEN Loop(f, hint)
  ELSE Judged(f, f.from + f.got - Buffered(f), ParseAt(f.from + f.got - Buffered(f), Buffered(f), f.eof))

AtEnd(m)  == Result(m, hint, "ENDOFFILE")
Broken(m) == Result(m, hint, "GENERROR")

(* A pass ends at the range, fails to read, or judges the filled buffer.   *)
LEMMA PassIs ==
  ASSUME Filled(disk), NEW m, Positioned(m, Bytes(disk)), NEW r \in Passes(m)
  PROVE  \/ m.end > 0 /\ m.end + 1 - m.streampos < MinRecLen /\ r = AtEnd(m)
         \/ \E f : Ready(f, m) /\ (r = Broken(f) \/ r = StreamEnded(PassOf(f)))
<1> DEFINE kept == Shifted(m)
           Filling == {IF f.got = m.got /\ ~f.eof THEN Broken(f) ELSE StreamEnded(PassOf(f)) :
                         f \in Reads(kept, MaxRecLen - kept.length)}
<1>1. Passes(m) = IF m.end > 0 /\ m.end + 1 - m.streampos < MinRecLen THEN {AtEnd(m)}
                  ELSE IF ~Fills(m) THEN {StreamEnded(PassOf(m))} ELSE Filling
  BY Zenon DEF Passes, AtEnd, Broken, PassOf
<1>2. Bytes(disk) \in Nat
  BY Places1
<1>3. CASE m.end > 0 /\ m.end + 1 - m.streampos < MinRecLen
  BY <1>1, <1>3, Zenon
<1>4. CASE ~(m.end > 0 /\ m.end + 1 - m.streampos < MinRecLen) /\ ~Fills(m)
  <2>1. r = StreamEnded(PassOf(m))
    BY <1>1, <1>4, Zenon
  <2>2. Ready(m, m)
    BY <1>4, Zenon DEF Ready, SameFile
  <2> QED BY <2>1, <2>2, Zenon
<1>5. CASE ~(m.end > 0 /\ m.end + 1 - m.streampos < MinRecLen) /\ Fills(m)
  <2>1. r \in Filling
    BY <1>1, <1>5, Zenon
  <2>2. PICK f \in Reads(kept, MaxRecLen - kept.length) :
          r = IF f.got = m.got /\ ~f.eof THEN Broken(f) ELSE StreamEnded(PassOf(f))
    BY <2>1, Zenon
  <2>3. Positioned(kept, Bytes(disk)) /\ SameFile(kept, m) /\ kept.offset = 0 /\ kept.streampos = m.streampos
    BY <1>2, ShiftedIs
  <2> HIDE DEF kept
  <2>4. Positioned(f, Bytes(disk)) /\ SameFile(f, kept) /\ f.offset = kept.offset /\ f.streampos = kept.streampos
    BY <1>2, <2>3, ReadsAre
  <2>5. SameFile(f, m)
    BY <2>3, <2>4 DEF SameFile
  <2>6. Ready(f, m)
    BY <1>5, <2>3, <2>4, <2>5, Zenon DEF Ready
  <2> QED BY <2>2, <2>6, Zenon
<1> QED BY <1>3, <1>4, <1>5, Zenon

(* What is handed out by a pass, as ReadPass has it.                       *)
Recorded(m, r, rs) ==
  IF r.ret # "NOERROR" THEN rs
  ELSE LET len == r.msfp.offset - (IF Fills(m) THEN 0 ELSE m.offset)
       IN  Append(rs, [at |-> r.msfp.streampos - len, len |-> len])

(* The next piece starts where one ends, or later.                         *)
LEMMA NextPlace ==
  ASSUME NEW d, Filled(d), NEW i \in DOMAIN d, NEW j \in DOMAIN d, j # i, Place(d, j) >= Place(d, i)
  PROVE  Place(d, j) >= Place(d, i) + d[i].size
<1>1. i \in Nat /\ j \in Nat
  BY DEF Filled
<1>2. Place(d, i) \in Nat /\ Place(d, j) \in Nat /\ d[j].size \in Nat \ {0}
  BY Places1
<1>3. CASE i < j
  BY <1>3, Places1
<1>4. CASE j < i
  <2>1. Place(d, j) + d[j].size <= Place(d, i)
    BY <1>4, Places1
  <2> QED BY <1>2, <2>1
<1> QED BY <1>1, <1>3, <1>4

(* Filling the buffer keeps what holds of the file.                        *)
LEMMA ReadyKept ==
  ASSUME Filled(disk), NEW m, NEW rs, FileKept(disk, m, rs), NEW f, Ready(f, m)
  PROVE  FileKept(disk, f, rs)
<1>1. Positioned(m, Bytes(disk)) /\ m.streampos \in Nat
  <2>1. Positioned(m, Bytes(disk))
    BY DEF FileKept
  <2> QED BY <2>1, FieldsAre
<1>2. /\ Positioned(f, Bytes(disk)) /\ f.start = m.start /\ f.from = m.from
      /\ f.streampos = m.streampos
  BY DEF Ready, SameFile
<1>3. f.streampos = m.streampos + 0
  BY <1>1, <1>2
<1>4. \A i \in ReadableOf(disk) : Place(disk, i) >= Position(m) => Place(disk, i) >= Position(m) + 0
  <2>1. Position(m) \in Nat
    BY <1>1, PositionIs
  <2> QED BY <2>1
<1> QED BY <1>2, <1>3, <1>4, MovedOn

(* The bytes that are passed over hold no record that can be read.         *)
LEMMA Skipped ==
  ASSUME Filled(disk), NEW rs, NEW f, FileKept(disk, f, rs), NEW k \in Nat, k <= Buffered(f),
         CleanOf(disk) => \A i \in ReadableOf(disk) : Place(disk, i) >= Position(f) => Place(disk, i) >= Position(f) + k
  PROVE  FileKept(disk, Passed(f, k), rs)
<1>1. Positioned(f, Bytes(disk)) /\ Bytes(disk) \in Nat
  BY Places1 DEF FileKept
<1>2. /\ Positioned(Passed(f, k), Bytes(disk)) /\ SameFile(Passed(f, k), f)
      /\ Passed(f, k).streampos = f.streampos + k
  BY <1>1, PassedIs
<1>3. Passed(f, k).start = f.start /\ Passed(f, k).from = f.from
  BY <1>2 DEF SameFile
<1> QED BY <1>2, <1>3, MovedOn

Goes(r) == r.ret = ""

(* A pass that goes on returns nothing.                                    *)
LEMMA GoesOn ==
  ASSUME NEW r, Goes(r)
  PROVE  r.ret # "NOERROR" /\ r.ret # "read" /\ r.ret # "ENDOFFILE"
BY Zenon DEF Goes

(* Loop is such a pass.                                                    *)
LEMMA LoopIs ==
  ASSUME NEW m, NEW parseval
  PROVE  Loop(m, parseval).msfp = m /\ Goes(Loop(m, parseval))
BY Zenon DEF Loop, Result, Goes

IsJudged(q, m, p, o) == q = Judged(m, p, o)
IsPieceAt(i, p) == i = CHOOSE j \in PieceAt(p) : TRUE

(* What is done with a record that was parsed.                             *)
LEMMA JudgedParsed ==
  ASSUME NEW m, NEW p, NEW o, NEW i, IsPieceAt(i, p), NEW q, IsJudged(q, m, p, o),
         o.result = "parsed"
  PROVE  /\ ~disk[i].picked => q.msfp = Passed(m, o.asks) /\ Goes(q)
         /\ disk[i].picked /\ disk[i].bad => q.msfp = m /\ q.ret = "GENERROR"
         /\ disk[i].picked /\ ~disk[i].bad =>
              q.msfp = [Passed(m, o.asks) EXCEPT !.count = @ + 1] /\ q.ret = "NOERROR"
<1>1. CASE ~disk[i].picked
  <2>1. q = Loop(Passed(m, o.asks), 0)
    BY <1>1, Zenon DEF Judged, IsJudged, IsPieceAt
  <2> QED BY <1>1, <2>1, LoopIs
<1>2. CASE disk[i].picked /\ disk[i].bad
  <2>1. q = Result(m, 0, "GENERROR")
    BY <1>2 DEF Judged, Result, IsJudged, IsPieceAt
  <2> QED BY <1>2, <2>1 DEF Result
<1>3. CASE disk[i].picked /\ ~disk[i].bad
  <2>1. q = Result([Passed(m, o.asks) EXCEPT !.count = @ + 1], 0, "NOERROR")
    BY <1>3 DEF Judged, Result, IsJudged, IsPieceAt
  <2> QED BY <1>3, <2>1 DEF Result
<1> QED BY <1>1, <1>2, <1>3

(* What is done where there is none.                                       *)
LEMMA JudgedNone ==
  ASSUME NEW m, NEW p, NEW o, NEW q, IsJudged(q, m, p, o), o.result \in {"notseed", "outofrange", "invalidcrc"}
  PROVE  /\ m.skip => q.msfp = Passed(m, 1) /\ Goes(q)
         /\ ~m.skip => q.msfp = m /\ q.ret = o.result
<1>1. q = IF m.skip THEN Loop(Passed(m, 1), 0) ELSE Result(m, 0, o.result)
  BY Zenon DEF Judged, IsJudged, IsPieceAt
<1>2. CASE m.skip
  BY <1>1, <1>2, LoopIs
<1>3. CASE ~m.skip
  BY <1>1, <1>3 DEF Result
<1> QED BY <1>2, <1>3

(* What is done when more is asked for.                                    *)
LEMMA JudgedMore ==
  ASSUME NEW m, NEW p, NEW o, NEW q, IsJudged(q, m, p, o), o.result = "more"
  PROVE  /\ Buffered(m) + o.asks > MaxRecLen /\ m.skip => q.msfp = Passed(m, 1) /\ Goes(q)
         /\ Buffered(m) + o.asks > MaxRecLen /\ ~m.skip => q.msfp = m /\ q.ret = "outofrange"
         /\ ~(Buffered(m) + o.asks > MaxRecLen) /\ m.eof => q.msfp = m /\ q.ret = "ENDOFFILE"
         /\ ~(Buffered(m) + o.asks > MaxRecLen) /\ ~m.eof => q.msfp = m /\ Goes(q)
<1>1. CASE Buffered(m) + o.asks > MaxRecLen
  <2>1. q = IF m.skip THEN Loop(Passed(m, 1), o.asks) ELSE Result(m, o.asks, "outofrange")
    BY <1>1, Zenon DEF Judged, IsJudged, IsPieceAt
  <2>2. CASE m.skip
    BY <1>1, <2>1, <2>2, LoopIs
  <2>3. CASE ~m.skip
    BY <1>1, <2>1, <2>3 DEF Result
  <2> QED BY <2>2, <2>3
<1>2. CASE ~(Buffered(m) + o.asks > MaxRecLen)
  <2>1. q = IF m.eof THEN Result(m, o.asks, "ENDOFFILE") ELSE Loop(m, o.asks)
    BY <1>2, Zenon DEF Judged, IsJudged, IsPieceAt
  <2>2. CASE m.eof
    BY <1>2, <2>1, <2>2 DEF Result
  <2>3. CASE ~m.eof
    BY <1>2, <2>1, <2>3, LoopIs
  <2> QED BY <2>2, <2>3
<1> QED BY <1>1, <1>2

(* The parser has five answers.                                            *)
LEMMA ResultsOf ==
  ASSUME Filled(disk), NEW p \in Nat, NEW n \in Nat, n >= MinRecLen, NEW atend \in BOOLEAN, p + n <= Bytes(disk)
  PROVE  ParseAt(p, n, atend).result \in {"parsed", "more", "notseed", "outofrange", "invalidcrc"}
<1>1. CASE \E i \in Starts : Place(disk, i) = p
  <2>1. PICK i \in Starts : Place(disk, i) = p
    BY <1>1
  <2>2. \E known \in Nat : Known(i, n, atend, known) /\ ParseAt(Place(disk, i), n, atend) = ReadAs(i, n, known)
    BY <2>1, KnownIs
  <2>3. PICK known \in Nat : ParseAt(p, n, atend) = ReadAs(i, n, known)
    BY <2>1, <2>2
  <2> QED BY <2>3, Results
<1>2. CASE ~\E i \in Starts : Place(disk, i) = p
  <2>1. \A i \in DOMAIN disk : Place(disk, i) = p => disk[i].kind = "other"
    BY <1>2 DEF Starts
  <2>2. ParseAt(p, n, atend) = Outcome("notseed", 0)
    BY <2>1, NoStart
  <2> QED BY <2>2 DEF Outcome
<1> QED BY <1>1, <1>2

(* A pass keeps what holds of the file.                                    *)
PassWell(m, q, rs) ==
  /\ FileKept(disk, q.msfp, Recorded(m, q, rs))
  /\ q.ret # "read" /\ (q.ret = "ENDOFFILE" => Behind(disk, q.msfp))

(* Each answer of the parser keeps what holds of the file.                 *)
LEMMA JudgedWell ==
  ASSUME Filled(disk), NEW m, NEW rs, FileKept(disk, m, rs), NEW f, Ready(f, m), Buffered(f) >= MinRecLen
  PROVE  PassWell(m, PassOf(f), rs)
<1> DEFINE n == Buffered(f)
           p == f.from + f.got - Buffered(f)
           o == ParseAt(p, n, f.eof)
           q == Judged(f, p, o)
<1>1. FileKept(disk, f, rs) /\ Positioned(f, Bytes(disk))
  BY ReadyKept DEF FileKept
<1>2. /\ n \in Nat /\ n > 0 /\ f.eof \in BOOLEAN /\ f.from \in Nat /\ f.till \in Nat /\ f.streampos \in Nat
      /\ f.offset \in Nat /\ f.skip \in BOOLEAN
  BY <1>1, FieldsAre, ConstantsAre DEF Constants1
<1>3. /\ p = Position(f) /\ p \in Nat /\ p + n <= f.till /\ f.till <= Bytes(disk) /\ p + n = f.from + f.got
      /\ Bytes(disk) \in Nat
  BY <1>1, <1>2, PositionIs, Places1
<1>4. p + n <= Bytes(disk)
  BY <1>2, <1>3
<1>5. PassOf(f) = q
  BY <1>2, ConstantsAre DEF PassOf, Constants1
<1>6. o.result \in {"parsed", "more", "notseed", "outofrange", "invalidcrc"}
  BY <1>2, <1>3, <1>4, ResultsOf
<1>a. IsJudged(q, f, p, o)
  BY DEF IsJudged
<1> HIDE DEF n, p, o, q
<1> SUFFICES PassWell(m, q, rs)
  BY <1>5
<1>7. \A i \in ReadableOf(disk) : i \in DOMAIN disk /\ Place(disk, i) \in Nat
  BY Places1 DEF ReadableOf
(* Nothing is handed out, and the position moves by k.                     *)
<1>8. ASSUME NEW k \in Nat, k <= n, q.msfp = Passed(f, k), Goes(q),
             CleanOf(disk) => \A i \in ReadableOf(disk) : Place(disk, i) >= p => Place(disk, i) >= p + k
      PROVE  PassWell(m, q, rs)
  <2>1. FileKept(disk, Passed(f, k), rs)
    BY <1>1, <1>3, <1>8, Skipped DEF n
  <2>2. q.ret # "NOERROR" /\ q.ret # "read" /\ q.ret # "ENDOFFILE"
    BY <1>8, GoesOn
  <2>3. Recorded(m, q, rs) = rs
    BY <2>2, Zenon DEF Recorded
  <2> QED BY <1>8, <2>1, <2>2, <2>3, Zenon DEF PassWell
<1>9. ASSUME q.msfp = f, q.ret # "NOERROR", q.ret # "read", q.ret # "ENDOFFILE" \/ Behind(disk, f)
      PROVE  PassWell(m, q, rs)
  <2>1. Recorded(m, q, rs) = rs
    BY <1>9, Zenon DEF Recorded
  <2> QED BY <1>1, <1>9, <2>1, Zenon DEF PassWell
<1>10. ASSUME CleanOf(disk), \A i \in ReadableOf(disk) : Place(disk, i) # p
       PROVE  \A i \in ReadableOf(disk) : Place(disk, i) >= p => Place(disk, i) >= p + 1
  BY <1>3, <1>7, <1>10
<1>11. CASE o.result = "parsed"
  <2>1. PICK i \in Starts :
          /\ Place(disk, i) = p /\ (CHOOSE j \in PieceAt(p) : TRUE) = i
          /\ o.asks \in MinRecLen..MaxRecLen /\ o.asks <= n
          /\ disk[i].len \in MinRecLen..MaxRecLen /\ (disk[i].crc => Whole(i))
          /\ CleanOf(disk) => o.asks <= disk[i].size
    <3>1. ParseAt(p, n, f.eof).result = "parsed" /\ n >= MinRecLen
      BY <1>11 DEF o, n
    <3>2. \E i \in Starts :
           /\ Place(disk, i) = p /\ (CHOOSE j \in PieceAt(p) : TRUE) = i
           /\ ParseAt(p, n, f.eof).asks \in MinRecLen..MaxRecLen /\ ParseAt(p, n, f.eof).asks <= n
           /\ disk[i].len \in MinRecLen..MaxRecLen /\ (disk[i].crc => Whole(i))
           /\ CleanOf(disk) => ParseAt(p, n, f.eof).asks <= disk[i].size
      BY <1>2, <1>3, <1>4, <3>1, Found
    <3> QED BY <3>2, Zenon DEF o
  <2>b. IsPieceAt(i, p)
    BY <2>1 DEF IsPieceAt
  <2>c. /\ ~disk[i].picked => q.msfp = Passed(f, o.asks) /\ Goes(q)
        /\ disk[i].picked /\ disk[i].bad => q.msfp = f /\ q.ret = "GENERROR"
        /\ disk[i].picked /\ ~disk[i].bad =>
              q.msfp = [Passed(f, o.asks) EXCEPT !.count = @ + 1] /\ q.ret = "NOERROR"
    BY <1>11, <2>b, <1>a, JudgedParsed
  <2>2. PICK k \in Nat : k = o.asks /\ k <= n /\ k <= MaxRecLen
    BY <2>1, ConstantsAre DEF Constants1
  <2>3. i \in DOMAIN disk /\ disk[i].size \in Nat
    BY PieceIs DEF Starts
  <2>4. ASSUME CleanOf(disk), NEW j \in ReadableOf(disk), j # i, Place(disk, j) >= p
        PROVE  Place(disk, j) >= p + k
    <3>1. Place(disk, j) >= p + disk[i].size
      BY <1>7, <2>1, <2>3, <2>4, NextPlace
    <3>2. k <= disk[i].size
      BY <2>1, <2>2, <2>4
    <3> QED BY <1>3, <1>7, <2>3, <3>1, <3>2
  <2>5. CASE ~disk[i].picked
    <3>1. q.msfp = Passed(f, k) /\ Goes(q)
      BY <2>2, <2>5, <2>c
    <3>2. i \notin ReadableOf(disk)
      BY <2>5 DEF ReadableOf
    <3>3. CleanOf(disk) => \A j \in ReadableOf(disk) : Place(disk, j) >= p => Place(disk, j) >= p + k
      BY <2>4, <3>2, Zenon
    <3> QED BY <1>8, <2>2, <3>1, <3>3, Zenon
  <2>6. CASE disk[i].picked /\ disk[i].bad
    <3>1. q.msfp = f /\ q.ret = "GENERROR"
      BY <2>6, <2>c
    <3>2. q.ret # "NOERROR" /\ q.ret # "read" /\ q.ret # "ENDOFFILE"
      BY <3>1
    <3> QED BY <1>9, <3>1, <3>2, Zenon
  <2>7. CASE disk[i].picked /\ ~disk[i].bad
    <3> DEFINE g == [Passed(f, k) EXCEPT !.count = @ + 1]
    <3>1. q.msfp = g /\ q.ret = "NOERROR"
      BY <2>2, <2>7, <2>c
    <3>2. /\ Positioned(Passed(f, k), Bytes(disk)) /\ SameFile(Passed(f, k), f)
          /\ Passed(f, k).streampos = f.streampos + k /\ Passed(f, k).offset = f.offset + k
      BY <1>1, <1>3, <2>2, PassedIs DEF n
    <3>3. /\ Positioned(g, Bytes(disk)) /\ g.streampos = f.streampos + k /\ g.offset = f.offset + k
          /\ g.start = f.start /\ g.from = f.from
      <4>1. /\ Positioned(g, Bytes(disk)) /\ g.streampos = Passed(f, k).streampos /\ g.offset = Passed(f, k).offset
            /\ g.start = Passed(f, k).start /\ g.from = Passed(f, k).from
        BY <3>2, CountedIs
      <4> HIDE DEF g
      <4> QED BY <3>2, <4>1 DEF SameFile
    <3> HIDE DEF g
    <3>4. i \in ReadableOf(disk)
      BY <2>1, <2>3, <2>7 DEF ReadableOf, Starts
    <3>5. disk[i].crc => disk[i].size = disk[i].len
      BY <2>1 DEF Whole
    <3>6. CleanOf(disk) => \A j \in ReadableOf(disk) : Place(disk, j) > Position(f) => Place(disk, j) >= Position(f) + k
      BY <1>3, <1>7, <2>1, <2>4
    <3>7. FileKept(disk, g, Append(rs, [at |-> f.streampos, len |-> k]))
      BY <1>1, <1>3, <2>1, <3>3, <3>4, <3>5, <3>6, HandedOut
    <3>8. Recorded(m, q, rs) = Append(rs, [at |-> f.streampos, len |-> k])
      <4>1. f.offset = IF Fills(m) THEN 0 ELSE m.offset
        BY DEF Ready
      <4>2. g.offset - (IF Fills(m) THEN 0 ELSE m.offset) = k /\ g.streampos - k = f.streampos
        BY <1>2, <3>3, <4>1
      <4> QED BY <3>1, <4>2 DEF Recorded
    <3>9. q.ret # "ENDOFFILE" /\ q.ret # "read"
      BY <3>1
    <3> QED BY <3>1, <3>7, <3>8, <3>9, Zenon DEF PassWell
  <2> QED BY <2>5, <2>6, <2>7
<1>12. CASE o.result \in {"notseed", "outofrange", "invalidcrc"}
  <2>1. CASE f.skip
    <3>1. q.msfp = Passed(f, 1) /\ Goes(q)
      BY <1>12, <2>1, <1>a, JudgedNone, Zenon
    <3>2. ASSUME CleanOf(disk), NEW i \in ReadableOf(disk) PROVE Place(disk, i) # p
      <4> SUFFICES ASSUME Place(disk, i) = p PROVE FALSE
        OBVIOUS
      <4>1. ParseAt(p, n, f.eof).result \in {"notseed", "outofrange", "invalidcrc"} /\ n >= MinRecLen
        BY <1>12 DEF o, n
      <4> QED BY <1>2, <1>3, <1>4, <3>2, <4>1, NotFound
    <3>3. CleanOf(disk) => \A i \in ReadableOf(disk) : Place(disk, i) >= p => Place(disk, i) >= p + 1
      BY <1>10, <3>2, Zenon
    <3>4. 1 \in Nat /\ 1 <= n
      BY <1>2
    <3> QED BY <1>8, <3>1, <3>3, <3>4, Zenon
  <2>2. CASE ~f.skip
    <3>1. q.msfp = f /\ q.ret = o.result
      BY <1>12, <2>2, <1>a, JudgedNone
    <3>2. q.ret # "NOERROR" /\ q.ret # "read" /\ q.ret # "ENDOFFILE"
      BY <1>12, <3>1
    <3> QED BY <1>9, <3>1, <3>2, Zenon
  <2> QED BY <2>1, <2>2
<1>13. CASE o.result = "more" /\ n + o.asks > MaxRecLen
  <2>1. CASE f.skip
    <3>1. q.msfp = Passed(f, 1) /\ Goes(q)
      BY <1>13, <2>1, <1>a, JudgedMore, Zenon DEF n
    <3>2. ASSUME CleanOf(disk), NEW i \in ReadableOf(disk) PROVE Place(disk, i) # p
      <4> SUFFICES ASSUME Place(disk, i) = p PROVE FALSE
        OBVIOUS
      <4>1. ParseAt(p, n, f.eof).result = "more" /\ n + ParseAt(p, n, f.eof).asks > MaxRecLen /\ n >= MinRecLen
        BY <1>13 DEF o, n
      <4> QED BY <1>2, <1>3, <1>4, <3>2, <4>1, NotFound
    <3>3. CleanOf(disk) => \A i \in ReadableOf(disk) : Place(disk, i) >= p => Place(disk, i) >= p + 1
      BY <1>10, <3>2, Zenon
    <3>4. 1 \in Nat /\ 1 <= n
      BY <1>2
    <3> QED BY <1>8, <3>1, <3>3, <3>4, Zenon
  <2>2. CASE ~f.skip
    <3>1. q.msfp = f /\ q.ret = "outofrange"
      BY <1>13, <2>2, <1>a, JudgedMore DEF n
    <3>2. q.ret # "NOERROR" /\ q.ret # "read" /\ q.ret # "ENDOFFILE"
      BY <3>1
    <3> QED BY <1>9, <3>1, <3>2, Zenon
  <2> QED BY <2>1, <2>2
<1>14. CASE o.result = "more" /\ ~(n + o.asks > MaxRecLen)
  <2>1. /\ f.eof => q.msfp = f /\ q.ret = "ENDOFFILE"
        /\ ~f.eof => q.msfp = f /\ Goes(q)
    BY <1>14, <1>a, JudgedMore, Zenon DEF n
  <2>2. CASE ~f.eof
    <3>1. q.msfp = f /\ Goes(q)
      BY <2>1, <2>2, Zenon
    <3> QED BY <1>9, <3>1, GoesOn, Zenon
  <2>3. CASE f.eof
    <3>1. ASSUME CleanOf(disk), NEW i \in ReadableOf(disk), Place(disk, i) >= f.from, InRangeOf(disk, f, i)
          PROVE  OffsetIn(disk, f, i) < f.streampos
      <4> SUFFICES ASSUME ~(OffsetIn(disk, f, i) < f.streampos) PROVE FALSE
        OBVIOUS
      <4>1. Place(disk, i) >= p
        BY <1>1, <1>3, <1>7, PositionIs
      <4>2. p + n >= f.till
        BY <1>1, <1>3, <2>3 DEF Positioned
      <4>3. p + n = f.till
        BY <1>2, <1>3, <4>2
      <4>4. Place(disk, i) + disk[i].len <= p + n
        BY <3>1, <4>3 DEF InRangeOf
      <4>5. (\E k \in DOMAIN disk : disk[k].kind = "bare") => p + n = Bytes(disk)
        BY <3>1, <4>3 DEF InRangeOf
      <4>6. ParseAt(p, n, f.eof).result = "more" /\ n >= MinRecLen
        BY <1>14 DEF o, n
      <4> QED BY <1>2, <1>3, <1>4, <2>3, <3>1, <4>1, <4>4, <4>5, <4>6, Exhausted
    <3>2. Behind(disk, f)
      BY <3>1 DEF Behind
    <3>3. q.msfp = f /\ q.ret = "ENDOFFILE"
      BY <2>1, <2>3, Zenon
    <3>4. q.ret # "NOERROR" /\ q.ret # "read"
      BY <3>3
    <3> QED BY <1>9, <3>2, <3>3, <3>4, Zenon
  <2> QED BY <2>2, <2>3
<1> QED BY <1>6, <1>11, <1>12, <1>13, <1>14

(* Judged yields a Result.                                                 *)
LEMMA JudgedResult ==
  ASSUME NEW m, NEW p, NEW o, o.result \in {"parsed", "more", "notseed", "outofrange", "invalidcrc"}
  PROVE  \E g, h, c : Judged(m, p, o) = Result(g, h, c)
<1> DEFINE q == Judged(m, p, o)
           i == CHOOSE i \in PieceAt(p) : TRUE
<1>1. \A g, h : \E c : Loop(g, h) = Result(g, h, c)
  BY Zenon DEF Loop
<1>2. CASE o.result = "parsed" /\ ~disk[i].picked
  <2>1. q = Loop(Passed(m, o.asks), 0)
    BY <1>2, Zenon DEF Judged
  <2> QED BY <1>1, <2>1, Zenon
<1>3. CASE o.result = "parsed" /\ disk[i].picked
  <2>1. q = IF disk[i].bad THEN Result(m, 0, "GENERROR")
            ELSE Result([Passed(m, o.asks) EXCEPT !.count = @ + 1], 0, "NOERROR")
    BY <1>3, Zenon DEF Judged
  <2> QED BY <2>1, Zenon
<1>4. CASE o.result \in {"notseed", "outofrange", "invalidcrc"}
  <2>1. q = IF m.skip THEN Loop(Passed(m, 1), 0) ELSE Result(m, 0, o.result)
    BY <1>4, Zenon DEF Judged
  <2> QED BY <1>1, <2>1, Zenon
<1>5. CASE o.result = "more"
  <2>1. q = IF Buffered(m) + o.asks > MaxRecLen
            THEN IF m.skip THEN Loop(Passed(m, 1), o.asks) ELSE Result(m, o.asks, "outofrange")
            ELSE IF m.eof THEN Result(m, o.asks, "ENDOFFILE") ELSE Loop(m, o.asks)
    BY <1>5, Zenon DEF Judged
  <2>2. \/ q = Loop(Passed(m, 1), o.asks) \/ q = Result(m, o.asks, "outofrange")
        \/ q = Result(m, o.asks, "ENDOFFILE") \/ q = Loop(m, o.asks)
    <3> HIDE DEF q
    <3> QED BY <2>1, Zenon
  <2>3. CASE q = Loop(Passed(m, 1), o.asks)
    BY <2>3, Zenon DEF Loop
  <2>4. CASE q = Loop(m, o.asks)
    BY <2>4, Zenon DEF Loop
  <2>5. CASE q = Result(m, o.asks, "outofrange") \/ q = Result(m, o.asks, "ENDOFFILE")
    BY <2>5, Zenon
  <2> QED BY <2>2, <2>3, <2>4, <2>5, Zenon
<1> QED BY <1>2, <1>3, <1>4, <1>5, Zenon

(* So does a pass over a buffer that is filled.                            *)
LEMMA PassOfIs ==
  ASSUME Filled(disk), NEW m, NEW rs, FileKept(disk, m, rs), NEW f, Ready(f, m)
  PROVE  PassWell(m, PassOf(f), rs) /\ \E g, h, c : PassOf(f) = Result(g, h, c)
<1>1. FileKept(disk, f, rs) /\ Positioned(f, Bytes(disk))
  BY ReadyKept DEF FileKept
<1>2. /\ Buffered(f) \in Nat /\ f.eof \in BOOLEAN
      /\ f.from + f.got - Buffered(f) = Position(f) /\ Position(f) \in Nat
      /\ Buffered(f) > 0 => Position(f) + Buffered(f) <= f.till
      /\ f.till <= Bytes(disk) /\ f.till \in Nat /\ Bytes(disk) \in Nat
  BY <1>1, FieldsAre, PositionIs, Places1
<1>3. CASE Buffered(f) < MinRecLen
  <2>1. PassOf(f) = Loop(f, hint)
    BY <1>3, Zenon DEF PassOf
  <2>2. PassOf(f).msfp = f /\ Goes(PassOf(f))
    BY <2>1, LoopIs, Zenon
  <2>3. PassOf(f).ret # "NOERROR" /\ PassOf(f).ret # "read" /\ PassOf(f).ret # "ENDOFFILE"
    BY <2>2, GoesOn, Zenon
  <2>4. Recorded(m, PassOf(f), rs) = rs
    BY <2>3, Zenon DEF Recorded
  <2>5. PassWell(m, PassOf(f), rs)
    BY <1>1, <2>2, <2>3, <2>4, Zenon DEF PassWell
  <2> QED BY <2>1, <2>5, Zenon DEF Loop
<1>4. CASE ~(Buffered(f) < MinRecLen)
  <2> DEFINE p == f.from + f.got - Buffered(f)
  <2>1. Buffered(f) >= MinRecLen /\ Buffered(f) > 0
    BY <1>2, <1>4, ConstantsAre DEF Constants1
  <2>2. p \in Nat /\ p + Buffered(f) <= Bytes(disk)
    BY <1>2, <2>1
  <2>3. ParseAt(p, Buffered(f), f.eof).result \in {"parsed", "more", "notseed", "outofrange", "invalidcrc"}
    <3> HIDE DEF p
    <3> QED BY <1>2, <2>1, <2>2, ResultsOf
  <2>4. PassOf(f) = Judged(f, p, ParseAt(p, Buffered(f), f.eof))
    BY <1>4, Zenon DEF PassOf
  <2> HIDE DEF p
  <2>5. \E g, h, c : PassOf(f) = Result(g, h, c)
    BY <2>3, <2>4, JudgedResult
  <2> QED BY <2>1, <2>5, JudgedWell
<1> QED BY <1>3, <1>4

(* So does any pass.                                                       *)
LEMMA PassesWell ==
  ASSUME Filled(disk), NEW m, NEW rs, FileKept(disk, m, rs), NEW r \in Passes(m)
  PROVE  PassWell(m, r, rs)
<1>1. Positioned(m, Bytes(disk))
  BY DEF FileKept
<1>2. \/ m.end > 0 /\ m.end + 1 - m.streampos < MinRecLen /\ r = AtEnd(m)
      \/ \E f : Ready(f, m) /\ (r = Broken(f) \/ r = StreamEnded(PassOf(f)))
  BY <1>1, PassIs
<1>3. \A i \in ReadableOf(disk) : i \in DOMAIN disk /\ Place(disk, i) \in Nat /\ disk[i].len \in Nat /\ disk[i].len >= MinRecLen
  <2>1. \A i \in ReadableOf(disk) : i \in DOMAIN disk /\ disk[i].len \in MinRecLen..MaxRecLen
    BY DEF ReadableOf
  <2> QED BY <2>1, Places1, ConstantsAre DEF Constants1
<1>4. ASSUME NEW f, FileKept(disk, f, rs), r.msfp = f, r.ret # "NOERROR", r.ret # "read",
             r.ret # "ENDOFFILE" \/ Behind(disk, f)
      PROVE  PassWell(m, r, rs)
  <2>1. Recorded(m, r, rs) = rs
    BY <1>4, Zenon DEF Recorded
  <2> QED BY <1>4, <2>1, Zenon DEF PassWell
<1>5. CASE m.end > 0 /\ m.end + 1 - m.streampos < MinRecLen /\ r = AtEnd(m)
  <2>1. r.msfp = m /\ r.ret = "ENDOFFILE"
    BY <1>5, Zenon DEF AtEnd, Result
  <2>2. r.ret # "NOERROR" /\ r.ret # "read"
    BY <2>1
  <2>3. m.end \in Nat /\ m.streampos \in Nat
    BY <1>1, FieldsAre
  <2>4. ASSUME CleanOf(disk), NEW i \in ReadableOf(disk), Place(disk, i) >= m.from, InRangeOf(disk, m, i)
        PROVE  OffsetIn(disk, m, i) < m.streampos
    <3>1. OffsetIn(disk, m, i) + disk[i].len <= m.end + 1
      BY <1>5, <2>4 DEF InRangeOf
    <3>2. OffsetIn(disk, m, i) \in Int
      BY <1>1, <1>3, PositionIs
    <3> QED BY <1>3, <1>5, <2>3, <3>1, <3>2, ConstantsAre DEF Constants1
  <2>5. Behind(disk, m)
    BY <2>4 DEF Behind
  <2> QED BY <1>4, <2>1, <2>2, <2>5, Zenon
<1>6. ASSUME NEW f, Ready(f, m), r = Broken(f)
      PROVE  PassWell(m, r, rs)
  <2>1. r.msfp = f /\ r.ret = "GENERROR"
    BY <1>6, Zenon DEF Broken, Result
  <2>2. r.ret # "NOERROR" /\ r.ret # "read" /\ r.ret # "ENDOFFILE"
    BY <2>1
  <2>3. FileKept(disk, f, rs)
    BY <1>6, ReadyKept
  <2> QED BY <1>4, <2>1, <2>2, <2>3, Zenon
<1>7. ASSUME NEW f, Ready(f, m), r = StreamEnded(PassOf(f))
      PROVE  PassWell(m, r, rs)
  <2> DEFINE q == PassOf(f)
  <2>1. PassWell(m, q, rs) /\ \E g, h, c : q = Result(g, h, c)
    BY <1>7, PassOfIs
  <2>2. PICK g, h, c : q = Result(g, h, c)
    BY <2>1
  <2>a. r = StreamEnded(q)
    BY <1>7
  <2> HIDE DEF q
  <2>3. CASE Goes(q) /\ q.msfp.eof /\ Buffered(q.msfp) < MinRecLen
    <3>1. r = [q EXCEPT !.ret = IF q.msfp.count = 0 THEN "notseed" ELSE "ENDOFFILE"]
      BY <2>3, <2>a, Zenon DEF StreamEnded, Goes
    <3>2. r.msfp = q.msfp /\ (r.ret = "notseed" \/ r.ret = "ENDOFFILE")
      BY <2>2, <3>1 DEF Result
    <3>3. r.ret # "NOERROR" /\ r.ret # "read"
      BY <3>2
    <3>4. q.ret # "NOERROR"
      BY <2>3, GoesOn
    <3>5. Recorded(m, q, rs) = rs
      BY <3>4, Zenon DEF Recorded
    <3>6. FileKept(disk, q.msfp, rs)
      BY <2>1, <3>5 DEF PassWell
    <3> DEFINE e == q.msfp
    <3>a. FileKept(disk, e, rs) /\ e.eof /\ Buffered(e) < MinRecLen
      BY <2>3, <3>6
    <3> HIDE DEF e
    <3>7. /\ Positioned(e, Bytes(disk)) /\ Position(e) \in Nat /\ Position(e) + Buffered(e) = e.from + e.got
          /\ Buffered(e) \in Nat /\ e.till \in Nat /\ e.from + e.got >= e.till
      <4>1. Positioned(e, Bytes(disk))
        BY <3>a DEF FileKept
      <4>2. e.from + e.got >= e.till
        BY <3>a, <4>1 DEF Positioned
      <4> QED BY <4>1, <4>2, PositionIs, FieldsAre
    <3>8. ASSUME CleanOf(disk), NEW i \in ReadableOf(disk), Place(disk, i) >= e.from, InRangeOf(disk, e, i)
          PROVE  OffsetIn(disk, e, i) < e.streampos
      <4>1. Place(disk, i) + disk[i].len <= e.till
        BY <3>8 DEF InRangeOf
      <4>2. Place(disk, i) < Position(e)
        BY <1>3, <3>7, <3>a, <4>1, ConstantsAre DEF Constants1
      <4> QED BY <1>3, <3>7, <4>2, PositionIs
    <3>9. Behind(disk, e)
      BY <3>8 DEF Behind
    <3> QED BY <1>4, <3>2, <3>3, <3>6, <3>9, Zenon DEF e
  <2>4. CASE ~(Goes(q) /\ q.msfp.eof /\ Buffered(q.msfp) < MinRecLen)
    <3>1. r = q
      BY <2>4, <2>a, Zenon DEF StreamEnded, Goes
    <3> QED BY <2>1, <3>1
  <2> QED BY <2>3, <2>4
<1> QED BY <1>2, <1>5, <1>6, <1>7

-----------------------------------------------------------------------------
(* mstl3_readbuffer_selection(): the recursive function of ReadBuffer is   *)
(* there, and what it yields.                                              *)
Rest(at)    == ParseAt(at, Bytes(disk) - at, FALSE)
Piece0(at)  == CHOOSE i \in PieceAt(at) : TRUE
NoMore      == [ret |-> "read", recs |-> <<>>]
Fails       == [ret |-> "GENERROR", recs |-> <<>>]
Refuses(at) == [ret |-> Rest(at).result, recs |-> <<>>]

Ends(at) ==
  Bytes(disk) - at <= MinRecLen \/ Rest(at).result # "parsed" \/ (disk[Piece0(at)].picked /\ disk[Piece0(at)].bad)

EndOf(at) ==
  IF Bytes(disk) - at <= MinRecLen \/ Rest(at).result = "more" THEN NoMore
  ELSE IF Rest(at).result # "parsed" THEN Refuses(at) ELSE Fails

After(at, v) ==
  IF ~disk[Piece0(at)].picked THEN v ELSE [v EXCEPT !.recs = <<[at |-> at, len |-> Rest(at).asks]>> \o @]

ReadBody(read) ==
  [at \in Nat |->
     LET i == CHOOSE i \in PieceAt(at) : TRUE
         Parsed(p) ==
           IF p.result = "more" THEN [ret |-> "read", recs |-> <<>>]
           ELSE IF p.result # "parsed" THEN [ret |-> p.result, recs |-> <<>>]
           ELSE IF ~disk[i].picked THEN read[at + p.asks]
           ELSE IF disk[i].bad THEN [ret |-> "GENERROR", recs |-> <<>>]
           ELSE [read[at + p.asks] EXCEPT !.recs = <<[at |-> at, len |-> p.asks]>> \o @]
     IN  IF Bytes(disk) - at <= MinRecLen THEN [ret |-> "read", recs |-> <<>>]
         ELSE Parsed(ParseAt(at, Bytes(disk) - at, FALSE))]

(* The body of the function, by cases.                                     *)
LEMMA BodyIs ==
  ASSUME NEW read, NEW at \in Nat
  PROVE  ReadBody(read)[at] = IF Ends(at) THEN EndOf(at) ELSE After(at, read[at + Rest(at).asks])
<1>1. ReadBody(read)[at] =
        IF Bytes(disk) - at <= MinRecLen THEN NoMore
        ELSE IF Rest(at).result = "more" THEN NoMore
        ELSE IF Rest(at).result # "parsed" THEN Refuses(at)
        ELSE IF ~disk[Piece0(at)].picked THEN read[at + Rest(at).asks]
        ELSE IF disk[Piece0(at)].bad THEN Fails
        ELSE [read[at + Rest(at).asks] EXCEPT !.recs = <<[at |-> at, len |-> Rest(at).asks]>> \o @]
  BY Zenon DEF ReadBody, NoMore, Fails, Refuses, Rest, Piece0
<1>2. CASE Bytes(disk) - at <= MinRecLen \/ Rest(at).result = "more"
  <2>1. ReadBody(read)[at] = NoMore
    BY <1>1, <1>2, Zenon
  <2>2. Rest(at).result = "more" => Rest(at).result # "parsed"
    OBVIOUS
  <2>3. Ends(at) /\ EndOf(at) = NoMore
    BY <1>2, <2>2, Zenon DEF Ends, EndOf
  <2> QED BY <2>1, <2>3, Zenon
<1>3. CASE ~(Bytes(disk) - at <= MinRecLen \/ Rest(at).result = "more") /\ Rest(at).result # "parsed"
  BY <1>1, <1>3, Zenon DEF Ends, EndOf
<1>4. CASE ~(Bytes(disk) - at <= MinRecLen) /\ Rest(at).result = "parsed"
  <2>1. Rest(at).result # "more"
    BY <1>4
  <2>2. CASE disk[Piece0(at)].picked /\ disk[Piece0(at)].bad
    BY <1>1, <1>4, <2>1, <2>2, Zenon DEF Ends, EndOf
  <2>3. CASE ~(disk[Piece0(at)].picked /\ disk[Piece0(at)].bad)
    BY <1>1, <1>4, <2>1, <2>3, Zenon DEF Ends, After
  <2> QED BY <2>2, <2>3
<1> QED BY <1>2, <1>3, <1>4, Zenon

Answers == [ret : {"read", "GENERROR", "notseed", "outofrange", "invalidcrc"}, recs : Seq(HandedRecords)]

(* What an answer is, and one with another record before it.               *)
LEMMA AnswersAre ==
  ASSUME NEW v \in Answers
  PROVE  /\ v.ret \in {"read", "GENERROR", "notseed", "outofrange", "invalidcrc"} /\ v.recs \in Seq(HandedRecords)
         /\ \A rec \in HandedRecords :
              LET w == [v EXCEPT !.recs = <<rec>> \o @]
              IN  w \in Answers /\ w.ret = v.ret /\ w.recs = <<rec>> \o v.recs
<1>1. v.ret \in {"read", "GENERROR", "notseed", "outofrange", "invalidcrc"} /\ v.recs \in Seq(HandedRecords)
  BY DEF Answers
<1>2. ASSUME NEW rec \in HandedRecords
      PROVE  LET w == [v EXCEPT !.recs = <<rec>> \o @]
             IN  w \in Answers /\ w.ret = v.ret /\ w.recs = <<rec>> \o v.recs
  <2>1. PICK longer \in Seq(HandedRecords) : longer = <<rec>> \o v.recs
    <3>1. <<rec>> \in Seq(HandedRecords)
      BY <1>2
    <3> QED BY <1>1, <3>1, ConcatProperties
  <2>2. [v EXCEPT !.recs = <<rec>> \o @] = [v EXCEPT !.recs = longer]
    BY <2>1
  <2>3. LET w == [v EXCEPT !.recs = longer] IN w \in Answers /\ w.ret = v.ret /\ w.recs = longer
    BY <2>1 DEF Answers
  <2> QED BY <2>1, <2>2, <2>3
<1> QED BY <1>1, <1>2

(* The rest of the buffer, where there is one and its records go on.       *)
LEMMA RestIs ==
  ASSUME Filled(disk), NEW at \in Nat
  PROVE  /\ ~Ends(at) => Rest(at).asks \in Nat /\ Rest(at).asks > 0 /\ at < Bytes(disk)
                         /\ [at |-> at, len |-> Rest(at).asks] \in HandedRecords
         /\ Ends(at) => EndOf(at) \in Answers /\ EndOf(at).recs = <<>>
<1>1. Bytes(disk) \in Nat /\ MinRecLen \in Nat /\ MinRecLen > 0
  BY Places1, ConstantsAre DEF Constants1
<1>2. ASSUME ~(Bytes(disk) - at <= MinRecLen)
      PROVE  /\ Bytes(disk) - at \in Nat /\ Bytes(disk) - at >= MinRecLen /\ at < Bytes(disk)
             /\ at + (Bytes(disk) - at) <= Bytes(disk)
  BY <1>1, <1>2
<1>3. FALSE \in BOOLEAN
  OBVIOUS
<1>4. ASSUME ~Ends(at)
      PROVE  Rest(at).asks \in Nat /\ Rest(at).asks > 0 /\ at < Bytes(disk)
  <2>1. ~(Bytes(disk) - at <= MinRecLen) /\ Rest(at).result = "parsed"
    BY <1>4, Zenon DEF Ends
  <2> DEFINE n == Bytes(disk) - at
  <2>2. n \in Nat /\ n >= MinRecLen /\ at < Bytes(disk) /\ at + n <= Bytes(disk)
    BY <1>2, <2>1
  <2>3. ParseAt(at, n, FALSE).result = "parsed" /\ Rest(at) = ParseAt(at, n, FALSE)
    BY <2>1 DEF Rest
  <2> HIDE DEF n
  <2>4. ParseAt(at, n, FALSE).asks \in MinRecLen..MaxRecLen
    BY <1>3, <2>2, <2>3, Found
  <2>5. \A k \in MinRecLen..MaxRecLen : k \in Nat /\ k > 0
    BY ConstantsAre DEF Constants1
  <2>6. Rest(at).asks \in Nat /\ Rest(at).asks > 0
    BY <2>3, <2>4, <2>5, Zenon
  <2> QED BY <2>2, <2>6
<1>5. ASSUME Ends(at)
      PROVE  EndOf(at) \in Answers /\ EndOf(at).recs = <<>>
  <2>1. <<>> \in Seq(HandedRecords)
    OBVIOUS
  <2>2. NoMore \in Answers /\ Fails \in Answers /\ NoMore.recs = <<>> /\ Fails.recs = <<>>
    BY <2>1 DEF NoMore, Fails, Answers
  <2>3. CASE Bytes(disk) - at <= MinRecLen \/ Rest(at).result = "more"
    BY <2>2, <2>3, Zenon DEF EndOf
  <2>4. CASE ~(Bytes(disk) - at <= MinRecLen \/ Rest(at).result = "more") /\ Rest(at).result # "parsed"
    <3> DEFINE n == Bytes(disk) - at
    <3>1. n \in Nat /\ n >= MinRecLen /\ at + n <= Bytes(disk)
      BY <1>2, <2>4
    <3>2. Rest(at) = ParseAt(at, n, FALSE)
      BY DEF Rest
    <3> HIDE DEF n
    <3>3. Rest(at).result \in {"parsed", "more", "notseed", "outofrange", "invalidcrc"}
      BY <1>3, <3>1, <3>2, ResultsOf
    <3>4. Rest(at).result \in {"notseed", "outofrange", "invalidcrc"}
      BY <2>4, <3>3
    <3>5. Refuses(at) \in Answers /\ Refuses(at).recs = <<>>
      BY <2>1, <3>4 DEF Refuses, Answers
    <3> QED BY <2>4, <3>5, Zenon DEF EndOf
  <2>5. CASE ~(Bytes(disk) - at <= MinRecLen \/ Rest(at).result = "more") /\ Rest(at).result = "parsed"
    BY <2>2, <2>5, Zenon DEF EndOf
  <2> QED BY <2>3, <2>4, <2>5, Zenon
<1>6. ASSUME ~Ends(at) PROVE [at |-> at, len |-> Rest(at).asks] \in HandedRecords
  BY <1>4, <1>6 DEF HandedRecords
<1> QED BY <1>4, <1>5, <1>6

(* There is such a function: each value rests on one further on.           *)
LEMMA ReadExists ==
  ASSUME Filled(disk)
  PROVE  \E read \in [Nat -> Answers] : read = ReadBody(read)
<1> DEFINE size == Bytes(disk)
           leaf == {at \in Nat : Ends(at)}
           rank == [at \in Nat |-> IF at < size THEN size - at ELSE 0]
           parent == [at \in Nat |-> IF at \in leaf THEN at ELSE at + Rest(at).asks]
           base == [at \in Nat |-> IF at \in leaf THEN EndOf(at) ELSE NoMore]
           step == [at \in Nat |-> [v \in Answers |-> IF at \in leaf THEN v ELSE After(at, v)]]
<1>1. size \in Nat
  BY Places1
<1>2. \A at \in Nat \ leaf : Rest(at).asks \in Nat /\ Rest(at).asks > 0 /\ at < size
  BY RestIs
<1>3. \A at \in leaf : EndOf(at) \in Answers
  BY RestIs
<1>4. ASSUME NEW at \in Nat \ leaf, NEW v \in Answers PROVE After(at, v) \in Answers
  <2>1. [at |-> at, len |-> Rest(at).asks] \in HandedRecords
    BY RestIs
  <2>2. CASE ~disk[Piece0(at)].picked
    BY <2>2, Zenon DEF After
  <2>3. CASE disk[Piece0(at)].picked
    <3>1. After(at, v) = [v EXCEPT !.recs = <<[at |-> at, len |-> Rest(at).asks]>> \o @]
      BY <2>3, Zenon DEF After
    <3> QED BY <2>1, <3>1, AnswersAre
  <2> QED BY <2>2, <2>3
<1>5. NoMore \in Answers
  <2>1. <<>> \in Seq(HandedRecords)
    OBVIOUS
  <2> QED BY <2>1 DEF NoMore, Answers
<1> HIDE DEF size, leaf
<1>6. rank \in [Nat -> Nat]
  BY <1>1
<1>7. parent \in [Nat -> Nat]
  BY <1>2
<1>8. base \in [Nat -> Answers]
  BY <1>3, <1>5, Zenon
<1>9. step \in [Nat -> [Answers -> Answers]]
  BY <1>4, Zenon
<1>10. \A at \in Nat \ leaf : rank[parent[at]] < rank[at]
  BY <1>1, <1>2
<1>11. \A at \in leaf : at \in Nat /\ base[at] = EndOf(at)
  BY DEF leaf
<1>12. \A at \in Nat \ leaf : parent[at] = at + Rest(at).asks /\ \A v \in Answers : step[at][v] = After(at, v)
  BY Zenon
<1> HIDE DEF rank, parent, base, step
<1>13. PICK read \in [Nat -> Answers] : \A at \in Nat : Follows(read, at, parent, leaf, base, step)
  BY <1>6, <1>7, <1>8, <1>9, <1>10, Recursion
<1>14. ASSUME NEW at \in Nat PROVE read[at] = ReadBody(read)[at]
  <2>1. read[at] = IF at \in leaf THEN base[at] ELSE step[at][read[parent[at]]]
    BY <1>13 DEF Follows
  <2>2. ReadBody(read)[at] = IF Ends(at) THEN EndOf(at) ELSE After(at, read[at + Rest(at).asks])
    BY BodyIs
  <2>3. CASE at \in leaf
    <3>1. Ends(at)
      BY <2>3 DEF leaf
    <3> QED BY <1>11, <2>1, <2>2, <2>3, <3>1, Zenon
  <2>4. CASE at \notin leaf
    <3>1. ~Ends(at)
      BY <2>4 DEF leaf
    <3>2. parent[at] = at + Rest(at).asks /\ parent[at] \in Nat
      BY <1>7, <1>12, <2>4
    <3>3. read[parent[at]] \in Answers
      BY <1>13, <3>2
    <3>4. step[at][read[parent[at]]] = After(at, read[parent[at]])
      BY <1>12, <2>4, <3>3
    <3> QED BY <2>1, <2>2, <2>4, <3>1, <3>2, <3>4, Zenon
  <2> QED BY <2>3, <2>4
<1>15. ReadBody(read) = [at \in Nat |-> ReadBody(read)[at]]
  BY Zenon DEF ReadBody
<1>16. read = [at \in Nat |-> read[at]]
  BY <1>13
<1>17. read = ReadBody(read)
  BY <1>14, <1>15, <1>16, Zenon
<1> QED BY <1>13, <1>17

(* What is read from a place on: records in order, from there on, and all  *)
(* that can be read where the end is reached.                              *)
LastRead(d, j) == j < Len(d) \/ (d[j].kind = "record" /\ d[j].len > MinRecLen)
Wanted(d, at) == {Place(d, i) : i \in {j \in ReadableOf(d) : LastRead(d, j) /\ Place(d, j) >= at}}

Reached(v) == v.ret = "read"

GoodRead(v, at) ==
  /\ v \in Answers /\ InOrderOf(v.recs) /\ \A k \in DOMAIN v.recs : v.recs[k].at >= at
  /\ Reached(v) /\ CleanOf(disk) => ToldIn(v.recs) = Wanted(disk, at)

(* A record put before those read after it.                                *)
LEMMA ReadLess ==
  ASSUME NEW v \in Answers, NEW at \in Nat, NEW k \in Nat, GoodRead(v, at + k), k > 0
  PROVE  /\ InOrderOf(<<[at |-> at, len |-> k]>> \o v.recs)
         /\ \A j \in DOMAIN (<<[at |-> at, len |-> k]>> \o v.recs) : (<<[at |-> at, len |-> k]>> \o v.recs)[j].at >= at
         /\ ToldIn(<<[at |-> at, len |-> k]>> \o v.recs) = {at} \cup ToldIn(v.recs)
<1> DEFINE rec == [at |-> at, len |-> k]
           rs == v.recs
           more == <<rec>> \o rs
<1>1. rec \in HandedRecords /\ rec.at = at /\ rec.len = k
  BY DEF HandedRecords
<1>2. rs \in Seq(HandedRecords) /\ InOrderOf(rs) /\ \A j \in DOMAIN rs : rs[j].at >= at + k
  BY AnswersAre DEF GoodRead
<1> HIDE DEF rec, rs
<1>3. \A j \in DOMAIN rs : rs[j].at \in Nat /\ rs[j].len \in Nat
  BY <1>2, HandedAre
<1>4. /\ Len(rs) \in Nat /\ DOMAIN rs = 1..Len(rs) /\ DOMAIN more = 1..(Len(rs) + 1)
      /\ more[1] = rec /\ \A j \in 2..(Len(rs) + 1) : more[j] = rs[j - 1] /\ j - 1 \in DOMAIN rs
  <2>1. <<rec>> \in Seq(HandedRecords) /\ Len(<<rec>>) = 1 /\ <<rec>>[1] = rec
    BY <1>1
  <2>2. /\ Len(more) = 1 + Len(rs) /\ more \in Seq(HandedRecords)
        /\ \A j \in 1..Len(more) : more[j] = IF j <= 1 THEN <<rec>>[j] ELSE rs[j - 1]
    BY <1>2, <2>1, ConcatProperties
  <2> HIDE DEF more
  <2>3. Len(rs) \in Nat /\ DOMAIN rs = 1..Len(rs) /\ DOMAIN more = 1..Len(more)
    BY <1>2, <2>2
  <2> QED BY <2>1, <2>2, <2>3, SMTT(30)
<1> HIDE DEF more
<1>5. \A j \in DOMAIN more : more[j].at >= at
  <2> TAKE j \in DOMAIN more
  <2>1. CASE j = 1
    BY <1>1, <1>4, <2>1
  <2>2. CASE j # 1
    <3>1. more[j] = rs[j - 1] /\ j - 1 \in DOMAIN rs
      BY <1>4, <2>2
    <3>2. rs[j - 1].at >= at + k /\ rs[j - 1].at \in Nat
      BY <1>2, <1>3, <3>1
    <3> QED BY <3>1, <3>2
  <2> QED BY <2>1, <2>2
<1>6. InOrderOf(more)
  <2> SUFFICES ASSUME NEW a \in DOMAIN more, NEW b \in DOMAIN more, a < b
               PROVE  more[a].at + more[a].len <= more[b].at
    BY DEF InOrderOf
  <2>1. more[b] = rs[b - 1] /\ b - 1 \in DOMAIN rs
    BY <1>4
  <2>2. CASE a = 1
    BY <1>1, <1>2, <1>4, <2>1, <2>2
  <2>3. CASE a # 1
    <3>1. more[a] = rs[a - 1] /\ a - 1 \in DOMAIN rs /\ a - 1 < b - 1
      BY <1>4, <2>3
    <3>2. rs[a - 1].at + rs[a - 1].len <= rs[b - 1].at
      BY <1>2, <2>1, <3>1 DEF InOrderOf
    <3> QED BY <2>1, <3>1, <3>2
  <2> QED BY <2>2, <2>3
<1>7. ToldIn(more) = {at} \cup ToldIn(rs)
  <2>1. Range(more) = {rec} \cup Range(rs)
    <3>1. Range(more) = {more[j] : j \in DOMAIN more} /\ Range(rs) = {rs[j] : j \in DOMAIN rs}
      BY DEF Range
    <3>2. \A j \in DOMAIN rs : j + 1 \in DOMAIN more /\ more[j + 1] = rs[j]
      <4> TAKE j \in DOMAIN rs
      <4>1. j + 1 \in 2..(Len(rs) + 1) /\ (j + 1) - 1 = j
        BY <1>4
      <4> QED BY <1>4, <4>1
    <3>3. 1 \in DOMAIN more
      BY <1>4
    <3>4. \A j \in DOMAIN more : j = 1 \/ j \in 2..(Len(rs) + 1)
      BY <1>4
    <3>5. ASSUME NEW x \in Range(more) PROVE x \in {rec} \cup Range(rs)
      <4>1. PICK j \in DOMAIN more : x = more[j]
        BY <3>1
      <4>2. CASE j = 1
        BY <1>4, <4>1, <4>2
      <4>3. CASE j # 1
        BY <1>4, <3>1, <3>4, <4>1, <4>3
      <4> QED BY <4>2, <4>3
    <3>6. ASSUME NEW x \in Range(rs) PROVE x \in Range(more)
      BY <3>1, <3>2
    <3>7. rec \in Range(more)
      BY <1>4, <3>1, <3>3
    <3> QED BY <3>5, <3>6, <3>7
  <2> QED BY <1>1, <2>1 DEF ToldIn
<1> QED BY <1>5, <1>6, <1>7 DEF more, rec, rs

(* What is read where the reading ends.                                    *)
LEMMA EndGood ==
  ASSUME Filled(disk), NEW at \in Nat, Ends(at)
  PROVE  GoodRead(EndOf(at), at)
<1> DEFINE n == Bytes(disk) - at
           Over == n <= MinRecLen \/ Rest(at).result = "more"
<1>1. EndOf(at) \in Answers /\ EndOf(at).recs = <<>>
  BY RestIs
<1>2. InOrderOf(EndOf(at).recs) /\ ToldIn(EndOf(at).recs) = {} /\ \A k \in DOMAIN EndOf(at).recs : EndOf(at).recs[k].at >= at
  BY <1>1 DEF InOrderOf, ToldIn, Range
<1>3. ASSUME ~Over PROVE ~Reached(EndOf(at))
  <2>1. CASE Rest(at).result = "parsed"
    <3>1. EndOf(at) = Fails
      BY <1>3, <2>1, Zenon DEF EndOf
    <3> QED BY <3>1 DEF Reached, Fails
  <2>2. CASE Rest(at).result # "parsed"
    <3>1. EndOf(at) = Refuses(at)
      BY <1>3, <2>2, Zenon DEF EndOf
    <3>2. n \in Nat /\ n >= MinRecLen /\ at + n <= Bytes(disk)
      BY <1>3, Places1, ConstantsAre DEF Constants1
    <3>3. Rest(at) = ParseAt(at, n, FALSE) /\ FALSE \in BOOLEAN
      BY DEF Rest
    <3> HIDE DEF n
    <3>4. Rest(at).result \in {"parsed", "more", "notseed", "outofrange", "invalidcrc"}
      BY <3>2, <3>3, ResultsOf
    <3>5. Rest(at).result # "read"
      BY <3>4
    <3> QED BY <3>1, <3>5 DEF Reached, Refuses
  <2> QED BY <2>1, <2>2
<1>4. ASSUME Over, CleanOf(disk), NEW i \in ReadableOf(disk), Place(disk, i) >= at PROVE ~LastRead(disk, i)
  <2>1. /\ i \in DOMAIN disk /\ Bytes(disk) \in Nat /\ Place(disk, i) \in Nat /\ disk[i].size \in Nat \ {0}
        /\ Place(disk, i) + disk[i].size <= Bytes(disk)
    BY Places1 DEF ReadableOf
  <2>2. disk[i].size = disk[i].len /\ disk[i].len >= MinRecLen
    BY <1>4, ConstantsAre DEF CleanOf, ReadableOf, Constants1
  <2>3. CASE n <= MinRecLen
    <3>1. disk[i].len = MinRecLen /\ Place(disk, i) + disk[i].size = Bytes(disk)
      BY <1>4, <2>1, <2>2, <2>3, ConstantsAre DEF Constants1
    <3>2. ~(i < Len(disk))
      <4> SUFFICES ASSUME i < Len(disk) PROVE FALSE
        OBVIOUS
      <4>1. i + 1 \in DOMAIN disk /\ i < i + 1
        BY <2>1 DEF Filled
      <4>2. /\ Place(disk, i) + disk[i].size <= Place(disk, i + 1)
            /\ Place(disk, i + 1) + disk[i + 1].size <= Bytes(disk) /\ disk[i + 1].size \in Nat \ {0}
            /\ Place(disk, i + 1) \in Nat
        BY <2>1, <4>1, Places1
      <4> QED BY <2>1, <3>1, <4>2
    <3> QED BY <3>1, <3>2, ConstantsAre DEF LastRead, Constants1
  <2>4. CASE ~(n <= MinRecLen)
    <3>1. n \in Nat /\ n >= MinRecLen /\ at + n <= Bytes(disk) /\ at + n = Bytes(disk)
      BY <2>1, <2>4, ConstantsAre DEF Constants1
    <3>2. Place(disk, i) + disk[i].len <= at + n
      BY <2>1, <2>2, <3>1
    <3>3. Rest(at) = ParseAt(at, n, FALSE) /\ FALSE \in BOOLEAN
      BY DEF Rest
    <3>4. Rest(at).result = "more"
      BY <1>4, <2>4
    <3> HIDE DEF n
    <3>5. i = Len(disk) /\ disk[i].kind = "bare"
      BY <1>4, <3>1, <3>2, <3>3, <3>4, Exhausted
    <3> QED BY <2>1, <3>5 DEF LastRead, Filled
  <2> QED BY <2>3, <2>4
<1>5. ASSUME Over, CleanOf(disk) PROVE Wanted(disk, at) = {}
  BY <1>4, <1>5 DEF Wanted
<1> HIDE DEF Over
<1>6. Reached(EndOf(at)) /\ CleanOf(disk) => ToldIn(EndOf(at).recs) = Wanted(disk, at)
  BY <1>2, <1>3, <1>5, Zenon
<1> QED BY <1>1, <1>2, <1>6, Zenon DEF GoodRead

(* What is read after a record, and with it.                               *)
LEMMA AfterGood ==
  ASSUME Filled(disk), NEW at \in Nat, ~Ends(at), NEW v \in Answers, GoodRead(v, at + Rest(at).asks)
  PROVE  GoodRead(After(at, v), at)
<1> DEFINE n == Bytes(disk) - at
           k == Rest(at).asks
           rec == [at |-> at, len |-> k]
           i == Piece0(at)
<1>1. /\ n > MinRecLen /\ n \in Nat /\ n >= MinRecLen /\ at + n <= Bytes(disk) /\ at + n = Bytes(disk)
      /\ Bytes(disk) \in Nat
  <2>1. ~(Bytes(disk) - at <= MinRecLen)
    BY Zenon DEF Ends
  <2> QED BY <2>1, Places1, ConstantsAre DEF Constants1
<1>2. Rest(at) = ParseAt(at, n, FALSE) /\ FALSE \in BOOLEAN /\ Rest(at).result = "parsed" /\ ~(disk[i].picked /\ disk[i].bad)
  BY Zenon DEF Ends, Rest
<1>3. k \in Nat /\ k > 0 /\ rec \in HandedRecords
  BY RestIs
<1> HIDE DEF n
<1>4. \E j \in Starts :
        /\ Place(disk, j) = at /\ (CHOOSE l \in PieceAt(at) : TRUE) = j
        /\ disk[j].len \in MinRecLen..MaxRecLen
        /\ CleanOf(disk) => k <= disk[j].size
        /\ CleanOf(disk) => j < Len(disk) \/ (disk[j].kind = "record" /\ disk[j].len = k)
  <2>1. ParseAt(at, n, FALSE).result = "parsed"
    BY <1>2
  <2>2. \E j \in Starts :
          /\ Place(disk, j) = at /\ (CHOOSE l \in PieceAt(at) : TRUE) = j
          /\ ParseAt(at, n, FALSE).asks \in MinRecLen..MaxRecLen /\ ParseAt(at, n, FALSE).asks <= n
          /\ disk[j].len \in MinRecLen..MaxRecLen /\ (disk[j].crc => Whole(j))
          /\ CleanOf(disk) => ParseAt(at, n, FALSE).asks <= disk[j].size
          /\ CleanOf(disk) /\ ~FALSE =>
               j < Len(disk) \/ (disk[j].kind = "record" /\ disk[j].len = ParseAt(at, n, FALSE).asks)
    BY <1>1, <1>2, <2>1, Found
  <2> QED BY <1>2, <2>2
<1>5. /\ i \in Starts /\ Place(disk, i) = at /\ disk[i].len \in MinRecLen..MaxRecLen
      /\ CleanOf(disk) => k <= disk[i].size
      /\ CleanOf(disk) => i < Len(disk) \/ (disk[i].kind = "record" /\ disk[i].len = k)
  BY <1>4, Zenon DEF Piece0
<1> HIDE DEF i, k
<1>6. i \in DOMAIN disk /\ disk[i].kind # "other"
  BY <1>5 DEF Starts
<1>7. i \in ReadableOf(disk) <=> disk[i].picked
  BY <1>2, <1>5, <1>6 DEF ReadableOf
<1>8. ASSUME CleanOf(disk) PROVE LastRead(disk, i)
  <2>1. CASE i < Len(disk)
    BY <2>1, Zenon DEF LastRead
  <2>2. CASE ~(i < Len(disk))
    <3>1. i = Len(disk) /\ disk # <<>>
      BY <1>6, <2>2 DEF Filled
    <3>2. Place(disk, i) + disk[i].size = Bytes(disk)
      BY <3>1, Places1
    <3>3. disk[i].kind = "record" /\ disk[i].size = disk[i].len
      BY <1>5, <1>6, <1>8, <2>2 DEF CleanOf
    <3>4. disk[i].len = n
      BY <1>1, <1>5, <3>2, <3>3, ConstantsAre DEF Constants1
    <3> QED BY <1>1, <3>3, <3>4 DEF LastRead
  <2> QED BY <2>1, <2>2
<1>9. ASSUME CleanOf(disk)
      PROVE  Wanted(disk, at) = Wanted(disk, at + k) \cup {p \in {at} : disk[i].picked}
  <2>1. ASSUME NEW j \in ReadableOf(disk), Place(disk, j) >= at, j # i PROVE Place(disk, j) >= at + k
    <3>1. j \in DOMAIN disk
      BY DEF ReadableOf
    <3>2. Place(disk, j) >= Place(disk, i) + disk[i].size
      BY <1>5, <1>6, <2>1, <3>1, NextPlace
    <3>3. Place(disk, j) \in Nat /\ disk[i].size \in Nat
      BY <1>6, <3>1, Places1
    <3> QED BY <1>3, <1>5, <1>9, <3>2, <3>3 DEF k
  <2>2. ASSUME NEW j \in ReadableOf(disk), Place(disk, j) >= at + k PROVE Place(disk, j) >= at
    <3>1. Place(disk, j) \in Nat
      BY Places1 DEF ReadableOf
    <3> QED BY <1>3, <2>2, <3>1 DEF k
  <2>3. Wanted(disk, at) \subseteq Wanted(disk, at + k) \cup {p \in {at} : disk[i].picked}
    <3> SUFFICES ASSUME NEW p \in Wanted(disk, at), p \notin Wanted(disk, at + k)
                 PROVE  p = at /\ disk[i].picked
      OBVIOUS
    <3>1. PICK j \in ReadableOf(disk) : LastRead(disk, j) /\ Place(disk, j) >= at /\ p = Place(disk, j)
      BY Zenon DEF Wanted
    <3>2. j = i
      BY <2>1, <3>1, Zenon DEF Wanted
    <3> QED BY <1>5, <1>7, <3>1, <3>2
  <2>4. Wanted(disk, at + k) \subseteq Wanted(disk, at)
    BY <2>2, Zenon DEF Wanted
  <2>5. ASSUME disk[i].picked PROVE at \in Wanted(disk, at)
    <3>1. i \in ReadableOf(disk) /\ LastRead(disk, i) /\ Place(disk, i) = at /\ at >= at
      BY <1>5, <1>7, <1>8, <1>9, <2>5
    <3> QED BY <3>1 DEF Wanted
  <2> QED BY <2>3, <2>4, <2>5
<1>10. v.recs \in Seq(HandedRecords) /\ \A j \in DOMAIN v.recs : v.recs[j].at \in Nat
  BY AnswersAre, HandedAre
<1>11. GoodRead(v, at + k)
  BY DEF k
<1>12. CASE ~disk[i].picked
  <2>1. After(at, v) = v
    BY <1>12, Zenon DEF After, i
  <2>2. ASSUME NEW j \in DOMAIN v.recs PROVE v.recs[j].at >= at
    <3>1. v.recs[j].at >= at + k
      BY <1>11 DEF GoodRead
    <3> QED BY <1>3, <1>10, <3>1 DEF k
  <2>3. ASSUME CleanOf(disk) PROVE Wanted(disk, at) = Wanted(disk, at + k)
    BY <1>9, <1>12, <2>3
  <2>4. ASSUME Reached(v), CleanOf(disk) PROVE ToldIn(v.recs) = Wanted(disk, at)
    BY <1>11, <2>3, <2>4, Zenon DEF GoodRead
  <2>5. InOrderOf(v.recs)
    BY <1>11 DEF GoodRead
  <2> QED BY <2>1, <2>2, <2>4, <2>5 DEF GoodRead
<1>13. CASE disk[i].picked
  <2> DEFINE w == After(at, v)
  <2>1. w = [v EXCEPT !.recs = <<rec>> \o @]
    BY <1>13, Zenon DEF After, i, k
  <2>2. w \in Answers /\ w.ret = v.ret /\ w.recs = <<rec>> \o v.recs
    BY <1>3, <2>1, AnswersAre
  <2> HIDE DEF w
  <2>3. k \in Nat /\ k > 0
    BY <1>3 DEF k
  <2>4. /\ InOrderOf(w.recs) /\ \A j \in DOMAIN w.recs : w.recs[j].at >= at
        /\ ToldIn(w.recs) = {at} \cup ToldIn(v.recs)
    BY <1>11, <2>2, <2>3, ReadLess
  <2>5. ASSUME CleanOf(disk) PROVE Wanted(disk, at) = {at} \cup Wanted(disk, at + k)
    BY <1>9, <1>13, <2>5
  <2>6. Reached(w) => Reached(v)
    BY <2>2 DEF Reached
  <2>7. ASSUME Reached(w), CleanOf(disk) PROVE ToldIn(w.recs) = Wanted(disk, at)
    BY <1>11, <2>4, <2>5, <2>6, <2>7 DEF GoodRead
  <2>8. GoodRead(w, at)
    BY <2>2, <2>4, <2>7 DEF GoodRead
  <2> QED BY <2>8 DEF w
<1> QED BY <1>12, <1>13

(* What is read from any place on, by induction on the bytes left.         *)
LEMMA ReadGood ==
  ASSUME Filled(disk), NEW read, read = ReadBody(read), NEW at \in Nat
  PROVE  GoodRead(read[at], at)
<1> DEFINE size == Bytes(disk)
           T == {left \in Nat : \A a \in Nat : left = (IF a < size THEN size - a ELSE 0) => GoodRead(read[a], a)}
<1>1. size \in Nat
  BY Places1
<1>2. ASSUME NEW a \in Nat
      PROVE  read[a] = IF Ends(a) THEN EndOf(a) ELSE After(a, read[a + Rest(a).asks])
  <2>1. read[a] = ReadBody(read)[a]
    OBVIOUS
  <2> QED BY <2>1, BodyIs, Zenon
<1>3. ASSUME NEW left \in Nat, \A l \in Nat : l < left => l \in T PROVE left \in T
  <2> SUFFICES ASSUME NEW a \in Nat, left = (IF a < size THEN size - a ELSE 0) PROVE GoodRead(read[a], a)
    BY DEF T
  <2>1. CASE Ends(a)
    BY <1>2, <2>1, EndGood, Zenon
  <2>2. CASE ~Ends(a)
    <3>1. Rest(a).asks \in Nat /\ Rest(a).asks > 0 /\ a < size
      BY <2>2, RestIs
    <3>2. PICK b \in Nat : b = a + Rest(a).asks
      BY <3>1
    <3> DEFINE l == IF b < size THEN size - b ELSE 0
    <3>3. l \in Nat /\ l < left
      BY <1>1, <3>1, <3>2
    <3>4. l \in T
      BY <1>3, <3>3
    <3>5. GoodRead(read[b], b)
      BY <3>4 DEF T
    <3>6. read[b] \in Answers
      BY <3>5, Zenon DEF GoodRead
    <3>7. GoodRead(read[b], a + Rest(a).asks)
      BY <3>2, <3>5
    <3>8. GoodRead(After(a, read[b]), a)
      BY <2>2, <3>6, <3>7, AfterGood
    <3>9. read[a] = After(a, read[b])
      BY <1>2, <2>2, <3>2, Zenon
    <3> QED BY <3>8, <3>9
  <2> QED BY <2>1, <2>2
<1> HIDE DEF T
<1>4. T \in SUBSET Nat
  BY DEF T
<1>5. \A left \in Nat : left \in T
  BY <1>3, <1>4, StrongInduction
<1>6. (IF at < size THEN size - at ELSE 0) \in Nat
  BY <1>1
<1> QED BY <1>5, <1>6 DEF T

(* What ReadBuffer hands out.                                              *)
LEMMA ReadBufferIs ==
  ASSUME Filled(disk), ReadBuffer
  PROVE  \E v : ret' = v.ret /\ returned' = v.recs /\ GoodRead(v, 0)
<1> DEFINE read == CHOOSE g : g = ReadBody(g)
<1>1. ret' = read[0].ret /\ returned' = read[0].recs
  BY Zenon DEF ReadBuffer, ReadBody
<1>2. read = ReadBody(read)
  <2>1. \E g : g = ReadBody(g)
    BY ReadExists
  <2> QED BY <2>1, Zenon
<1> HIDE DEF read
<1>3. GoodRead(read[0], 0)
  BY <1>2, ReadGood
<1> QED BY <1>1, <1>3

-----------------------------------------------------------------------------
(* The invariant: what an open file and its records are, and what was read *)
(* from memory.                                                            *)
HasRead == ret = "read"
Pending == ret = ""
AtLast  == ret = "ENDOFFILE"
Closed  == msfp = <<>>

OpenWell == ~Closed => FileKept(disk, msfp, returned) /\ ~HasRead /\ (AtLast => Behind(disk, msfp))

BufferRead ==
  HasRead /\ CleanOf(disk) =>
    ToldIn(returned) = {Place(disk, i) : i \in {j \in ReadableOf(disk) : LastRead(disk, j)}}

FileInv ==
  /\ Filled(disk) /\ OpenWell /\ BufferRead
  /\ Closed => ~reading /\ InOrderOf(returned)

(* An open file is not a closed one.                                       *)
LEMMA NotEmpty ==
  ASSUME NEW m \in MS3FileParam
  PROVE  m # <<>>
<1>1. DOMAIN m = {"chunk", "skip", "start", "end", "from", "till", "streampos", "count", "length", "offset", "got", "eof"}
  BY DEF MS3FileParam
<1>2. DOMAIN <<>> = {}
  OBVIOUS
<1> QED BY <1>1, <1>2

(* No records are in order.                                                *)
LEMMA NothingHanded ==
  /\ InOrderOf(<<>>) /\ ToldIn(<<>>) = {}
  /\ \A streampos \in Nat : Handed(<<>>, streampos)
BY DEF InOrderOf, ToldIn, Range, Handed

(* The files that are there are laid out.                                  *)
LEMMA DisksFilled ==
  ASSUME NEW d \in Disks
  PROVE  Filled(d)
<1>1. \A i \in DOMAIN d : IsPiece(d[i]) /\ d[i].size > 0
  BY FilesAssumption
<1>2. PICK S : d \in Seq(S)
  BY FilesAssumption
<1>3. \A i \in DOMAIN d : d[i] \in Pieces
  BY <1>1 DEF Pieces, IsPiece, Kinds
<1>4. DOMAIN d = 1..Len(d) /\ Len(d) \in Nat /\ d = [i \in 1..Len(d) |-> d[i]]
  BY <1>2
<1>5. d \in Seq(Pieces)
  BY <1>3, <1>4
<1> QED BY <1>1, <1>5 DEF Filled

(* So is the empty one.                                                    *)
LEMMA Nothing1 == Filled(<<>>)
BY DEF Filled

(* Records are written to a file: what the fold of Write yields.           *)
Wrote(d, q) ==
  LET Add(pieces, c) == IF c.size = 0 THEN pieces ELSE Append(pieces, c)
  IN  FoldLeft(Add, d, q)

(* So is a file once records were written to it.                           *)
LEMMA WroteFilled ==
  ASSUME NEW d, Filled(d), NEW q \in Seq(Pieces)
  PROVE  Filled(Wrote(d, q))
<1> DEFINE n == Len(q)
           S == SUBSET (1..n)
           V == {e \in Seq(Pieces) : Filled(e)}
           Add(pieces, c) == IF c.size = 0 THEN pieces ELSE Append(pieces, c)
           Fold(f) == [s \in S |-> IF s = {} THEN d ELSE Add(f[s \ {Max(s)}], q[Max(s)])]
           fold == CHOOSE f : f = Fold(f)
<1>1. n \in Nat /\ DOMAIN q = 1..n /\ \A i \in 1..n : q[i] \in Pieces
  OBVIOUS
<1>2. Wrote(d, q) = fold[1..n]
  BY <1>1, Zenon DEF Wrote, FoldLeft, MapThenFoldSet
<1>3. ASSUME NEW s \in S, s # {}
      PROVE  Max(s) \in s /\ \A k \in s : k <= Max(s)
  <2>1. s \in SUBSET Nat /\ \A k \in s : k <= n
    BY <1>1, <1>3
  <2>2. \E m \in s : \A k \in s : k <= m
    BY <1>1, <1>3, <2>1, GreatestNumber, Zenon
  <2>3. \E m \in s : \A k \in s : m >= k
    BY <2>1, <2>2
  <2>4. Max(s) \in s /\ \A k \in s : Max(s) >= k
    BY <2>3 DEF Max
  <2> QED BY <2>1, <2>4
<1>4. ASSUME NEW pieces \in V, NEW c \in Pieces PROVE Add(pieces, c) \in V
  <2>1. CASE c.size = 0
    BY <2>1
  <2>2. CASE c.size # 0
    <3>1. c.size > 0
      BY <2>2 DEF Pieces
    <3>9. pieces \in Seq(Pieces) /\ Filled(pieces)
      OBVIOUS
    <3>2. PICK more \in Seq(Pieces) : more = Append(pieces, c)
      BY <3>9, AppendProperties
    <3>3. pieces \in Seq(Pieces) /\ \A i \in 1..Len(pieces) : pieces[i].size > 0
      BY <3>9 DEF Filled
    <3>4. Len(more) = Len(pieces) + 1 /\ \A i \in 1..Len(more) : more[i] = IF i <= Len(pieces) THEN pieces[i] ELSE c
      BY <3>2, <3>3
    <3>5. \A i \in 1..Len(more) : more[i].size > 0
      BY <3>1, <3>3, <3>4
    <3>6. Filled(more)
      BY <3>2, <3>5 DEF Filled
    <3> QED BY <2>2, <3>2, <3>6
  <2> QED BY <2>1, <2>2
<1>5. d \in V
  BY DEF Filled
<1> HIDE DEF V, Add
<1> DEFINE top == [s \in S |-> IF s = {} THEN 1 ELSE Max(s)]
           rank == [s \in S |-> Cardinality(s)]
           parent == [s \in S |-> s \ {top[s]}]
           base == [s \in S |-> d]
           step == [s \in S |-> [v \in V |-> IF s = {} THEN v ELSE Add(v, q[top[s]])]]
<1>6. \A s \in S : s # {} => top[s] = Max(s) /\ top[s] \in s /\ s \ {top[s]} \in S /\ q[top[s]] \in Pieces
  BY <1>1, <1>3
<1>7. \A s \in S : Cardinality(s) \in Nat /\ (s # {} => Cardinality(s \ {top[s]}) < Cardinality(s))
  <2> TAKE s \in S
  <2> HIDE DEF top
  <2>1. IsFiniteSet(1..n)
    BY <1>1, FS_Interval
  <2>2. IsFiniteSet(s) /\ Cardinality(s) \in Nat
    BY <2>1, FS_Subset, FS_CardinalityType
  <2>3. s # {} => Cardinality(s \ {top[s]}) = Cardinality(s) - 1
    BY <1>6, <2>2, FS_RemoveElement
  <2> QED BY <2>2, <2>3
<1>8. \A m \in 0..n : 1..m \in S
  BY <1>1
<1> HIDE DEF S, top, n
<1>9. rank \in [S -> Nat] /\ parent \in [S -> S] /\ base \in [S -> V]
  <2>1. \A s \in S : s \ {top[s]} \in S
    BY DEF S
  <2>2. \A s \in S : Cardinality(s) \in Nat
    BY <1>7
  <2>3. rank \in [S -> Nat]
    BY <2>2, Zenon
  <2>4. parent \in [S -> S]
    BY <2>1, Zenon
  <2>5. base \in [S -> V]
    BY <1>5, Zenon
  <2> QED BY <2>3, <2>4, <2>5
<1>10. step \in [S -> [V -> V]]
  BY <1>4, <1>6, Zenon
<1>11. \A s \in S \ {{}} : rank[parent[s]] < rank[s]
  BY <1>6, <1>7
<1>12. \A s \in S : /\ base[s] = d /\ parent[s] = s \ {top[s]}
                    /\ \A v \in V : step[s][v] = IF s = {} THEN v ELSE Add(v, q[top[s]])
  BY Zenon
<1> HIDE DEF rank, parent, base, step
<1>13. PICK f \in [S -> V] : \A s \in S : Follows(f, s, parent, {{}}, base, step)
  BY <1>9, <1>10, <1>11, Recursion
<1>14. ASSUME NEW s \in S
       PROVE  f[s] = IF s = {} THEN d ELSE Add(f[s \ {Max(s)}], q[Max(s)])
  <2>1. f[s] = IF s = {} THEN d ELSE step[s][f[parent[s]]]
    BY <1>12, <1>13 DEF Follows
  <2>2. f[parent[s]] \in V
    BY <1>9, <1>13
  <2>3. step[s][f[parent[s]]] = IF s = {} THEN f[parent[s]] ELSE Add(f[parent[s]], q[top[s]])
    BY <1>12, <2>2, Zenon
  <2>4. CASE s = {}
    BY <2>1, <2>4
  <2>5. CASE s # {}
    <3>1. top[s] = Max(s) /\ parent[s] = s \ {top[s]}
      BY <1>6, <1>12, <2>5, Zenon
    <3> QED BY <2>1, <2>3, <2>5, <3>1
  <2> QED BY <2>4, <2>5
<1>15. f = Fold(f)
  BY <1>14
<1>16. fold = Fold(fold)
  <2> HIDE DEF Fold
  <2> QED BY <1>15
<1>17. \A s \in S : fold[s] = IF s = {} THEN d ELSE Add(fold[s \ {Max(s)}], q[Max(s)])
  <2> HIDE DEF fold
  <2>1. \A s \in S : Fold(fold)[s] = IF s = {} THEN d ELSE Add(fold[s \ {Max(s)}], q[Max(s)])
    OBVIOUS
  <2> HIDE DEF Fold
  <2> QED BY <1>16, <2>1
<1> HIDE DEF fold
<1> DEFINE T == {m \in Nat : m <= n => fold[1..m] \in V}
<1>18. 0 \in T
  <2>1. 1..0 = {} /\ 0 \in 0..n
    BY <1>1
  <2>2. 1..0 \in S
    BY <1>8, <2>1, Zenon
  <2>3. fold[1..0] = d
    BY <1>17, <2>1, <2>2
  <2> QED BY <1>5, <2>3
<1>19. ASSUME NEW m \in T PROVE m + 1 \in T
  <2> SUFFICES ASSUME m + 1 <= n PROVE fold[1..(m + 1)] \in V
    BY <1>19
  <2>1. m \in Nat /\ m + 1 \in 0..n /\ m + 1 \in 1..n /\ fold[1..m] \in V
    BY <1>1, <1>19
  <2>2. 1..(m + 1) \in S /\ m + 1 \in 1..(m + 1) /\ 1..(m + 1) # {}
    <3>1. 1..(m + 1) \in S
      BY <1>8, <2>1, Zenon
    <3>2. m + 1 \in 1..(m + 1)
      BY <2>1
    <3> QED BY <3>1, <3>2
  <2>3. Max(1..(m + 1)) \in 1..(m + 1) /\ \A k \in 1..(m + 1) : k <= Max(1..(m + 1))
    BY <1>3, <2>2
  <2>4. Max(1..(m + 1)) = m + 1
    BY <2>1, <2>2, <2>3
  <2>5. (1..(m + 1)) \ {m + 1} = 1..m
    BY <2>1
  <2>6. fold[1..(m + 1)] = Add(fold[1..m], q[m + 1])
    BY <1>17, <2>2, <2>4, <2>5
  <2>7. q[m + 1] \in Pieces
    BY <1>1, <2>1
  <2> QED BY <1>4, <2>1, <2>6, <2>7
<1> HIDE DEF T
<1>20. T \in SUBSET Nat
  BY DEF T
<1>21. \A m \in Nat : m \in T
  BY <1>18, <1>19, <1>20, Induction
<1>22. fold[1..n] \in V
  BY <1>1, <1>21 DEF T
<1> QED BY <1>2, <1>22 DEF V

(* The batch that is written, whole or torn.                               *)
LEMMA TornIs ==
  ASSUME NEW batch \in Batch, NEW sizes \in [DOMAIN batch -> Torn \cup {0, MaxRecLen}]
  PROVE  [i \in DOMAIN batch |-> [batch[i] EXCEPT !.size = Least2(sizes[i], @)]] \in Seq(Pieces)
<1> DEFINE written == [i \in DOMAIN batch |-> [batch[i] EXCEPT !.size = Least2(sizes[i], @)]]
<1>1. PICK S : batch \in Seq(S)
  BY FilesAssumption
<1>2. DOMAIN batch = 1..Len(batch) /\ Len(batch) \in Nat
  BY <1>1
<1>3. ASSUME NEW i \in DOMAIN batch PROVE written[i] \in Pieces
  <2>1. IsPiece(batch[i])
    BY FilesAssumption
  <2>2. sizes[i] \in Nat
    <3>1. Torn \subseteq Nat
      BY FilesAssumption, Zenon
    <3>2. sizes[i] \in Torn \cup {0, MaxRecLen}
      OBVIOUS
    <3>3. 0 \in Nat /\ MaxRecLen \in Nat
      BY ConstantsAre DEF Constants1
    <3> QED BY <3>1, <3>2, <3>3, Zenon
  <2>3. Least2(sizes[i], batch[i].size) \in Nat
    BY <2>1, <2>2 DEF Least2, IsPiece
  <2>4. PICK n \in Nat : written[i] = [batch[i] EXCEPT !.size = n]
    BY <2>3
  <2> HIDE DEF written
  <2>5. PICK b : b = batch[i]
    OBVIOUS
  <2>6. PICK c : c = [b EXCEPT !.size = n]
    OBVIOUS
  <2>7. /\ b \in [kind : {"record", "bare", "other"}, version : {2, 3}, len : Nat, size : Nat,
                  crc : BOOLEAN, picked : BOOLEAN, bad : BOOLEAN]
        /\ b.kind = "bare" => b.version = 2 /\ PowerOfTwo(b.len)
        /\ b.kind # "other" /\ b.version = 2 => b.len >= 64
    BY <2>1, <2>5 DEF IsPiece
  <2>8. /\ c \in [kind : {"record", "bare", "other"}, version : {2, 3}, len : Nat, size : Nat,
                  crc : BOOLEAN, picked : BOOLEAN, bad : BOOLEAN]
        /\ c.kind = b.kind /\ c.version = b.version /\ c.len = b.len
    BY <2>6, <2>7
  <2>9. IsPiece(c)
    BY <2>7, <2>8 DEF IsPiece
  <2>10. c \in Pieces
    BY <2>8, <2>9 DEF Pieces, Kinds
  <2> QED BY <2>4, <2>5, <2>6, <2>10
<1>4. written \in [1..Len(batch) -> Pieces]
  BY <1>2, <1>3
<1> HIDE DEF written
<1>5. written \in Seq(Pieces)
  BY <1>2, <1>4
<1> QED BY <1>5 DEF written

-----------------------------------------------------------------------------
(* A file that was opened is where its reading starts.                     *)
OpenedAs(o, end, from, till) ==
  [chunk |-> o.chunk, skip |-> o.skip, start |-> o.start, end |-> end, from |-> from, till |-> till,
   streampos |-> o.start, count |-> 0, length |-> 0, offset |-> 0, got |-> 0, eof |-> FALSE]

(* A file opened at from has nothing to be handed out before it.           *)
LEMMA OpenedWell ==
  ASSUME Filled(disk), NEW o \in Ways, NEW end \in Nat, NEW from \in Nat, NEW till \in Nat, till <= Bytes(disk),
         NEW m, m = OpenedAs(o, end, from, till)
  PROVE  FileKept(disk, m, <<>>)
<1>1. o.chunk \in Nat /\ o.skip \in BOOLEAN /\ o.start \in Nat
  BY DEF Ways
<1>2. 0 \in 0..MaxRecLen /\ FALSE \in BOOLEAN
  BY ConstantsAre DEF Constants1
<1>3. m \in MS3FileParam
  BY <1>1, <1>2 DEF OpenedAs, MS3FileParam
<1>4. /\ m.start = o.start /\ m.from = from /\ m.till = till /\ m.streampos = o.start
      /\ m.length = 0 /\ m.offset = 0 /\ m.got = 0 /\ m.eof = FALSE
  BY DEF OpenedAs
<1>5. Positioned(m, Bytes(disk))
  BY <1>1, <1>3, <1>4 DEF Positioned, Buffered
<1>6. Handed(<<>>, m.streampos)
  BY <1>1, <1>4, NothingHanded
<1>7. Sound(disk, m, <<>>)
  BY NothingHanded DEF Sound
<1>8. Complete(disk, m, <<>>)
  <2> SUFFICES ASSUME NEW i \in ReadableOf(disk), Place(disk, i) >= m.from, OffsetIn(disk, m, i) < m.streampos
               PROVE  FALSE
    BY DEF Complete
  <2>1. Place(disk, i) \in Nat
    BY Places1 DEF ReadableOf
  <2> QED BY <1>1, <1>4, <2>1 DEF OffsetIn
<1> QED BY <1>5, <1>6, <1>7, <1>8 DEF FileKept

(* Any way a file is opened is such.                                       *)
LEMMA SourceIs ==
  ASSUME Filled(disk), disk # <<>>, NEW o \in Ways, NEW m \in Source(o)
  PROVE  FileKept(disk, m, <<>>)
<1> DEFINE size == Bytes(disk)
           last == IF o.end > 0 THEN Least2(size, o.end + 1) ELSE size
           Sent(from, till) == {till, Least2(till, from + o.chunk)}
<1>1. o.chunk \in Nat /\ o.skip \in BOOLEAN /\ o.start \in Nat /\ o.end \in Nat
  BY DEF Ways
<1>2. size \in Nat /\ size > 0
  <2>1. Len(disk) \in DOMAIN disk
    BY DEF Filled
  <2>2. /\ Place(disk, Len(disk)) \in Nat /\ disk[Len(disk)].size \in Nat \ {0}
        /\ Place(disk, Len(disk)) + disk[Len(disk)].size <= size /\ size \in Nat
    BY <2>1, Places1
  <2> QED BY <2>2
<1>3. m \in (IF o.chunk = 0 THEN {OpenedAs(o, o.end, o.start, size)}
             ELSE {OpenedAs(o, o.end, 0, till) : till \in Sent(0, size)}
                  \cup IF o.start = 0 /\ o.end = 0 THEN {}
                       ELSE {OpenedAs(o, last - 1, o.start, till) : till \in Sent(o.start, last)})
  BY Zenon DEF Source, OpenedAs
<1> HIDE DEF size
<1>4. last \in Nat /\ last <= size /\ last - 1 \in Nat
  BY <1>1, <1>2 DEF Least2
<1> HIDE DEF last
<1>5. \A from \in Nat : \A till \in Nat : till <= size => \A t \in Sent(from, till) : t \in Nat /\ t <= size
  BY <1>1, <1>2 DEF Least2
<1> HIDE DEF Sent
<1>6. \E end, from, till \in Nat : till <= size /\ m = OpenedAs(o, end, from, till)
  <2>1. CASE o.chunk = 0
    BY <1>1, <1>2, <1>3, <2>1
  <2>2. CASE o.chunk # 0 /\ m \in {OpenedAs(o, o.end, 0, till) : till \in Sent(0, size)}
    <3>1. PICK till \in Sent(0, size) : m = OpenedAs(o, o.end, 0, till)
      BY <2>2
    <3>2. till \in Nat /\ till <= size
      BY <1>2, <1>5
    <3> QED BY <1>1, <3>1, <3>2
  <2>3. CASE o.chunk # 0 /\ m \in {OpenedAs(o, last - 1, o.start, till) : till \in Sent(o.start, last)}
    <3>1. PICK till \in Sent(o.start, last) : m = OpenedAs(o, last - 1, o.start, till)
      BY <2>3
    <3>2. till \in Nat /\ till <= size
      BY <1>1, <1>4, <1>5
    <3> QED BY <1>1, <1>4, <3>1, <3>2
  <2> QED BY <1>3, <2>1, <2>2, <2>3
<1> QED BY <1>6, OpenedWell DEF size

(* What is kept while a file is open.                                      *)
LEMMA OpenMeans ==
  ASSUME NEW d, NEW m, NEW rs, FileKept(d, m, rs)
  PROVE  m # <<>> /\ InOrderOf(rs)
<1>1. m \in MS3FileParam
  BY DEF FileKept, Positioned
<1> QED BY <1>1, NotEmpty DEF FileKept, Handed

-----------------------------------------------------------------------------
(* The invariant holds from the start on, and every action keeps it.       *)
WaysAre == \A d : Filled(d) => Opens(d) \subseteq Ways

(* It holds at first.                                                      *)
LEMMA FileInvInit ==
  ASSUME FileInit
  PROVE  FileInv
<1>1. disk = <<>> /\ Closed /\ reading = FALSE /\ returned = <<>>
  BY DEF FileInit, Closed
<1>2. Pending
  BY Zenon DEF FileInit, Pending
<1>3. ~HasRead
  BY <1>2 DEF HasRead, Pending
<1> QED BY <1>1, <1>3, Nothing1, NothingHanded DEF FileInv, OpenWell, BufferRead

(* A call that is not over has returned nothing.                           *)
LEMMA PendingIs == (Pending => ~HasRead /\ ~AtLast) /\ (Pending' => ~HasRead' /\ ~AtLast')
BY DEF Pending, HasRead, AtLast

(* A file appears.                                                         *)
LEMMA FileInvAppears ==
  ASSUME FileInv, FileAppears
  PROVE  FileInv'
<1>1. disk' \in Disks /\ Closed /\ Closed' /\ UNCHANGED <<reading, returned>>
  BY Zenon DEF FileAppears, FileIdle, Closed
<1>2. Pending'
  BY Zenon DEF FileAppears, Pending
<1>3. Filled(disk')
  BY <1>1, DisksFilled
<1>4. ~HasRead'
  BY <1>2, PendingIs
<1>5. ~reading' /\ InOrderOf(returned')
  BY <1>1 DEF FileInv
<1> QED BY <1>1, <1>3, <1>4, <1>5 DEF FileInv, OpenWell, BufferRead

(* Records are written.                                                    *)
LEMMA FileInvWrite ==
  ASSUME FileInv, Write
  PROVE  FileInv'
<1>1. Closed /\ Closed' /\ reading' = reading /\ returned' = <<>> /\ ret' = "written"
  BY Zenon DEF Write, Closed
<1>2. ~HasRead'
  BY <1>1 DEF HasRead
<1>3. Filled(disk')
  <2>1. \E overwrite \in BOOLEAN, batch \in Batch : \E sizes \in [DOMAIN batch -> Torn \cup {0, MaxRecLen}] :
          disk' = Wrote(IF overwrite THEN <<>> ELSE disk,
                        [i \in DOMAIN batch |-> [batch[i] EXCEPT !.size = Least2(sizes[i], @)]])
    BY Zenon DEF Write, Wrote
  <2>4. PICK overwrite \in BOOLEAN, batch \in Batch : \E sizes \in [DOMAIN batch -> Torn \cup {0, MaxRecLen}] :
          disk' = Wrote(IF overwrite THEN <<>> ELSE disk,
                        [i \in DOMAIN batch |-> [batch[i] EXCEPT !.size = Least2(sizes[i], @)]])
    BY <2>1, Zenon
  <2>5. PICK sizes \in [DOMAIN batch -> Torn \cup {0, MaxRecLen}] :
          disk' = Wrote(IF overwrite THEN <<>> ELSE disk,
                        [i \in DOMAIN batch |-> [batch[i] EXCEPT !.size = Least2(sizes[i], @)]])
    BY <2>4, Zenon
  <2>2. Filled(IF overwrite THEN <<>> ELSE disk)
    BY Nothing1 DEF FileInv
  <2>3. [i \in DOMAIN batch |-> [batch[i] EXCEPT !.size = Least2(sizes[i], @)]] \in Seq(Pieces)
    BY TornIs
  <2> QED BY <2>5, <2>2, <2>3, WroteFilled, Zenon
<1>4. ~reading' /\ InOrderOf(returned')
  BY <1>1, NothingHanded DEF FileInv
<1> QED BY <1>1, <1>2, <1>3, <1>4 DEF FileInv, OpenWell, BufferRead

(* A file is opened.                                                       *)
LEMMA FileInvOpen ==
  ASSUME FileInv, WaysAre, ms3_open
  PROVE  FileInv'
<1>1. disk # <<>> /\ returned' = <<>> /\ disk' = disk /\ Filled(disk)
  BY Zenon DEF ms3_open, FileInv
<1>2. Pending'
  BY Zenon DEF ms3_open, Pending
<1>3. PICK o \in Opens(disk) : msfp' \in Source(o)
  BY Zenon DEF ms3_open
<1>4. o \in Ways
  BY <1>1 DEF WaysAre
<1>5. FileKept(disk', msfp', returned')
  BY <1>1, <1>3, <1>4, SourceIs
<1>6. ~Closed'
  BY <1>5, OpenMeans DEF Closed
<1>7. ~HasRead' /\ ~AtLast'
  BY <1>2, PendingIs
<1> QED BY <1>1, <1>5, <1>6, <1>7 DEF FileInv, OpenWell, BufferRead

(* A pass of ms3_readmsr_selection().                                      *)
LEMMA FileInvPass ==
  ASSUME FileInv, ReadPass
  PROVE  FileInv'
<1>1. PICK r \in Passes(msfp) : msfp' = r.msfp /\ ret' = r.ret /\ returned' = Recorded(msfp, r, returned)
  BY Zenon DEF ReadPass, Recorded
<1>2. disk' = disk /\ Filled(disk) /\ ~Closed
  BY Zenon DEF ReadPass, FileInv
<1>3. FileKept(disk, msfp, returned)
  BY <1>2 DEF FileInv, OpenWell
<1>4. PassWell(msfp, r, returned)
  BY <1>2, <1>3, PassesWell
<1>5. FileKept(disk', msfp', returned')
  BY <1>1, <1>2, <1>4 DEF PassWell
<1>6. ~HasRead' /\ (AtLast' => Behind(disk', msfp'))
  BY <1>1, <1>2, <1>4 DEF PassWell, HasRead, AtLast
<1>7. ~Closed'
  BY <1>5, OpenMeans DEF Closed
<1> QED BY <1>2, <1>5, <1>6, <1>7 DEF FileInv, OpenWell, BufferRead

(* Its next call.                                                          *)
LEMMA FileInvNext ==
  ASSUME FileInv, NextRecord
  PROVE  FileInv'
<1>1. ~Closed /\ ~Closed' /\ UNCHANGED <<disk, msfp, returned>>
  BY Zenon DEF NextRecord, Closed
<1>2. Pending'
  BY Zenon DEF NextRecord, Pending
<1>3. ~HasRead' /\ ~AtLast'
  BY <1>2, PendingIs
<1>4. FileKept(disk', msfp', returned') /\ Filled(disk')
  BY <1>1 DEF FileInv, OpenWell
<1> QED BY <1>1, <1>3, <1>4 DEF FileInv, OpenWell, BufferRead

(* The file is closed.                                                     *)
LEMMA FileInvClose ==
  ASSUME FileInv, CloseFile
  PROVE  FileInv'
<1>1. ~Closed /\ Closed' /\ ~reading /\ UNCHANGED <<disk, reading, returned>>
  BY Zenon DEF CloseFile, Closed
<1>2. ret' = "closed" \/ ret' = "listed" \/ ret' = ret
  BY DEF CloseFile
<1>3. FileKept(disk, msfp, returned) /\ ~HasRead
  BY <1>1 DEF FileInv, OpenWell
<1>4. ~HasRead'
  BY <1>2, <1>3 DEF HasRead
<1>5. ~reading' /\ InOrderOf(returned')
  BY <1>1, <1>3, OpenMeans
<1> QED BY <1>1, <1>4, <1>5 DEF FileInv, OpenWell, BufferRead

(* Reading from memory.                                                    *)
LEMMA FileInvBuffer ==
  ASSUME FileInv, ReadBuffer
  PROVE  FileInv'
<1>1. Closed /\ Closed' /\ UNCHANGED <<disk, reading>> /\ Filled(disk) /\ ~reading
  BY Zenon DEF ReadBuffer, FileInv, Closed
<1>2. PICK v : ret' = v.ret /\ returned' = v.recs /\ GoodRead(v, 0)
  BY <1>1, ReadBufferIs
<1>3. InOrderOf(returned')
  BY <1>2 DEF GoodRead
<1>4. HasRead' => Reached(v)
  BY <1>2 DEF HasRead, Reached
<1>5. Wanted(disk, 0) = {Place(disk, i) : i \in {j \in ReadableOf(disk) : LastRead(disk, j)}}
  <2>1. \A j \in ReadableOf(disk) : Place(disk, j) >= 0
    <3> TAKE j \in ReadableOf(disk)
    <3>1. j \in DOMAIN disk
      BY DEF ReadableOf
    <3>2. Place(disk, j) \in Nat
      BY <1>1, <3>1, Places1
    <3> QED BY <3>2
  <2>2. {j \in ReadableOf(disk) : LastRead(disk, j) /\ Place(disk, j) >= 0} = {j \in ReadableOf(disk) : LastRead(disk, j)}
    BY <2>1, Zenon
  <2> QED BY <2>2, Zenon DEF Wanted
<1>6. BufferRead'
  <2>1. ASSUME HasRead', CleanOf(disk) PROVE ToldIn(returned') = Wanted(disk, 0)
    BY <1>2, <1>4, <2>1, Zenon DEF GoodRead
  <2> QED BY <1>1, <1>5, <2>1, Zenon DEF BufferRead
<1> QED BY <1>1, <1>3, <1>6 DEF FileInv, OpenWell

(* The file is left.                                                       *)
LEMMA FileInvEnds ==
  ASSUME FileInv, FileEnds
  PROVE  FileInv'
<1>1. disk' = <<>> /\ Closed /\ Closed' /\ reading' = reading /\ returned' = <<>>
  BY Zenon DEF FileEnds, Closed
<1>2. Pending'
  BY Zenon DEF FileEnds, Pending
<1>3. ~HasRead'
  BY <1>2, PendingIs
<1>4. ~reading' /\ InOrderOf(returned') /\ Filled(disk')
  BY <1>1, NothingHanded, Nothing1 DEF FileInv
<1> QED BY <1>1, <1>3, <1>4 DEF FileInv, OpenWell, BufferRead

(* Nothing changes.                                                        *)
LEMMA FileInvStutters ==
  ASSUME FileInv, UNCHANGED filevars
  PROVE  FileInv'
<1>1. UNCHANGED <<disk, msfp, reading, ret, returned>>
  BY DEF filevars
<1> QED BY <1>1, Zenon DEF FileInv, OpenWell, BufferRead, HasRead, AtLast, Closed

(* Every step keeps it.                                                    *)
LEMMA FileInvStep ==
  ASSUME FileInv, WaysAre, [FilesNext]_filevars
  PROVE  FileInv'
<1>1. CASE FileAppears
  BY <1>1, FileInvAppears
<1>2. CASE Write
  BY <1>2, FileInvWrite
<1>3. CASE ms3_open
  BY <1>3, FileInvOpen
<1>4. CASE ReadPass
  BY <1>4, FileInvPass
<1>5. CASE NextRecord
  BY <1>5, FileInvNext
<1>6. CASE CloseFile
  BY <1>6, FileInvClose
<1>7. CASE ReadBuffer
  BY <1>7, FileInvBuffer
<1>8. CASE FileEnds
  BY <1>8, FileInvEnds
<1>9. CASE UNCHANGED filevars
  BY <1>9, FileInvStutters
<1> QED BY <1>1, <1>2, <1>3, <1>4, <1>5, <1>6, <1>7, <1>8, <1>9, Zenon DEF FilesNext

(* The names of Files for what is said of a file here.                     *)
LEMMA SameNames ==
  /\ Readable = ReadableOf(disk) /\ (Clean <=> CleanOf(disk)) /\ Told = ToldIn(returned)
  /\ (InOrder <=> InOrderOf(returned)) /\ \A i : PlaceOf(i) = Place(disk, i)
<1>1. Readable = ReadableOf(disk)
  BY Zenon DEF Readable, ReadableOf
<1>2. Clean <=> CleanOf(disk)
  BY Zenon DEF Clean, CleanOf, Whole
<1>3. Told = ToldIn(returned) /\ (InOrder <=> InOrderOf(returned)) /\ \A i : PlaceOf(i) = Place(disk, i)
  BY Zenon DEF Told, ToldIn, InOrder, InOrderOf, PlaceOf, Place
<1> QED BY <1>1, <1>2, <1>3

(* FileKept is ReadFrom, and Behind its last part.                         *)
LEMMA KeptReads ==
  ASSUME FileInv, msfp # <<>>
  PROVE  ReadFrom(msfp)
<1> DEFINE m == msfp
           Offset(i) == PlaceOf(i) - m.from + m.start
           Unmeasured1 == \E i \in DOMAIN disk : disk[i].kind = "bare"
           InRange(i) == /\ Unmeasured1 => m.till = Bytes(disk)
                         /\ PlaceOf(i) + disk[i].len <= m.till /\ (m.end > 0 => Offset(i) + disk[i].len <= m.end + 1)
<1>1. FileKept(disk, m, returned) /\ (AtLast => Behind(disk, m))
  BY DEF FileInv, OpenWell, Closed
<1>2. \A i : Offset(i) = OffsetIn(disk, m, i)
  BY SameNames, Zenon DEF OffsetIn
<1>3. \A i : InRange(i) <=> InRangeOf(disk, m, i)
  BY <1>2, SameNames, Zenon DEF InRangeOf
<1> HIDE DEF Offset, InRange
<1>4. m.streampos - m.start = m.got - Buffered(m)
  BY <1>1 DEF FileKept, Positioned
<1>5. \A at \in Told : \E i \in Readable : Offset(i) = at /\ (disk[i].crc => Whole(i))
  BY <1>1, <1>2, SameNames, Zenon DEF FileKept, Sound, Whole
<1>6. ASSUME Clean, NEW i \in Readable, PlaceOf(i) >= m.from, Offset(i) < m.streampos \/ (AtLast /\ InRange(i))
      PROVE  Offset(i) \in Told
  <2>1. CleanOf(disk) /\ i \in ReadableOf(disk) /\ Place(disk, i) >= m.from
    BY <1>6, SameNames, Zenon
  <2>2. OffsetIn(disk, m, i) < m.streampos
    BY <1>1, <1>2, <1>3, <1>6, <2>1, Zenon DEF Behind
  <2>3. OffsetIn(disk, m, i) \in ToldIn(returned)
    BY <1>1, <2>1, <2>2, Zenon DEF FileKept, Complete
  <2> QED BY <1>2, <2>3, SameNames, Zenon
<1> QED BY <1>4, <1>5, <1>6, Zenon DEF ReadFrom, AtLast, Offset, InRange

(* The invariant implies the property.                                     *)
LEMMA InvReads ==
  ASSUME FileInv
  PROVE  RecordsRead
<1>1. InOrder
  <2>1. CASE Closed
    BY <2>1, SameNames DEF FileInv
  <2>2. CASE ~Closed
    <3>1. FileKept(disk, msfp, returned)
      BY <2>2 DEF FileInv, OpenWell
    <3> QED BY <3>1, OpenMeans, SameNames
  <2> QED BY <2>1, <2>2
<1>2. msfp # <<>> => ReadFrom(msfp)
  BY KeptReads
<1>3. HasRead /\ Clean =>
        LET Read(j) == j < Len(disk) \/ (disk[j].kind = "record" /\ disk[j].len > MinRecLen)
        IN  Told = {PlaceOf(i) : i \in {j \in Readable : Read(j)}}
  <2>1. {Place(disk, i) : i \in {j \in ReadableOf(disk) : LastRead(disk, j)}}
          = {PlaceOf(i) : i \in {j \in Readable : j < Len(disk) \/ (disk[j].kind = "record" /\ disk[j].len > MinRecLen)}}
    BY SameNames, Zenon DEF LastRead, PlaceOf, Place
  <2> QED BY <2>1, SameNames, Zenon DEF FileInv, BufferRead
<1> QED BY <1>1, <1>2, <1>3, Zenon DEF RecordsRead, HasRead

(* Whatever is in a file, however it was written, opened and delivered:    *)
(* the records that ms3_readmsr_selection() and                            *)
(* mstl3_readbuffer_selection() hand out are those of the file, in their   *)
(* order and each once, at the offsets that are given; and in a file of    *)
(* whole records none is missing before the position of the reading, or    *)
(* once its end is reported.  A way to open a file is any start, end and   *)
(* chunk that are natural numbers.                                         *)
THEOREM RecordsAreRead ==
  ASSUME \A d : Filled(d) => Opens(d) \subseteq Ways
  PROVE  FilesSpec => []RecordsRead
<1>1. WaysAre
  BY Zenon DEF WaysAre
<1>2. FileInit => FileInv
  BY FileInvInit
<1>3. FileInv /\ [FilesNext]_filevars => FileInv'
  BY <1>1, FileInvStep
<1>4. FileInv => RecordsRead
  BY InvReads
<1> QED BY <1>2, <1>3, <1>4, PTL DEF FilesSpec

-----------------------------------------------------------------------------
(* The parser, given the first bytes of a record.                          *)

(* The lengths of records of version 2.                                    *)
LEMMA LengthIs ==
  ASSUME NEW n \in PowersOfTwo
  PROVE  PowerOfTwo(n) /\ n \in Nat /\ n >= 128 /\ n + 100 <= MaxRecLen /\ n % 64 = 0
<1>1. PICK i \in 7..17 : n = 2 ^ i
  BY DEF PowersOfTwo
<1>2. i \in 0..17
  OBVIOUS
<1>3. PowerOfTwo(n)
  BY <1>1, <1>2, Zenon DEF PowerOfTwo
<1>4. n >= 128
  <2>1. i \in {7, 8, 9, 10, 11, 12, 13, 14, 15, 16, 17}
    BY SMT
  <2>2. /\ 2 ^ 7 = 128 /\ 2 ^ 8 = 256 /\ 2 ^ 9 = 512
        /\ 2 ^ 10 = 1024 /\ 2 ^ 11 = 2048 /\ 2 ^ 12 = 4096 /\ 2 ^ 13 = 8192 /\ 2 ^ 14 = 16384
        /\ 2 ^ 15 = 32768 /\ 2 ^ 16 = 65536 /\ 2 ^ 17 = 131072
    BY SMT
  <2> DEFINE power == [k \in 0..17 |-> 2 ^ k]
  <2>3. n = power[i]
    BY <1>1, <1>2, SMT
  <2>4. \A k \in 0..17 : power[k] = 2 ^ k
    BY SMT
  <2> HIDE DEF power
  <2>5. /\ power[7] = 128 /\ power[8] = 256 /\ power[9] = 512
        /\ power[10] = 1024 /\ power[11] = 2048 /\ power[12] = 4096 /\ power[13] = 8192 /\ power[14] = 16384
        /\ power[15] = 32768 /\ power[16] = 65536 /\ power[17] = 131072
    BY <2>2, <2>4, SMT
  <2> QED BY <2>1, <2>3, <2>5, SMT
<1>5. MinRecLen = 40
  BY DEF MinRecLen
<1> QED BY <1>3, <1>4, <1>5, PowerIs

(* The walk of Detect along the blockettes.                                *)
WalkBody(raw, n, walk) ==
  [at \in {0} \cup DOMAIN raw.chain |->
     IF at <= 47 \/ at > n THEN {Scan(raw, n)}
     ELSE IF at + 4 > n THEN {Scan(raw, n), -1}
     ELSE LET b == raw.chain[at]
          IN  IF b.type = 1000 /\ at + 8 <= n THEN {raw.reclen}
              ELSE IF b.next # 0 /\ b.next - 4 <= at THEN {-1} ELSE walk[b.next]]

(* The equation as a fact with a name, as provers rewrite by equations.    *)
IsWalk(raw, n, walk) == walk = WalkBody(raw, n, walk)

(* The blockettes of a record as packed: each behind the one before it.    *)
Chained(raw) ==
  /\ DOMAIN raw.chain \subseteq Nat
  /\ \A at \in DOMAIN raw.chain :
       raw.chain[at].next = 0 \/ (raw.chain[at].next \in DOMAIN raw.chain /\ raw.chain[at].next >= at + 8)

(* There is such a walk, as the places rise.                               *)
LEMMA WalkExists ==
  ASSUME NEW raw, Chained(raw), NEW n \in Nat
  PROVE  \E walk : walk = WalkBody(raw, n, walk)
<1> DEFINE S == {0} \cup DOMAIN raw.chain
           V == SUBSET {Scan(raw, n), -1, raw.reclen}
           b(at) == raw.chain[at]
           goes(at) == /\ at > 47 /\ at <= n /\ at + 4 <= n /\ ~(b(at).type = 1000 /\ at + 8 <= n)
                       /\ ~(b(at).next # 0 /\ b(at).next - 4 <= at)
           leaf == {at \in S : ~goes(at)}
           rank == [at \in S |-> IF at <= 47 \/ at > n THEN 0 ELSE n - at + 1]
           parent == [at \in S |-> IF at \in leaf THEN at ELSE b(at).next]
           base == [at \in S |-> IF at <= 47 \/ at > n THEN {Scan(raw, n)}
                                 ELSE IF at + 4 > n THEN {Scan(raw, n), -1}
                                 ELSE IF b(at).type = 1000 /\ at + 8 <= n THEN {raw.reclen} ELSE {-1}]
           step == [at \in S |-> [v \in V |-> v]]
<1>1. S \subseteq Nat
  BY DEF Chained
<1>2. ASSUME NEW at \in S \ leaf PROVE at > 47 /\ at <= n /\ b(at).next \in S /\ (b(at).next = 0 \/ b(at).next > at)
  <2>1. goes(at)
    BY <1>2
  <2>2. at > 47 /\ at <= n /\ at \in DOMAIN raw.chain /\ at \in Nat
    BY <1>1, <2>1
  <2>3. b(at).next = 0 \/ (b(at).next \in DOMAIN raw.chain /\ b(at).next >= at + 8)
    BY <2>2 DEF Chained
  <2>4. b(at).next \in Nat
    BY <1>1, <2>3
  <2> QED BY <2>2, <2>3, <2>4
<1>3. rank \in [S -> Nat]
  <2>1. \A at \in S : (IF at <= 47 \/ at > n THEN 0 ELSE n - at + 1) \in Nat
    BY <1>1
  <2> HIDE DEF S
  <2> QED BY <2>1, Zenon
<1>4. parent \in [S -> S]
  <2> HIDE DEF S, leaf, b
  <2> QED BY <1>2
<1>5. base \in [S -> V]
  <2>1. \A T \in {{Scan(raw, n)}, {Scan(raw, n), -1}, {raw.reclen}, {-1}} : T \in V
    BY Zenon
  <2>2. \A at \in S : (IF at <= 47 \/ at > n THEN {Scan(raw, n)}
                       ELSE IF at + 4 > n THEN {Scan(raw, n), -1}
                       ELSE IF b(at).type = 1000 /\ at + 8 <= n THEN {raw.reclen} ELSE {-1}) \in V
    <3> HIDE DEF S, b, V
    <3> QED BY <2>1, Zenon
  <2> HIDE DEF S, V, b
  <2> QED BY <2>2
<1>6. step \in [S -> [V -> V]]
  <2> HIDE DEF S, V
  <2> QED BY Zenon
<1>7. \A at \in S \ leaf : rank[parent[at]] < rank[at]
  <2> TAKE at \in S \ leaf
  <2>1. parent[at] = b(at).next /\ parent[at] \in S /\ at \in S
    BY <1>4
  <2>2. at \in Nat /\ parent[at] \in Nat /\ at > 47 /\ at <= n /\ (parent[at] = 0 \/ parent[at] > at)
    BY <1>1, <1>2, <2>1
  <2>3. /\ rank[at] = (IF at <= 47 \/ at > n THEN 0 ELSE n - at + 1)
        /\ rank[parent[at]] = (IF parent[at] <= 47 \/ parent[at] > n THEN 0 ELSE n - parent[at] + 1)
    <3> HIDE DEF parent, S, leaf
    <3> QED BY <2>1
  <2> HIDE DEF rank, parent
  <2> QED BY <2>2, <2>3
<1>8. \A at \in S : base[at] = (IF at <= 47 \/ at > n THEN {Scan(raw, n)}
                                 ELSE IF at + 4 > n THEN {Scan(raw, n), -1}
                                 ELSE IF b(at).type = 1000 /\ at + 8 <= n THEN {raw.reclen} ELSE {-1})
  <2> HIDE DEF S, b
  <2> QED BY Zenon
<1>9. \A at \in S : /\ (at \notin leaf => parent[at] = b(at).next) /\ \A v \in V : step[at][v] = v
  <2> HIDE DEF S, b, leaf, V
  <2> QED BY Zenon
<1>10. \A at \in S : at \in leaf <=> ~goes(at)
  <2> HIDE DEF S, goes
  <2> QED BY Zenon
<1> HIDE DEF leaf, rank, parent, base, step, V, S
<1>11. PICK walk \in [S -> V] : \A at \in S : Follows(walk, at, parent, leaf, base, step)
  BY <1>3, <1>4, <1>5, <1>6, <1>7, Recursion
<1>12. ASSUME NEW at \in S
       PROVE  walk[at] = IF at <= 47 \/ at > n THEN {Scan(raw, n)}
                         ELSE IF at + 4 > n THEN {Scan(raw, n), -1}
                         ELSE LET c == raw.chain[at]
                              IN  IF c.type = 1000 /\ at + 8 <= n THEN {raw.reclen}
                                  ELSE IF c.next # 0 /\ c.next - 4 <= at THEN {-1} ELSE walk[c.next]
  <2>1. walk[at] = IF at \in leaf THEN base[at] ELSE step[at][walk[parent[at]]]
    BY <1>11 DEF Follows
  <2>2. CASE at \in leaf
    <3>1. walk[at] = base[at]
      BY <2>1, <2>2
    <3>2. at \in Nat
      BY <1>1
    <3>3. ~goes(at)
      BY <1>10, <2>2
    <3> HIDE DEF b
    <3>4. walk[at] = IF at <= 47 \/ at > n THEN {Scan(raw, n)}
                     ELSE IF at + 4 > n THEN {Scan(raw, n), -1}
                     ELSE IF b(at).type = 1000 /\ at + 8 <= n THEN {raw.reclen} ELSE {-1}
      <4>1. base[at] = IF at <= 47 \/ at > n THEN {Scan(raw, n)}
                       ELSE IF at + 4 > n THEN {Scan(raw, n), -1}
                       ELSE IF b(at).type = 1000 /\ at + 8 <= n THEN {raw.reclen} ELSE {-1}
        BY <1>8, Zenon
      <4>2. PICK T : T = base[at]
        OBVIOUS
      <4>3. walk[at] = T
        BY <3>1, <4>2, Zenon
      <4> QED BY <4>1, <4>2, <4>3, Zenon
    <3>5. /\ ~(at <= 47 \/ at > n) => at > 47 /\ at <= n
          /\ ~(at + 4 > n) => at + 4 <= n
      BY <3>2
    <3>6. walk[at] = IF at <= 47 \/ at > n THEN {Scan(raw, n)}
                     ELSE IF at + 4 > n THEN {Scan(raw, n), -1}
                     ELSE IF b(at).type = 1000 /\ at + 8 <= n THEN {raw.reclen}
                     ELSE IF b(at).next # 0 /\ b(at).next - 4 <= at THEN {-1} ELSE walk[b(at).next]
      BY <3>3, <3>4, <3>5, Zenon
    <3> QED BY <3>6, Zenon DEF b
  <2>3. CASE at \notin leaf
    <3>1. parent[at] = b(at).next /\ parent[at] \in S
      BY <1>4, <1>9, <2>3
    <3>2. walk[parent[at]] \in V
      BY <1>11, <3>1
    <3>3. walk[at] = walk[b(at).next]
      BY <1>9, <2>1, <2>3, <3>1, <3>2
    <3>4. goes(at)
      BY <1>10, <2>3
    <3>5. at \in Nat
      BY <1>1
    <3>6. ~(at <= 47 \/ at > n) /\ ~(at + 4 > n)
      BY <3>4, <3>5
    <3>7. ~(b(at).type = 1000 /\ at + 8 <= n) /\ ~(b(at).next # 0 /\ b(at).next - 4 <= at)
      BY <3>4
    <3> QED BY <3>3, <3>6, <3>7, Zenon DEF b
  <2> QED BY <2>2, <2>3
<1>13. walk = [at \in S |-> walk[at]]
  BY <1>11
<1>14. walk = WalkBody(raw, n, walk)
  BY <1>12, <1>13, Zenon DEF WalkBody, S
<1> QED BY <1>14

(* What is detected in the first n bytes of a record of version 2.         *)
LEMMA DetectIs ==
  ASSUME NEW raw, Chained(raw), raw.version = 2, raw.first \in {0} \cup DOMAIN raw.chain,
         NEW n \in Nat, n >= MinRecLen
  PROVE  \E walk : IsWalk(raw, n, walk) /\ Detect(raw, n) = walk[raw.first]
<1> DEFINE walk == CHOOSE walk : walk = WalkBody(raw, n, walk)
<1>1. ~(n < MinRecLen) /\ raw.version # 3
  BY DEF MinRecLen
<1>2. Detect(raw, n) = walk[raw.first]
  BY <1>1, Zenon DEF Detect, WalkBody
<1>3. walk = WalkBody(raw, n, walk)
  BY WalkExists, Zenon
<1> HIDE DEF walk
<1>4. IsWalk(raw, n, walk)
  BY <1>3, Zenon DEF IsWalk
<1> QED BY <1>2, <1>4

(* What it finds at each place.                                            *)
LEMMA WalkIs ==
  ASSUME NEW raw, Chained(raw), NEW n \in Nat, NEW walk, IsWalk(raw, n, walk),
         NEW at \in {0} \cup DOMAIN raw.chain
  PROVE  walk[at] = IF at <= 47 \/ at > n THEN {Scan(raw, n)}
                    ELSE IF at + 4 > n THEN {Scan(raw, n), -1}
                    ELSE IF raw.chain[at].type = 1000 /\ at + 8 <= n THEN {raw.reclen}
                    ELSE IF raw.chain[at].next # 0 /\ raw.chain[at].next - 4 <= at THEN {-1}
                    ELSE walk[raw.chain[at].next]
<1>1. walk[at] = WalkBody(raw, n, walk)[at]
  BY Zenon DEF IsWalk
<1>2. WalkBody(raw, n, walk)[at] =
                    IF at <= 47 \/ at > n THEN {Scan(raw, n)}
                    ELSE IF at + 4 > n THEN {Scan(raw, n), -1}
                    ELSE IF raw.chain[at].type = 1000 /\ at + 8 <= n THEN {raw.reclen}
                    ELSE IF raw.chain[at].next # 0 /\ raw.chain[at].next - 4 <= at THEN {-1}
                    ELSE walk[raw.chain[at].next]
  BY Zenon DEF WalkBody
<1> QED BY <1>1, <1>2

(* The walk ends outside the bytes given.                                  *)
LEMMA ShortWalk ==
  ASSUME NEW raw, Chained(raw), NEW n \in Nat, NEW walk, IsWalk(raw, n, walk),
         NEW at \in {0} \cup DOMAIN raw.chain, at <= 47 \/ at > n
  PROVE  walk[at] = {Scan(raw, n)}
BY WalkIs, Zenon

(* The walk from the first blockette.                                      *)
FromFirst(raw, n, walk) ==
  walk[48] = IF 48 <= 47 \/ 48 > n THEN {Scan(raw, n)}
             ELSE IF 48 + 4 > n THEN {Scan(raw, n), -1}
             ELSE IF raw.chain[48].type = 1000 /\ 48 + 8 <= n THEN {raw.reclen}
             ELSE IF raw.chain[48].next # 0 /\ raw.chain[48].next - 4 <= 48 THEN {-1}
             ELSE walk[raw.chain[48].next]

LEMMA FirstWalk ==
  ASSUME NEW raw, Chained(raw), NEW n \in Nat, NEW walk, IsWalk(raw, n, walk), 48 \in DOMAIN raw.chain
  PROVE  FromFirst(raw, n, walk)
<1>1. PICK at \in {0} \cup DOMAIN raw.chain : at = 48
  OBVIOUS
<1>2. walk[at] = IF at <= 47 \/ at > n THEN {Scan(raw, n)}
                 ELSE IF at + 4 > n THEN {Scan(raw, n), -1}
                 ELSE IF raw.chain[at].type = 1000 /\ at + 8 <= n THEN {raw.reclen}
                 ELSE IF raw.chain[at].next # 0 /\ raw.chain[at].next - 4 <= at THEN {-1}
                 ELSE walk[raw.chain[at].next]
  BY WalkIs, Zenon
<1> QED BY <1>1, <1>2, ZenonT(30), SMTT(30) DEF FromFirst

(* What is detected in the beginning of a record that says its length.     *)
LEMMA Detected2 ==
  ASSUME NEW raw, Chained(raw), raw.version = 2, raw.first = 48, 48 \in DOMAIN raw.chain,
         raw.chain[48].type = 1000, raw.len \in PowersOfTwo, raw.reclen = raw.len, NEW n \in Nat, n >= MinRecLen,
         NEW d \in Detect(raw, n)
  PROVE  \/ n >= 56 /\ d = raw.len
         \/ n < 56 /\ d = 0
         \/ n \in 48..51 /\ d = -1
<1>1. PICK walk : IsWalk(raw, n, walk) /\ Detect(raw, n) = walk[48]
  BY DetectIs
<1>2. raw.len \in Nat /\ raw.len >= 128
  BY LengthIs
<1>3. n < 56 => Scan(raw, n) = 0
  BY <1>2 DEF Scan
<1>4. d \in walk[48]
  BY <1>1
<1>5. walk[48] = IF 48 <= 47 \/ 48 > n THEN {Scan(raw, n)}
                 ELSE IF 48 + 4 > n THEN {Scan(raw, n), -1}
                 ELSE IF raw.chain[48].type = 1000 /\ 48 + 8 <= n THEN {raw.reclen}
                 ELSE IF raw.chain[48].next # 0 /\ raw.chain[48].next - 4 <= 48 THEN {-1}
                 ELSE walk[raw.chain[48].next]
  <2>1. FromFirst(raw, n, walk)
    BY <1>1, FirstWalk
  <2> QED BY <2>1, Zenon DEF FromFirst
<1>6. CASE n < 48
  <2>1. 48 > n /\ n < 56
    BY <1>6
  <2>2. walk[48] = {Scan(raw, n)}
    BY <1>5, <2>1, Zenon
  <2> QED BY <1>3, <1>4, <2>1, <2>2
<1>7. CASE n \in 48..51
  <2>1. ~(48 <= 47 \/ 48 > n) /\ 48 + 4 > n /\ n < 56
    BY <1>7
  <2>2. walk[48] = {Scan(raw, n), -1}
    BY <1>5, <2>1, Zenon
  <2> QED BY <1>3, <1>4, <1>7, <2>1, <2>2
<1>8. CASE n >= 52 /\ n < 56
  <2> DEFINE next == raw.chain[48].next
  <2>1. ~(48 <= 47 \/ 48 > n) /\ ~(48 + 4 > n) /\ ~(48 + 8 <= n)
    BY <1>8
  <2>2. next = 0 \/ (next \in DOMAIN raw.chain /\ next >= 56 /\ next \in Nat)
    <3>1. next = 0 \/ (next \in DOMAIN raw.chain /\ next >= 48 + 8)
      BY ZenonT(30), SMTT(30) DEF Chained
    <3>2. DOMAIN raw.chain \subseteq Nat
      BY DEF Chained
    <3> QED BY <3>1, <3>2
  <2>3. ~(next # 0 /\ next - 4 <= 48) /\ (next <= 47 \/ next > n) /\ next \in {0} \cup DOMAIN raw.chain
    BY <1>8, <2>2
  <2>4. walk[48] = walk[next]
    BY <1>5, <2>1, <2>3, Zenon
  <2>5. walk[next] = {Scan(raw, n)}
    <3>1. next \in {0} \cup DOMAIN raw.chain /\ (next <= 47 \/ next > n)
      BY <2>3
    <3> HIDE DEF next
    <3> QED BY <1>1, <3>1, ShortWalk
  <2> QED BY <1>3, <1>4, <1>8, <2>4, <2>5
<1>9. CASE n >= 56
  <2>1. ~(48 <= 47 \/ 48 > n) /\ ~(48 + 4 > n) /\ 48 + 8 <= n
    BY <1>9
  <2>2. walk[48] = {raw.reclen}
    BY <1>5, <2>1, Zenon
  <2> QED BY <1>4, <1>9, <2>2
<1> QED BY <1>6, <1>7, <1>8, <1>9

(* What is made of what was detected.                                      *)
LEMMA ParseOfIs ==
  ASSUME NEW raw, NEW n \in Nat, n >= MinRecLen, NEW d \in Int
  PROVE  /\ d < 0 => ParseOf(raw, n, FALSE, d) = Outcome("notseed", 0)
         /\ d = 0 => ParseOf(raw, n, FALSE, d) = Outcome("more", MinRecLen)
         /\ d \in MinRecLen..MaxRecLen /\ d > n => ParseOf(raw, n, FALSE, d) = Outcome("more", d - n)
         /\ d \in MinRecLen..MaxRecLen /\ d <= n => ParseOf(raw, n, FALSE, d) = Outcome("parsed", d)
<1>1. ParseOf(raw, n, FALSE, d) =
        IF d < 0 THEN Outcome("notseed", 0) ELSE IF d = 0 THEN Outcome("more", MinRecLen)
        ELSE IF d \notin MinRecLen..MaxRecLen THEN Outcome("outofrange", 0)
        ELSE IF d > n THEN Outcome("more", d - n) ELSE Outcome("parsed", d)
  BY Zenon DEF ParseOf, Asks
<1>2. /\ d < 0 => TRUE
      /\ d = 0 => ~(d < 0)
      /\ d \in MinRecLen..MaxRecLen => ~(d < 0) /\ d # 0
      /\ d <= n => ~(d > n)
  BY DEF MinRecLen
<1> QED BY <1>1, <1>2, Zenon

(* Any first bytes of a record of which the length is found.               *)
Answered(raw, n, p) ==
  \/ n >= raw.len /\ p = Outcome("parsed", raw.len)
  \/ n < raw.len /\ p.result = "more" /\ p.asks > 0 /\ n + p.asks <= raw.len
  \/ raw.version = 2 /\ n \in 48..51 /\ p.result = "notseed"

(* The three ways to answer.                                               *)
LEMMA AsksAnswers ==
  ASSUME NEW raw, NEW n, NEW k, n < raw.len, k > 0, n + k <= raw.len
  PROVE  Answered(raw, n, Outcome("more", k))
<1>1. Outcome("more", k).result = "more" /\ Outcome("more", k).asks = k
  BY Zenon DEF Outcome
<1> QED BY <1>1, Zenon DEF Answered

LEMMA NoneAnswers ==
  ASSUME NEW raw, NEW n \in 48..51, raw.version = 2
  PROVE  Answered(raw, n, Outcome("notseed", 0))
<1>1. Outcome("notseed", 0).result = "notseed"
  BY Zenon DEF Outcome
<1> QED BY <1>1, Zenon DEF Answered

(* A length that was detected is an answer, whatever was given.            *)
LEMMA LengthAnswers ==
  ASSUME NEW raw, raw.len \in MinRecLen..MaxRecLen, NEW n \in Nat, n >= MinRecLen
  PROVE  Answered(raw, n, ParseOf(raw, n, FALSE, raw.len))
<1>1. raw.len \in Int
  BY DEF MinRecLen
<1>2. CASE raw.len > n
  <2>1. ParseOf(raw, n, FALSE, raw.len) = Outcome("more", raw.len - n)
    BY <1>1, <1>2, ParseOfIs
  <2>2. PICK k : k = raw.len - n
    OBVIOUS
  <2>3. n < raw.len /\ k > 0 /\ n + k <= raw.len
    BY <1>1, <1>2, <2>2
  <2> QED BY <2>1, <2>2, <2>3, AsksAnswers, Zenon
<1>3. CASE ~(raw.len > n)
  <2>1. raw.len <= n /\ n >= raw.len
    BY <1>1, <1>3
  <2>2. ParseOf(raw, n, FALSE, raw.len) = Outcome("parsed", raw.len)
    BY <1>1, <2>1, ParseOfIs
  <2> QED BY <2>1, <2>2, Zenon DEF Answered
<1> QED BY <1>2, <1>3

(* So is all that is made of a record of version 3,                        *)
LEMMA Answers3 ==
  ASSUME NEW raw, raw.len \in MinRecLen..MaxRecLen, raw.version = 3, raw.len = raw.dataoffset + raw.datalength,
         NEW n \in Nat, n >= MinRecLen, NEW p \in Parse(raw, n, FALSE)
  PROVE  Answered(raw, n, p)
<1>1. ~(n < MinRecLen)
  BY DEF MinRecLen
<1>2. Detect(raw, n) = {raw.len}
  BY <1>1, Zenon DEF Detect
<1>3. p = ParseOf(raw, n, FALSE, raw.len)
  BY <1>2, Zenon DEF Parse
<1> QED BY <1>3, LengthAnswers

(* and of one of version 2 that says its length.                           *)
LEMMA Answers2 ==
  ASSUME NEW raw, Chained(raw), raw.version = 2, raw.first = 48, 48 \in DOMAIN raw.chain,
         raw.chain[48].type = 1000, raw.len \in PowersOfTwo, raw.reclen = raw.len,
         raw.len \in MinRecLen..MaxRecLen, NEW n \in Nat, n >= MinRecLen, NEW p \in Parse(raw, n, FALSE)
  PROVE  Answered(raw, n, p)
<1>1. PICK d \in Detect(raw, n) : p = ParseOf(raw, n, FALSE, d)
  BY Zenon DEF Parse
<1>2. \/ n >= 56 /\ d = raw.len
      \/ n < 56 /\ d = 0
      \/ n \in 48..51 /\ d = -1
  BY Detected2
<1>3. raw.len \in Nat /\ raw.len >= 128
  BY LengthIs
<1>4. CASE n >= 56 /\ d = raw.len
  BY <1>1, <1>4, LengthAnswers, ZenonT(30)
<1>5. CASE n < 56 /\ d = 0
  <2>3. 0 \in Int
    OBVIOUS
  <2>4. p = ParseOf(raw, n, FALSE, 0)
    BY <1>1, <1>5, Zenon
  <2>1. p = Outcome("more", MinRecLen)
    BY <2>3, <2>4, ParseOfIs, Zenon
  <2>2. n < raw.len /\ MinRecLen > 0 /\ n + MinRecLen <= raw.len
    BY <1>3, <1>5 DEF MinRecLen
  <2> QED BY <2>1, <2>2, AsksAnswers, Zenon
<1>6. CASE n \in 48..51 /\ d = -1
  <2>1. -1 \in Int /\ -1 < 0
    OBVIOUS
  <2>2. p = Outcome("notseed", 0)
    BY <1>1, <1>6, <2>1, ParseOfIs
  <2> QED BY <1>6, <2>2, NoneAnswers, Zenon
<1> QED BY <1>2, <1>4, <1>5, <1>6

(* A record that does not say how long it is.                              *)
LEMMA BareDetected ==
  ASSUME NEW raw, Chained(raw), raw.version = 2, raw.first = 0, NEW n \in Nat, n >= MinRecLen
  PROVE  Detect(raw, n) = {Scan(raw, n)}
<1>1. raw.first \in {0} \cup DOMAIN raw.chain /\ 0 \in {0} \cup DOMAIN raw.chain
  OBVIOUS
<1>2. PICK walk : IsWalk(raw, n, walk) /\ Detect(raw, n) = walk[0]
  BY <1>1, DetectIs
<1>3. 0 <= 47
  OBVIOUS
<1>4. walk[0] = {Scan(raw, n)}
  BY <1>1, <1>2, <1>3, ShortWalk
<1> QED BY <1>2, <1>4

(* It is found by the next header, or the end of the file.                 *)
LEMMA BareParsed ==
  ASSUME NEW raw, Chained(raw), raw.version = 2, raw.first = 0, raw.len \in PowersOfTwo
  PROVE  /\ Parse(raw, raw.len, TRUE) = {Outcome("parsed", raw.len)}
         /\ \A n \in MinRecLen..(raw.len + 64) :
              Parse(raw, n, FALSE) = {IF n > raw.len + 48 THEN Outcome("parsed", raw.len)
                                      ELSE Outcome("more", MinRecLen)}
<1>1. /\ raw.len \in Nat /\ raw.len >= 128 /\ raw.len >= MinRecLen /\ raw.len \in MinRecLen..MaxRecLen
      /\ raw.len % 64 = 0 /\ PowerOfTwo(raw.len)
  <2>1. /\ raw.len \in Nat /\ raw.len >= 128 /\ raw.len % 64 = 0 /\ PowerOfTwo(raw.len)
        /\ raw.len + 100 <= MaxRecLen
    BY LengthIs
  <2>2. MinRecLen = 40 /\ MaxRecLen \in Nat
    BY DEF MinRecLen, MaxRecLen
  <2> QED BY <2>1, <2>2
<1>2. Parse(raw, raw.len, TRUE) = {Outcome("parsed", raw.len)}
  <2>1. Scan(raw, raw.len) = 0
    BY <1>1 DEF Scan
  <2>5. Detect(raw, raw.len) = {Scan(raw, raw.len)}
    BY <1>1, BareDetected
  <2>2. Parse(raw, raw.len, TRUE) = {ParseOf(raw, raw.len, TRUE, 0)}
    BY <2>1, <2>5, Zenon DEF Parse
  <2>3. ~(raw.len < 0) /\ raw.len # 0 /\ ~(raw.len > raw.len)
    BY <1>1
  <2>4. ParseOf(raw, raw.len, TRUE, 0) = Outcome("parsed", raw.len)
    BY <1>1, <2>3, Zenon DEF ParseOf
  <2> QED BY <2>2, <2>4
<1>3. ASSUME NEW n \in MinRecLen..(raw.len + 64)
      PROVE  Parse(raw, n, FALSE) = {IF n > raw.len + 48 THEN Outcome("parsed", raw.len)
                                     ELSE Outcome("more", MinRecLen)}
  <2>1. n \in Nat /\ n >= MinRecLen
    BY DEF MinRecLen
  <2>2. Parse(raw, n, FALSE) = {ParseOf(raw, n, FALSE, Scan(raw, n))}
    BY <2>1, BareDetected, Zenon DEF Parse
  <2>3. CASE n > raw.len + 48
    <3>1. Scan(raw, n) = raw.len
      BY <1>1, <2>1, <2>3 DEF Scan
    <3>2. raw.len \in Int /\ raw.len <= n
      BY <1>1, <2>1, <2>3
    <3>3. ParseOf(raw, n, FALSE, raw.len) = Outcome("parsed", raw.len)
      BY <1>1, <2>1, <3>2, ParseOfIs
    <3> QED BY <2>2, <2>3, <3>1, <3>3
  <2>4. CASE ~(n > raw.len + 48)
    <3>1. Scan(raw, n) = 0
      BY <1>1, <2>1, <2>4 DEF Scan
    <3>2. ParseOf(raw, n, FALSE, 0) = Outcome("more", MinRecLen)
      <4>1. 0 \in Int
        OBVIOUS
      <4> QED BY <2>1, <4>1, ParseOfIs, Zenon
    <3> QED BY <2>2, <2>4, <3>1, <3>2
  <2> QED BY <2>3, <2>4
<1> QED BY <1>2, <1>3

(* msr3_parse() of any part of a record that is packed, whatever follows:  *)
(* it asks for more bytes as long as some are missing, and never for more  *)
(* than that, parses the record once it is whole, and finds the end of one *)
(* that does not say how long it is at the next header or the end of the   *)
(* file.                                                                   *)
THEOREM ParserAsks ==
  ASSUME NEW raw, Parseable(raw)
  PROVE  ParseAsks(raw)
<1>1. raw.len \in MinRecLen..MaxRecLen
  BY DEF Parseable
<1>2. \A n \in MinRecLen..(raw.len + 64) : n \in Nat /\ n >= MinRecLen
  BY DEF MinRecLen
<1>3. CASE raw.version = 3 /\ raw.len = raw.dataoffset + raw.datalength
  <2>1. \A n \in MinRecLen..(raw.len + 64) : \A p \in Parse(raw, n, FALSE) : Answered(raw, n, p)
    BY <1>1, <1>2, <1>3, Answers3
  <2>2. raw.version # 2
    BY <1>3
  <2> QED BY <2>1, <2>2, Zenon DEF ParseAsks, Answered
<1>4. CASE /\ {"version", "len", "first", "reclen", "chain"} \subseteq DOMAIN raw
           /\ raw.version = 2 /\ raw.len \in PowersOfTwo /\ raw.reclen = raw.len /\ raw.first = 48
           /\ 48 \in DOMAIN raw.chain /\ raw.chain[48].type = 1000 /\ Chained(raw)
  <2>1. \A n \in MinRecLen..(raw.len + 64) : \A p \in Parse(raw, n, FALSE) : Answered(raw, n, p)
    BY <1>1, <1>2, <1>4, Answers2
  <2> DEFINE bare == [raw EXCEPT !.first = 0]
  <2>2. bare.version = 2 /\ bare.first = 0 /\ bare.len = raw.len /\ bare.chain = raw.chain
    BY <1>4
  <2> HIDE DEF bare
  <2>3. Chained(bare)
    BY <1>4, <2>2 DEF Chained
  <2>5. bare.len \in PowersOfTwo
    BY <1>4, <2>2
  <2>6. /\ Parse(bare, bare.len, TRUE) = {Outcome("parsed", bare.len)}
        /\ \A n \in MinRecLen..(bare.len + 64) :
             Parse(bare, n, FALSE) = {IF n > bare.len + 48 THEN Outcome("parsed", bare.len)
                                      ELSE Outcome("more", MinRecLen)}
    BY <2>2, <2>3, <2>5, BareParsed, Zenon
  <2>4. /\ Parse(bare, raw.len, TRUE) = {Outcome("parsed", raw.len)}
        /\ \A n \in MinRecLen..(raw.len + 64) :
             Parse(bare, n, FALSE) = {IF n > raw.len + 48 THEN Outcome("parsed", raw.len)
                                      ELSE Outcome("more", MinRecLen)}
    BY <2>2, <2>6, Zenon
  <2> QED BY <2>1, <2>4, Zenon DEF ParseAsks, Answered, bare
<1>5. \/ raw.version = 3 /\ raw.len = raw.dataoffset + raw.datalength
      \/ /\ {"version", "len", "first", "reclen", "chain"} \subseteq DOMAIN raw
         /\ raw.version = 2 /\ raw.len \in PowersOfTwo /\ raw.reclen = raw.len /\ raw.first = 48
         /\ 48 \in DOMAIN raw.chain /\ raw.chain[48].type = 1000 /\ Chained(raw)
  BY DEF Parseable, Chained
<1> QED BY <1>3, <1>4, <1>5

-----------------------------------------------------------------------------
(* A fold over a sequence, by the values of its beginnings.                *)
Folding(f, s, base, step) == f[s] = IF s = {} THEN base ELSE step[Max(s)][f[s \ {Max(s)}]]

(* The greatest of some places.                                            *)
LEMMA GreatestPlace ==
  ASSUME NEW n \in Nat, NEW s \in SUBSET (1..n), s # {}
  PROVE  /\ Max(s) \in s /\ (\A k \in s : k <= Max(s)) /\ s \ {Max(s)} \in SUBSET (1..n)
         /\ IsFiniteSet(s) /\ Cardinality(s \ {Max(s)}) < Cardinality(s) /\ Cardinality(s \ {Max(s)}) \in Nat
         /\ Cardinality(s) \in Nat
<1>1. s \in SUBSET Nat /\ \A k \in s : k <= n
  OBVIOUS
<1>2. \E m \in s : \A k \in s : k <= m
  BY <1>1, GreatestNumber, Zenon
<1>3. \E m \in s : \A k \in s : m >= k
  BY <1>1, <1>2
<1>4. Max(s) \in s /\ \A k \in s : Max(s) >= k
  BY <1>3 DEF Max
<1>5. IsFiniteSet(1..n)
  BY FS_Interval
<1>6. IsFiniteSet(s) /\ Cardinality(s) \in Nat
  BY <1>5, FS_Subset, FS_CardinalityType
<1>7. Cardinality(s \ {Max(s)}) = Cardinality(s) - 1 /\ Cardinality(s \ {Max(s)}) \in Nat
  <2>1. IsFiniteSet(s \ {Max(s)})
    BY <1>6, FS_Subset
  <2> QED BY <1>4, <1>6, <2>1, FS_RemoveElement, FS_CardinalityType
<1>8. \A k \in s : k <= Max(s)
  BY <1>1, <1>4
<1>9. s \ {Max(s)} \in SUBSET (1..n)
  OBVIOUS
<1>10. Cardinality(s \ {Max(s)}) < Cardinality(s)
  BY <1>6, <1>7
<1> QED BY <1>4, <1>6, <1>7, <1>8, <1>9, <1>10, Zenon

(* A fold exists whose steps stay in a set.                                *)
LEMMA FoldExists ==
  ASSUME NEW n \in Nat, NEW V, NEW base \in V, NEW step \in [1..n -> [V -> V]]
  PROVE  \E f \in [SUBSET (1..n) -> V] : \A s \in SUBSET (1..n) : Folding(f, s, base, step)
<1> DEFINE S == SUBSET (1..n)
           rank == [s \in S |-> Cardinality(s)]
           parent == [s \in S |-> IF s = {} THEN s ELSE s \ {Max(s)}]
           first == [s \in S |-> base]
           next == [s \in S |-> IF s = {} THEN [v \in V |-> v] ELSE step[Max(s)]]
<1>1. \A s \in S : Cardinality(s) \in Nat
  <2>1. IsFiniteSet(1..n)
    BY FS_Interval
  <2> QED BY <2>1, FS_Subset, FS_CardinalityType
<1>2. \A s \in S : s # {} => Max(s) \in 1..n /\ s \ {Max(s)} \in S /\ Cardinality(s \ {Max(s)}) < Cardinality(s)
  <2> TAKE s \in S
  <2> SUFFICES ASSUME s # {} PROVE Max(s) \in 1..n /\ s \ {Max(s)} \in S /\ Cardinality(s \ {Max(s)}) < Cardinality(s)
    OBVIOUS
  <2>1. Max(s) \in s
    BY GreatestPlace
  <2> QED BY <2>1, GreatestPlace
<1>3. rank \in [S -> Nat]
  <2> HIDE DEF S
  <2> QED BY <1>1
<1>4. parent \in [S -> S]
  <2> HIDE DEF S
  <2> QED BY <1>2
<1>5. first \in [S -> V]
  OBVIOUS
<1>6. next \in [S -> [V -> V]]
  <2>1. [v \in V |-> v] \in [V -> V]
    OBVIOUS
  <2>2. \A s \in S : s # {} => step[Max(s)] \in [V -> V]
    BY <1>2
  <2> HIDE DEF S
  <2>3. \A s \in S : (IF s = {} THEN [v \in V |-> v] ELSE step[Max(s)]) \in [V -> V]
    BY <2>1, <2>2, Zenon
  <2> QED BY <2>3, Zenon
<1>7. \A s \in S \ {{}} : rank[parent[s]] < rank[s]
  <2> HIDE DEF S
  <2> QED BY <1>2, <1>4
<1>8. \A s \in S : first[s] = base /\ (s # {} => parent[s] = s \ {Max(s)} /\ next[s] = step[Max(s)])
  <2> HIDE DEF S
  <2> QED BY Zenon
<1> HIDE DEF S, rank, parent, first, next
<1>9. PICK f \in [S -> V] : \A s \in S : Follows(f, s, parent, {{}}, first, next)
  BY <1>3, <1>4, <1>5, <1>6, <1>7, Recursion
<1>10. \A s \in S : Folding(f, s, base, step)
  <2> TAKE s \in S
  <2>1. f[s] = IF s \in {{}} THEN first[s] ELSE next[s][f[parent[s]]]
    BY <1>9 DEF Follows
  <2>2. CASE s = {}
    BY <1>8, <2>1, <2>2, Zenon DEF Folding
  <2>3. CASE s # {}
    <3>1. f[s] = next[s][f[parent[s]]]
      BY <2>1, <2>3, Zenon
    <3>2. parent[s] = s \ {Max(s)} /\ next[s] = step[Max(s)]
      BY <1>8, <2>3, Zenon
    <3> QED BY <2>3, <3>1, <3>2, Zenon DEF Folding
  <2> QED BY <2>2, <2>3
<1> QED BY <1>9, <1>10 DEF S

-----------------------------------------------------------------------------
(* Selections of records: the lists there can be, and what is asked for.   *)
TimeOrNone == {<<>>} \cup {<<t>> : t \in Int}
Window     == [start : TimeOrNone, end : TimeOrNone]
OneSelection == [sidpattern : Seq(Int), pubversion : Nat, timewindows : Seq(Window)]
Request    == [pattern : Seq(Int), start : TimeOrNone, end : TimeOrNone, version : Nat]
SelectionList == {l \in Seq(OneSelection) : \A i \in 1..Len(l) : l[i].timewindows # <<>>}

(* Whether a selection, and a list, has a window for an identifier and a   *)
(* version.                                                                *)
HasWindow(s, p, v, w) == s.sidpattern = p /\ s.pubversion = v /\ \E j \in 1..Len(s.timewindows) : s.timewindows[j] = w
Holds(l, p, v, w) == \E i \in 1..Len(l) : HasWindow(l[i], p, v, w)

(* A window more.                                                          *)
LEMMA WindowAdded ==
  ASSUME NEW s \in OneSelection, NEW w \in Window
  PROVE  LET t == [s EXCEPT !.timewindows = <<w>> \o @]
         IN  /\ t \in OneSelection /\ t.timewindows # <<>>
             /\ \A p, v, x : HasWindow(t, p, v, x) <=>
                  HasWindow(s, p, v, x) \/ (p = s.sidpattern /\ v = s.pubversion /\ x = w)
<1> DEFINE q == s.timewindows
           r == <<w>> \o q
           t == [s EXCEPT !.timewindows = r]
<1>1. q \in Seq(Window) /\ Len(q) \in Nat /\ s.sidpattern \in Seq(Int) /\ s.pubversion \in Nat
  BY DEF OneSelection
<1> HIDE DEF q
<1>2. /\ r \in Seq(Window) /\ Len(r) = Len(q) + 1 /\ r[1] = w
      /\ \A j \in 1..Len(q) : r[j + 1] = q[j]
  BY <1>1
<1> HIDE DEF r
<1>3. t \in OneSelection /\ t.timewindows = r /\ t.sidpattern = s.sidpattern /\ t.pubversion = s.pubversion
  BY <1>2 DEF OneSelection
<1> HIDE DEF t
<1>4. r # <<>>
  BY <1>1, <1>2
<1>5. \A x : (\E j \in 1..Len(r) : r[j] = x) <=> x = w \/ \E j \in 1..Len(q) : q[j] = x
  <2> TAKE x
  <2>1. ASSUME NEW j \in 1..Len(r), r[j] = x PROVE x = w \/ \E i \in 1..Len(q) : q[i] = x
    <3>1. j = 1 \/ (j - 1 \in 1..Len(q) /\ j = (j - 1) + 1)
      BY <1>1, <1>2, <2>1
    <3> QED BY <1>2, <2>1, <3>1
  <2>2. ASSUME NEW j \in 1..Len(q), q[j] = x PROVE \E i \in 1..Len(r) : r[i] = x
    <3>1. j + 1 \in 1..Len(r)
      BY <1>1, <1>2, <2>2
    <3> QED BY <1>2, <2>2, <3>1
  <2>3. 1 \in 1..Len(r)
    BY <1>1, <1>2
  <2> QED BY <1>2, <2>1, <2>2, <2>3
<1>6. \A p, v, x : HasWindow(t, p, v, x) <=>
        HasWindow(s, p, v, x) \/ (p = s.sidpattern /\ v = s.pubversion /\ x = w)
  BY <1>3, <1>5, Zenon DEF HasWindow, q
<1>7. [s EXCEPT !.timewindows = <<w>> \o @] = t
  BY DEF t, r, q, OneSelection
<1> QED BY <1>3, <1>4, <1>6, <1>7

(* ms3_addselect() adds its window, and nothing else changes.              *)
Adds(l, m, a) ==
  /\ m \in SelectionList
  /\ \A p, v, x : Holds(m, p, v, x) <=>
       Holds(l, p, v, x) \/ (p = a.pattern /\ v = a.version /\ x = [start |-> a.start, end |-> a.end])

(* It does so for every list and every request.                            *)
LEMMA AddSelectIs ==
  ASSUME NEW l \in SelectionList, NEW a \in Request
  PROVE  Adds(l, AddSelect(l, a.pattern, a.start, a.end, a.version), a)
<1> DEFINE w == [start |-> a.start, end |-> a.end]
           same == {i \in DOMAIN l : l[i].sidpattern = a.pattern /\ l[i].pubversion = a.version}
           c == CHOOSE i \in same : \A j \in same : i <= j
           m == AddSelect(l, a.pattern, a.start, a.end, a.version)
<1>1. a.pattern \in Seq(Int) /\ a.version \in Nat /\ w \in Window
  BY DEF Request, Window
<1>2. l \in Seq(OneSelection) /\ DOMAIN l = 1..Len(l) /\ Len(l) \in Nat
      /\ \A i \in 1..Len(l) : l[i] \in OneSelection /\ l[i].timewindows # <<>>
  BY DEF SelectionList
<1>3. m = IF same = {} THEN <<Selection(a.pattern, a.version, <<w>>)>> \o l
          ELSE [l EXCEPT ![c].timewindows = <<w>> \o @]
  BY Zenon DEF AddSelect
<1> HIDE DEF m, w
<1>4. CASE same = {}
  <2> DEFINE s == Selection(a.pattern, a.version, <<w>>)
  <2>1. /\ s \in OneSelection /\ s.timewindows = <<w>> /\ s.sidpattern = a.pattern /\ s.pubversion = a.version
    BY <1>1 DEF Selection, OneSelection
  <2> HIDE DEF s
  <2>2. m = <<s>> \o l
    BY <1>3, <1>4 DEF s
  <2>3. m \in Seq(OneSelection) /\ Len(m) = Len(l) + 1 /\ m[1] = s /\ \A i \in 1..Len(l) : m[i + 1] = l[i]
    BY <1>2, <2>1, <2>2
  <2>4. \A i \in 1..Len(m) : i = 1 \/ (i - 1 \in 1..Len(l) /\ m[i] = l[i - 1])
    BY <1>2, <2>3
  <2>5. \A i \in 1..Len(l) : i + 1 \in 1..Len(m)
    BY <1>2, <2>3
  <2>6. 1 \in 1..Len(m)
    BY <1>2, <2>3
  <2>7. \A p, v, x : HasWindow(s, p, v, x) <=> p = a.pattern /\ v = a.version /\ x = w
    <3>1. \A x : (\E j \in 1..Len(s.timewindows) : s.timewindows[j] = x) <=> x = w
      BY <2>1
    <3> QED BY <2>1, <3>1, Zenon DEF HasWindow
  <2>8. m \in SelectionList
    <3>1. s.timewindows # <<>>
      BY <2>1
    <3>2. \A i \in 1..Len(m) : m[i].timewindows # <<>>
      BY <1>2, <2>3, <2>4, <3>1
    <3> QED BY <2>3, <3>2 DEF SelectionList
  <2>9. \A p, v, x : Holds(m, p, v, x) <=> Holds(l, p, v, x) \/ (p = a.pattern /\ v = a.version /\ x = w)
    <3> TAKE p, v, x
    <3>1. ASSUME Holds(m, p, v, x) PROVE Holds(l, p, v, x) \/ (p = a.pattern /\ v = a.version /\ x = w)
      <4>1. PICK i \in 1..Len(m) : HasWindow(m[i], p, v, x)
        BY <3>1, Zenon DEF Holds
      <4>2. CASE i = 1
        BY <2>3, <2>7, <4>1, <4>2, Zenon
      <4>3. CASE i # 1
        BY <2>4, <4>1, <4>3, Zenon DEF Holds
      <4> QED BY <4>2, <4>3
    <3>2. ASSUME Holds(l, p, v, x) PROVE Holds(m, p, v, x)
      <4>1. PICK i \in 1..Len(l) : HasWindow(l[i], p, v, x)
        BY <3>2, Zenon DEF Holds
      <4> QED BY <2>3, <2>5, <4>1, Zenon DEF Holds
    <3>3. ASSUME p = a.pattern /\ v = a.version /\ x = w PROVE Holds(m, p, v, x)
      BY <2>3, <2>6, <2>7, <3>3, Zenon DEF Holds
    <3> QED BY <3>1, <3>2, <3>3
  <2> QED BY <2>8, <2>9, Zenon DEF m, w, Adds
<1>5. CASE same # {}
  <2>1. c \in same
    <3>1. same \in SUBSET Nat
      BY <1>2
    <3>2. \E i \in same : \A j \in same : i <= j
      BY <1>5, <3>1, LeastNumber, Zenon
    <3> HIDE DEF same
    <3> QED BY <3>2, Zenon
  <2>2. c \in 1..Len(l) /\ l[c].sidpattern = a.pattern /\ l[c].pubversion = a.version
    BY <1>2, <2>1
  <2> HIDE DEF c, same
  <2> DEFINE t == [l[c] EXCEPT !.timewindows = <<w>> \o @]
  <2>3. /\ t \in OneSelection /\ t.timewindows # <<>>
        /\ \A p, v, x : HasWindow(t, p, v, x) <=>
             HasWindow(l[c], p, v, x) \/ (p = a.pattern /\ v = a.version /\ x = w)
    <3>1. /\ t \in OneSelection /\ t.timewindows # <<>>
          /\ \A p, v, x : HasWindow(t, p, v, x) <=>
               HasWindow(l[c], p, v, x) \/ (p = l[c].sidpattern /\ v = l[c].pubversion /\ x = w)
      BY <1>1, <1>2, <2>2, WindowAdded
    <3> QED BY <2>2, <3>1, Zenon
  <2>4. m = [l EXCEPT ![c] = t]
    BY <1>3, <1>5
  <2> HIDE DEF t
  <2>5. m \in Seq(OneSelection) /\ Len(m) = Len(l) /\ m[c] = t /\ \A i \in 1..Len(l) : i # c => m[i] = l[i]
    BY <1>2, <2>2, <2>3, <2>4
  <2>6. m \in SelectionList
    <3>1. \A i \in 1..Len(m) : m[i].timewindows # <<>>
      BY <1>2, <2>3, <2>5
    <3> QED BY <2>5, <3>1 DEF SelectionList
  <2>7. \A p, v, x : Holds(m, p, v, x) <=> Holds(l, p, v, x) \/ (p = a.pattern /\ v = a.version /\ x = w)
    BY <2>2, <2>3, <2>5, Zenon DEF Holds
  <2> QED BY <2>6, <2>7, Zenon DEF m, w, Adds
<1> QED BY <1>4, <1>5

(* The list that the requests make, in their order; what one asks for.     *)
Listed(added) == FoldLeft(LAMBDA l, a : AddSelect(l, a.pattern, a.start, a.end, a.version), <<>>, added)

AskedBy(a, p, v, x) == p = a.pattern /\ v = a.version /\ x = [start |-> a.start, end |-> a.end]

(* What is in the list once the first m are added.                         *)
Lists(l, added, m) ==
  /\ l \in SelectionList
  /\ \A p, v, x : Holds(l, p, v, x) <=>
       \E i \in 1..m : AskedBy(added[i], p, v, x)

(* The fold that adds them one by one has done so.                         *)
LEMMA ListedIs ==
  ASSUME NEW added \in Seq(Request)
  PROVE  Lists(Listed(added), added, Len(added))
<1> DEFINE n == Len(added)
           S == SUBSET (1..n)
           V == SelectionList
           Grown(l, a) == AddSelect(l, a.pattern, a.start, a.end, a.version)
           Fold(f) == [s \in S |-> IF s = {} THEN <<>> ELSE Grown(f[s \ {Max(s)}], added[Max(s)])]
           fold == CHOOSE f : f = Fold(f)
           step == [i \in 1..n |-> [l \in V |-> Grown(l, added[i])]]
<1>1. n \in Nat /\ DOMAIN added = 1..n /\ \A i \in 1..n : added[i] \in Request
  OBVIOUS
<1>2. Listed(added) = fold[1..n]
  BY <1>1, Zenon DEF Listed, FoldLeft, MapThenFoldSet
<1> HIDE DEF n
<1>3. <<>> \in V
  BY DEF SelectionList
<1>4. \A l \in V : \A i \in 1..n : Grown(l, added[i]) \in V
  BY <1>1, AddSelectIs DEF Adds
<1>5. step \in [1..n -> [V -> V]] /\ \A i \in 1..n : \A l \in V : step[i][l] = Grown(l, added[i])
  <2> HIDE DEF V, Grown
  <2> QED BY <1>4, Zenon
<1> HIDE DEF step
<1>6. PICK f \in [S -> V] : \A s \in S : Folding(f, s, <<>>, step)
  <2> HIDE DEF V
  <2> QED BY <1>1, <1>3, <1>5, FoldExists
<1> HIDE DEF V
<1>7. f = Fold(f)
  <2>1. ASSUME NEW s \in S
        PROVE  f[s] = IF s = {} THEN <<>> ELSE Grown(f[s \ {Max(s)}], added[Max(s)])
    <3>1. f[s] = IF s = {} THEN <<>> ELSE step[Max(s)][f[s \ {Max(s)}]]
      BY <1>6, Zenon DEF Folding
    <3>2. CASE s = {}
      BY <3>1, <3>2
    <3>3. CASE s # {}
      <4>1. Max(s) \in 1..n /\ s \ {Max(s)} \in S
        BY <1>1, <3>3, GreatestPlace
      <4> QED BY <1>5, <1>6, <3>1, <3>3, <4>1, Zenon
    <3> QED BY <3>2, <3>3
  <2>2. f = [s \in S |-> f[s]]
    BY <1>6
  <2> QED BY <2>1, <2>2, Zenon
<1>8. fold = Fold(fold)
  <2> HIDE DEF Fold
  <2> QED BY <1>7
<1>9. \A s \in S : fold[s] = IF s = {} THEN <<>> ELSE Grown(fold[s \ {Max(s)}], added[Max(s)])
  <2> HIDE DEF fold, Grown
  <2>1. \A s \in S : Fold(fold)[s] = IF s = {} THEN <<>> ELSE Grown(fold[s \ {Max(s)}], added[Max(s)])
    BY Zenon
  <2> HIDE DEF Fold
  <2> QED BY <1>8, <2>1, Zenon
<1> HIDE DEF fold, Fold, Grown
<1> DEFINE Right(m) == Lists(fold[1..m], added, m)
           T == {m \in Nat : m <= n => Right(m)}
<1>10. 0 \in T
  <2>1. 1..0 = {} /\ {} \in S
    OBVIOUS
  <2>2. fold[1..0] = <<>>
    BY <1>9, <2>1
  <2>3. \A p, v, x : ~Holds(<<>>, p, v, x)
    BY DEF Holds
  <2> QED BY <1>3, <2>1, <2>2, <2>3 DEF V, Lists
<1>11. ASSUME NEW m \in T PROVE m + 1 \in T
  <2> SUFFICES ASSUME m + 1 <= n PROVE Right(m + 1)
    BY <1>11
  <2>1. m \in Nat /\ Right(m)
    BY <1>1, <1>11
  <2> DEFINE s == 1..(m + 1)
  <2>0. m \in Nat
    BY <2>1
  <2>2. s \in S /\ s # {} /\ m + 1 \in s /\ (\A k \in s : k <= m + 1) /\ s \ {m + 1} = 1..m
    <3> HIDE DEF Right
    <3> QED BY <1>1, <2>0
  <2>3. Max(s) = m + 1
    <3>1. Max(s) \in s /\ \A k \in s : k <= Max(s)
      BY <1>1, <2>2, GreatestPlace
    <3> QED BY <2>1, <2>2, <3>1
  <2>4. fold[1..(m + 1)] = Grown(fold[1..m], added[m + 1])
    BY <1>9, <2>2, <2>3, Zenon
  <2> HIDE DEF s
  <2>5. added[m + 1] \in Request /\ fold[1..m] \in SelectionList
    BY <1>1, <2>1 DEF Lists
  <2> DEFINE l == fold[1..m]
             k == fold[1..(m + 1)]
             a == added[m + 1]
  <2>8. k = AddSelect(l, a.pattern, a.start, a.end, a.version)
    BY <2>4 DEF Grown
  <2>9. l \in SelectionList /\ a \in Request
    BY <2>5
  <2> HIDE DEF k, l, a
  <2>6. Adds(l, k, a)
    BY <2>8, <2>9, AddSelectIs
  <2>7. \A i : i \in 1..(m + 1) <=> i \in 1..m \/ i = m + 1
    BY <2>1
  <2>10. Lists(l, added, m)
    BY <2>1 DEF l
  <2>11. Lists(k, added, m + 1)
    <3> DEFINE w == [start |-> a.start, end |-> a.end]
    <3> SUFFICES ASSUME NEW p, NEW v, NEW x
                 PROVE  Holds(k, p, v, x) <=>
                          \E i \in 1..(m + 1) : AskedBy(added[i], p, v, x)
      BY <2>6, Zenon DEF Lists, Adds
    <3>1. Holds(k, p, v, x) <=> Holds(l, p, v, x) \/ (p = a.pattern /\ v = a.version /\ x = w)
      BY <2>6, Zenon DEF Adds
    <3> DEFINE Is(i) == AskedBy(added[i], p, v, x)
    <3>2. Holds(l, p, v, x) <=> \E i \in 1..m : Is(i)
      BY <2>10, Zenon DEF Lists
    <3>3. (p = a.pattern /\ v = a.version /\ x = w) <=> Is(m + 1)
      BY DEF a, AskedBy
    <3> HIDE DEF Is, w
    <3>4. Holds(k, p, v, x) <=> \E i \in 1..(m + 1) : Is(i)
      BY <2>7, <3>1, <3>2, <3>3, Zenon
    <3> QED BY <3>4, Zenon DEF Is
  <2> QED BY <2>11 DEF k
<1> HIDE DEF T
<1>12. \A m \in Nat : m \in T
  <2>1. T \in SUBSET Nat
    BY DEF T
  <2> QED BY <1>10, <1>11, <2>1, Induction
<1>13. Right(n)
  <2>1. n \in T /\ n <= n
    BY <1>1, <1>12
  <2> HIDE DEF Right
  <2> QED BY <2>1 DEF T
<1> QED BY <1>2, <1>13 DEF n

(* Which windows a record meets.                                           *)
Meets(w, start, end) == (w.start = <<>> \/ w.start[1] <= end) /\ (w.end = <<>> \/ start <= w.end[1])

(* The tests of a window, as they are when the record's times are set.     *)
LEMMA PassedOverIs ==
  ASSUME NEW w \in Window, NEW start \in Int, NEW end \in Int, start <= end
  PROVE  ~PassedOver(w, <<start>>, <<end>>) <=> Meets(w, start, end)
<1>1. w.start \in TimeOrNone /\ w.end \in TimeOrNone
  BY DEF Window
<1>2. w.start = <<>> \/ (w.start # <<>> /\ w.start[1] \in Int)
  BY <1>1 DEF TimeOrNone
<1>3. w.end = <<>> \/ (w.end # <<>> /\ w.end[1] \in Int)
  BY <1>1 DEF TimeOrNone
<1> DEFINE s == <<start>>
           e == <<end>>
<1>4. s # <<>> /\ e # <<>> /\ s[1] = start /\ e[1] = end
  OBVIOUS
<1> HIDE DEF s, e
<1>5. ~PassedOver(w, s, e) <=> Meets(w, start, end)
  BY <1>2, <1>3, <1>4 DEF PassedOver, Meets, AtMost
<1> QED BY <1>5 DEF s, e

(* ms3_addselect() and ms3_matchselect(): whatever was added, in whatever  *)
(* order, a record is selected if and only if one of the selections has    *)
(* its identifier, its version and a time in common with it; the window    *)
(* that is found is that of such a selection.                              *)
THEOREM SelectedWhenAsked ==
  ASSUME NEW added \in Seq(Request), NEW sid, NEW start \in Int, NEW end \in Int, start <= end, NEW version \in Nat
  PROVE  RecordSelected(added, sid, start, end, version)
<1> DEFINE list == Listed(added)
           Least(S) == CHOOSE i \in S : \A j \in S : i <= j
           Windows(i) == {j \in DOMAIN list[i].timewindows : ~PassedOver(list[i].timewindows[j], <<start>>, <<end>>)}
           Hits == {i \in DOMAIN list :
                     /\ GlobMatch(sid, list[i].sidpattern)
                     /\ list[i].pubversion \in {0, version}
                     /\ list[i].timewindows = <<>> \/ Windows(i) # {}}
           Hit(i) == IF list[i].timewindows = <<>> THEN <<i, 0>> ELSE <<i, Least(Windows(i))>>
           hit == MatchSelect(list, sid, <<start>>, <<end>>, version)
           Selects(a) == /\ GlobMatch(sid, a.pattern) /\ a.version \in {0, version}
                         /\ a.start = <<>> \/ a.start[1] <= end
                         /\ a.end = <<>> \/ start <= a.end[1]
           Selecting == {i \in DOMAIN added : Selects(added[i])}
<1>1. Lists(list, added, Len(added))
  BY ListedIs
<1>2. hit = IF Hits = {} THEN <<>> ELSE Hit(Least(Hits))
  BY Zenon DEF MatchSelect
<1>3. DOMAIN added = 1..Len(added) /\ \A i \in 1..Len(added) : added[i] \in Request
  OBVIOUS
<1> HIDE DEF list, hit
<1>4. DOMAIN list = 1..Len(list) /\ Len(list) \in Nat
      /\ \A i \in 1..Len(list) : list[i] \in OneSelection /\ list[i].timewindows # <<>>
  BY <1>1 DEF SelectionList, Lists
<1>5. \A i \in 1..Len(list) : /\ DOMAIN list[i].timewindows = 1..Len(list[i].timewindows)
                              /\ \A j \in 1..Len(list[i].timewindows) : list[i].timewindows[j] \in Window
  BY <1>4 DEF OneSelection
<1>6. \A i \in 1..Len(list) : Windows(i) = {j \in 1..Len(list[i].timewindows) : Meets(list[i].timewindows[j], start, end)}
  BY <1>5, PassedOverIs
<1>7. \A i \in 1..Len(added) :
        Selects(added[i]) <=>
          /\ GlobMatch(sid, added[i].pattern) /\ added[i].version \in {0, version}
          /\ Meets([start |-> added[i].start, end |-> added[i].end], start, end)
  BY DEF Meets
<1>8. ASSUME NEW i \in Hits
      PROVE  /\ Hit(i) = <<i, Least(Windows(i))>> /\ Least(Windows(i)) \in Windows(i)
             /\ \E k \in Selecting : [start |-> added[k].start, end |-> added[k].end]
                                        = list[i].timewindows[Least(Windows(i))]
  <2>1. i \in 1..Len(list) /\ list[i].timewindows # <<>> /\ Windows(i) # {}
        /\ GlobMatch(sid, list[i].sidpattern) /\ list[i].pubversion \in {0, version}
    BY <1>4, <1>8
  <2>2. Least(Windows(i)) \in Windows(i)
    <3>1. Windows(i) \in SUBSET Nat
      BY <1>5, <2>1
    <3>2. \E k \in Windows(i) : \A j \in Windows(i) : k <= j
      BY <2>1, <3>1, LeastNumber, Zenon
    <3> HIDE DEF Windows
    <3> QED BY <3>2, Zenon
  <2>3. PICK j : j = Least(Windows(i))
    OBVIOUS
  <2> HIDE DEF Least
  <2>4. j \in 1..Len(list[i].timewindows) /\ Meets(list[i].timewindows[j], start, end)
    BY <1>6, <2>1, <2>2, <2>3
  <2> DEFINE x == list[i].timewindows[j]
  <2>5. Holds(list, list[i].sidpattern, list[i].pubversion, x)
    BY <2>1, <2>4, Zenon DEF Holds, HasWindow
  <2>6. PICK k \in 1..Len(added) : /\ list[i].sidpattern = added[k].pattern /\ list[i].pubversion = added[k].version
                                   /\ x = [start |-> added[k].start, end |-> added[k].end]
    <3>1. PICK p, v, w : p = list[i].sidpattern /\ v = list[i].pubversion /\ w = x
      OBVIOUS
    <3> HIDE DEF x
    <3>2. Holds(list, p, v, w)
      BY <2>5, <3>1
    <3>3. \E k \in 1..Len(added) : AskedBy(added[k], p, v, w)
      BY <1>1, <3>2, Zenon DEF Lists
    <3> QED BY <3>1, <3>3, Zenon DEF AskedBy
  <2> HIDE DEF Selects
  <2>7. Selects(added[k])
    BY <1>7, <2>1, <2>4, <2>6, Zenon
  <2> QED BY <1>3, <2>1, <2>2, <2>3, <2>6, <2>7
<1>9. ASSUME NEW k \in Selecting PROVE Hits # {}
  <2>1. k \in 1..Len(added) /\ Selects(added[k])
    BY <1>3, <1>9
  <2> DEFINE x == [start |-> added[k].start, end |-> added[k].end]
  <2>2. GlobMatch(sid, added[k].pattern) /\ added[k].version \in {0, version} /\ Meets(x, start, end)
    BY <1>7, <2>1
  <2> HIDE DEF x
  <2>3. Holds(list, added[k].pattern, added[k].version, x)
    BY <1>1, <2>1, Zenon DEF x, Lists, AskedBy
  <2>4. PICK i \in 1..Len(list) : HasWindow(list[i], added[k].pattern, added[k].version, x)
    BY <2>3, Zenon DEF Holds
  <2>5. PICK j \in 1..Len(list[i].timewindows) : list[i].timewindows[j] = x
    BY <2>4 DEF HasWindow
  <2>6. j \in Windows(i)
    BY <1>6, <2>2, <2>5
  <2>7. i \in Hits
    BY <1>4, <2>2, <2>4, <2>6 DEF HasWindow
  <2> QED BY <2>7
<1>10. CASE Hits = {}
  <2>1. hit = <<>>
    BY <1>2, <1>10
  <2>2. Selecting = {}
    BY <1>9, <1>10
  <2> QED BY <2>1, <2>2, Zenon DEF RecordSelected, hit, list, Listed
<1>11. CASE Hits # {}
  <2>1. Least(Hits) \in Hits
    <3>1. Hits \in SUBSET Nat
      BY <1>4
    <3>2. \E k \in Hits : \A j \in Hits : k <= j
      BY <1>11, <3>1, LeastNumber, Zenon
    <3> HIDE DEF Hits
    <3> QED BY <3>2, Zenon
  <2>2. PICK i \in Hits : i = Least(Hits)
    BY <2>1
  <2>3. PICK j : j = Least(Windows(i))
    OBVIOUS
  <2>4. hit = <<i, j>>
    BY <1>2, <1>8, <1>11, <2>2, <2>3
  <2>5. PICK k \in Selecting : [start |-> added[k].start, end |-> added[k].end] = list[i].timewindows[j]
    BY <1>8, <2>3
  <2>6. hit # <<>> /\ hit[1] = i /\ hit[2] = j
    BY <2>4
  <2>7. \E q \in Selecting : /\ added[q].start = list[hit[1]].timewindows[hit[2]].start
                             /\ added[q].end = list[hit[1]].timewindows[hit[2]].end
    BY <2>5, <2>6
  <2> QED BY <2>6, <2>7, Zenon DEF RecordSelected, hit, list, Listed
<1> QED BY <1>10, <1>11

-----------------------------------------------------------------------------
(* The Steim encodings.                                                    *)
Widths == {4, 5, 6, 8, 10, 15, 16, 30, 32}

(* Whether a number fits so many bits.                                     *)
FitsIn(v, b) == b = 32 \/ (v >= -Pow2(b - 1) /\ v < Pow2(b - 1))

(* The powers of the widths.                                               *)
LEMMA Powers ==
  /\ Pow2(3) = 8 /\ Pow2(4) = 16 /\ Pow2(5) = 32 /\ Pow2(6) = 64 /\ Pow2(7) = 128 /\ Pow2(8) = 256
  /\ Pow2(9) = 512 /\ Pow2(10) = 1024 /\ Pow2(14) = 16384 /\ Pow2(15) = 32768 /\ Pow2(16) = 65536
  /\ Pow2(29) = 536870912 /\ Pow2(30) = 1073741824
BY DEF Pow2

(* Remainders of numbers that are near.                                    *)
LEMMA ModSmall ==
  ASSUME NEW p \in Nat \ {0}, NEW v \in 0..(p - 1)
  PROVE  v % p = v
OBVIOUS

(* The remainder of a negative one.                                        *)
LEMMA ModUp ==
  ASSUME NEW p \in Nat \ {0}, NEW v \in Int, v + p \in 0..(p - 1)
  PROVE  v % p = v + p
OBVIOUS

(* The width of a difference is the least that it fits.                    *)
LEMMA BitWidthIs ==
  ASSUME NEW v \in Int
  PROVE  /\ BitWidth(v) \in Widths /\ FitsIn(v, BitWidth(v))
         /\ \A b \in Widths : b < BitWidth(v) => ~FitsIn(v, b)
<1> DEFINE T == {b \in Widths : FitsIn(v, b)}
           Is(b) == FitsIn(v, b) /\ \A c \in Widths : c < b => ~FitsIn(v, c)
<1>1. 32 \in T /\ T \in SUBSET Nat
  BY DEF Widths, FitsIn
<1>2. PICK m \in T : \A k \in T : m <= k
  BY <1>1, LeastNumber
<1>3. \A c \in Widths : c < m => ~FitsIn(v, c)
  <2> SUFFICES ASSUME NEW c \in Widths, c < m, FitsIn(v, c) PROVE FALSE
    OBVIOUS
  <2>1. c \in T
    OBVIOUS
  <2>2. m <= c /\ m \in Nat /\ c \in Nat
    BY <1>1, <1>2, <2>1
  <2> QED BY <2>2
<1>4. m \in Widths /\ Is(m)
  BY <1>2, <1>3
<1>5. BitWidth(v) = CHOOSE b \in Widths : Is(b)
  BY Zenon DEF BitWidth, FitsIn, Widths
<1> HIDE DEF Is, Widths
<1>6. BitWidth(v) \in Widths /\ Is(BitWidth(v))
  BY <1>4, <1>5, Zenon
<1> QED BY <1>6 DEF Is

(* What fits so many bits is read from them.                               *)
LEMMA SignedIs ==
  ASSUME NEW v \in Int, NEW bits \in Widths, BitWidth(v) <= bits
  PROVE  Signed(v, bits) = v
<1>1. PICK b \in Widths : b = BitWidth(v) /\ FitsIn(v, b) /\ b <= bits
  BY BitWidthIs
<1>2. CASE bits = 32
  BY <1>2 DEF Signed
<1>3. CASE bits # 32
  <2>1. b \in {4, 5, 6, 8, 10, 15, 16, 30} /\ bits \in {4, 5, 6, 8, 10, 15, 16, 30}
    BY <1>1, <1>3 DEF Widths
  <2>2. /\ (4 - 1 = 3) /\ (5 - 1 = 4) /\ (6 - 1 = 5) /\ (8 - 1 = 7) /\ (10 - 1 = 9) /\ (15 - 1 = 14)
        /\ (16 - 1 = 15) /\ (30 - 1 = 29)
    OBVIOUS
  <2>3. v >= -Pow2(bits - 1) /\ v < Pow2(bits - 1)
    <3>1. v >= -Pow2(b - 1) /\ v < Pow2(b - 1)
      BY <1>1, <2>1 DEF FitsIn
    <3>2. Pow2(b - 1) <= Pow2(bits - 1) /\ Pow2(b - 1) \in Nat /\ Pow2(bits - 1) \in Nat
      BY <1>1, <2>1, <2>2, Powers
    <3> QED BY <3>1, <3>2
  <2> DEFINE h == Pow2(bits - 1)
             p == Pow2(bits)
             low == v % p
  <2>4. h \in Nat \ {0} /\ p = 2 * h
    BY <2>1, <2>2, Powers
  <2>5. Signed(v, bits) = IF low >= h THEN low - p ELSE low
    BY <1>3 DEF Signed
  <2>6. v >= -h /\ v < h
    BY <2>3
  <2> HIDE DEF h, p
  <2>7. p \in Nat \ {0}
    BY <2>4
  <2>8. CASE v >= 0
    <3>1. v % p = v
      BY <2>4, <2>6, <2>8, ModSmall
    <3> QED BY <2>4, <2>5, <2>6, <3>1
  <2>9. CASE v < 0
    <3>1. v % p = v + p
      <4>1. (v + p) \in 0..(p - 1)
        BY <2>4, <2>6, <2>9
      <4> QED BY <2>7, <4>1, ModUp
    <3> QED BY <2>4, <2>5, <2>6, <2>9, <3>1
  <2> QED BY <2>8, <2>9
<1> QED BY <1>2, <1>3

(* The words, and what is read from them.                                  *)
Packings == {Packing(4, 8), Packing(2, 16), Packing(1, 32), Packing(7, 4), Packing(6, 5), Packing(5, 6),
             Packing(3, 10), Packing(2, 15), Packing(1, 30)}
Word == {w \in [packing : Packings, diffs : Seq(Int)] :
           Len(w.diffs) = w.packing.n /\ \A j \in 1..Len(w.diffs) : BitWidth(w.diffs[j]) <= w.packing.bits}

(* The packings there are; the last one of each is the widest.             *)
LEMMA PackingsAre ==
  /\ \A p \in Packings : p.n \in 1..7 /\ p.bits \in Widths
  /\ Steim1 \in Seq(Packings) /\ Len(Steim1) = 3 /\ Steim1[3] = Packing(1, 32)
  /\ Steim2 \in Seq(Packings) /\ Len(Steim2) = 7 /\ Steim2[7] = Packing(1, 30)
<1>1. \A p \in Packings : p.n \in 1..7 /\ p.bits \in Widths
  BY DEF Packings, Packing, Widths
<1> HIDE DEF Packing
<1>2. Steim1 \in Seq(Packings) /\ Len(Steim1) = 3 /\ Steim1[3] = Packing(1, 32)
  BY DEF Steim1, Packings
<1>3. Steim2 \in Seq(Packings) /\ Len(Steim2) = 7 /\ Steim2[7] = Packing(1, 30)
  BY DEF Steim2, Packings
<1> QED BY <1>1, <1>2, <1>3

(* A word is read as the differences in it.                                *)
LEMMA WordRead ==
  ASSUME NEW w \in Word
  PROVE  DecodeWord(w) = w.diffs /\ w.diffs \in Seq(Int)
<1>1. w.diffs \in Seq(Int) /\ w.packing.bits \in Widths
  BY PackingsAre DEF Word
<1>2. \A j \in 1..Len(w.diffs) : BitWidth(w.diffs[j]) <= w.packing.bits
  BY DEF Word
<1>3. DOMAIN w.diffs = 1..Len(w.diffs) /\ \A j \in 1..Len(w.diffs) : w.diffs[j] \in Int
  BY <1>1
<1>4. \A j \in 1..Len(w.diffs) : Signed(w.diffs[j], w.packing.bits) = w.diffs[j]
  BY <1>1, <1>2, <1>3, SignedIs
<1>5. DecodeWord(w) = [j \in 1..Len(w.diffs) |-> w.diffs[j]]
  BY <1>3, <1>4, Zenon DEF DecodeWord
<1> QED BY <1>1, <1>3, <1>5

(* The differences in words, one after the other.                          *)
DiffsOf(words) == FoldLeft(LAMBDA d, w : d \o DecodeWord(w), <<>>, words)

Joins(words, P) ==
  /\ P \in [0..Len(words) -> Seq(Int)] /\ P[0] = <<>>
  /\ \A m \in 1..Len(words) : P[m] = P[m - 1] \o words[m].diffs

(* The fold that reads words has read the beginnings on its way.           *)
LEMMA ReadIs ==
  ASSUME NEW words \in Seq(Word)
  PROVE  \E P : Joins(words, P) /\ DiffsOf(words) = P[Len(words)]
<1> DEFINE n == Len(words)
           S == SUBSET (1..n)
           V == Seq(Int)
           Fold(f) == [s \in S |-> IF s = {} THEN <<>> ELSE f[s \ {Max(s)}] \o DecodeWord(words[Max(s)])]
           fold == CHOOSE f : f = Fold(f)
           step == [i \in 1..n |-> [d \in V |-> d \o DecodeWord(words[i])]]
<1>1. n \in Nat /\ DOMAIN words = 1..n /\ \A i \in 1..n : words[i] \in Word
  OBVIOUS
<1>2. DiffsOf(words) = fold[1..n]
  BY <1>1, Zenon DEF DiffsOf, FoldLeft, MapThenFoldSet
<1> HIDE DEF n
<1>3. \A i \in 1..n : DecodeWord(words[i]) = words[i].diffs /\ DecodeWord(words[i]) \in Seq(Int)
  BY <1>1, WordRead
<1>4. \A d \in V : \A i \in 1..n : d \o DecodeWord(words[i]) \in V
  BY <1>3
<1>5. step \in [1..n -> [V -> V]] /\ \A i \in 1..n : \A d \in V : step[i][d] = d \o DecodeWord(words[i])
  <2> HIDE DEF V
  <2> QED BY <1>4, Zenon
<1> HIDE DEF step
<1>6. PICK f \in [S -> V] : \A s \in S : Folding(f, s, <<>>, step)
  <2>1. <<>> \in V
    OBVIOUS
  <2> HIDE DEF V
  <2> QED BY <1>1, <1>5, <2>1, FoldExists
<1>7. f = Fold(f)
  <2>1. ASSUME NEW s \in S
        PROVE  f[s] = IF s = {} THEN <<>> ELSE f[s \ {Max(s)}] \o DecodeWord(words[Max(s)])
    <3>1. f[s] = IF s = {} THEN <<>> ELSE step[Max(s)][f[s \ {Max(s)}]]
      BY <1>6, Zenon DEF Folding
    <3>2. CASE s = {}
      BY <3>1, <3>2
    <3>3. CASE s # {}
      <4>1. Max(s) \in 1..n /\ s \ {Max(s)} \in S
        BY <1>1, <3>3, GreatestPlace
      <4> HIDE DEF V
      <4> QED BY <1>5, <1>6, <3>1, <3>3, <4>1, Zenon
    <3> QED BY <3>2, <3>3
  <2>2. f = [s \in S |-> f[s]]
    BY <1>6
  <2> QED BY <2>1, <2>2, Zenon
<1>8. fold = Fold(fold)
  <2> HIDE DEF Fold
  <2> QED BY <1>7
<1>9. \A s \in S : fold[s] = IF s = {} THEN <<>> ELSE fold[s \ {Max(s)}] \o DecodeWord(words[Max(s)])
  <2> HIDE DEF fold
  <2>1. \A s \in S : Fold(fold)[s] = IF s = {} THEN <<>> ELSE fold[s \ {Max(s)}] \o DecodeWord(words[Max(s)])
    BY Zenon
  <2> HIDE DEF Fold
  <2> QED BY <1>8, <2>1, Zenon
<1> HIDE DEF fold, Fold
<1> DEFINE P == [m \in 0..n |-> fold[1..m]]
<1>10. P[0] = <<>>
  <2>1. 1..0 = {} /\ {} \in S /\ 0 \in 0..n
    BY <1>1
  <2> QED BY <1>9, <2>1
<1>11. ASSUME NEW m \in 1..n PROVE P[m] = P[m - 1] \o words[m].diffs
  <2> DEFINE s == 1..m
  <2>1. s \in S /\ s # {} /\ m \in s /\ (\A k \in s : k <= m) /\ s \ {m} = 1..(m - 1)
    BY <1>1
  <2>2. Max(s) = m
    <3>1. Max(s) \in s /\ \A k \in s : k <= Max(s)
      BY <1>1, <2>1, GreatestPlace
    <3> QED BY <2>1, <3>1
  <2>3. fold[1..m] = fold[1..(m - 1)] \o DecodeWord(words[m])
    BY <1>9, <2>1, <2>2, Zenon
  <2>4. m \in 0..n /\ m - 1 \in 0..n
    BY <1>1
  <2> QED BY <1>3, <2>3, <2>4
<1> DEFINE T == {m \in Nat : m <= n => P[m] \in Seq(Int)}
<1>12. 0 \in T
  <2> HIDE DEF P
  <2>1. P[0] \in Seq(Int)
    <3>1. <<>> \in Seq(Int)
      OBVIOUS
    <3> QED BY <1>10, <3>1, Zenon
  <2> QED BY <2>1
<1>13. ASSUME NEW m \in T PROVE m + 1 \in T
  <2> SUFFICES ASSUME m + 1 <= n PROVE P[m + 1] \in Seq(Int)
    BY <1>13
  <2> HIDE DEF P
  <2>1. m \in Nat /\ m + 1 \in 1..n /\ (m + 1) - 1 = m /\ P[m] \in Seq(Int)
    BY <1>1, <1>13
  <2>2. words[m + 1].diffs \in Seq(Int)
    BY <1>3, <2>1
  <2>3. P[m + 1] = P[m] \o words[m + 1].diffs
    BY <1>11, <2>1
  <2> QED BY <2>1, <2>2, <2>3
<1> HIDE DEF T
<1>14. \A m \in Nat : m \in T
  <2>1. T \in SUBSET Nat
    BY DEF T
  <2> QED BY <1>12, <1>13, <2>1, Induction
<1>15. P \in [0..n -> Seq(Int)]
  <2>1. \A m \in 0..n : P[m] \in Seq(Int)
    <3> HIDE DEF P
    <3> QED BY <1>1, <1>14 DEF T
  <2>2. P = [m \in 0..n |-> P[m]]
    BY Zenon
  <2> HIDE DEF P
  <2> QED BY <2>1, <2>2, Zenon
<1>16. DiffsOf(words) = P[n]
  BY <1>1, <1>2
<1> HIDE DEF P
<1>17. Joins(words, P)
  BY <1>10, <1>11, <1>15 DEF Joins, n
<1> QED BY <1>16, <1>17 DEF n

(* A word more.                                                            *)
LEMMA ReadMore ==
  ASSUME NEW words \in Seq(Word), NEW w \in Word
  PROVE  DiffsOf(<<>>) = <<>> /\ DiffsOf(words) \in Seq(Int) /\ DiffsOf(words \o <<w>>) = DiffsOf(words) \o w.diffs
<1>1. DiffsOf(<<>>) = <<>>
  <2>1. <<>> \in Seq(Word) /\ Len(<<>>) = 0
    OBVIOUS
  <2>2. PICK P : Joins(<<>>, P) /\ DiffsOf(<<>>) = P[Len(<<>>)]
    BY <2>1, ReadIs
  <2> QED BY <2>1, <2>2 DEF Joins
<1>2. PICK P : Joins(words, P) /\ DiffsOf(words) = P[Len(words)]
  BY ReadIs
<1> DEFINE q == words \o <<w>>
           n == Len(words)
<1>3. q \in Seq(Word) /\ Len(q) = n + 1 /\ n \in Nat /\ q[n + 1] = w /\ \A m \in 1..n : q[m] = words[m]
  OBVIOUS
<1> HIDE DEF q
<1>4. PICK Q : Joins(q, Q) /\ DiffsOf(q) = Q[Len(q)]
  BY <1>3, ReadIs
<1> DEFINE T == {m \in Nat : m <= n => P[m] = Q[m]}
<1>5. 0 \in T
  BY <1>2, <1>4 DEF Joins
<1>6. ASSUME NEW m \in T PROVE m + 1 \in T
  <2> SUFFICES ASSUME m + 1 <= n PROVE P[m + 1] = Q[m + 1]
    BY <1>6
  <2>1. m \in Nat /\ m + 1 \in 1..n /\ m + 1 \in 1..Len(q) /\ (m + 1) - 1 = m /\ P[m] = Q[m]
    BY <1>3, <1>6
  <2>2. P[m + 1] = P[m] \o words[m + 1].diffs /\ Q[m + 1] = Q[m] \o q[m + 1].diffs
    BY <1>2, <1>4, <2>1 DEF Joins
  <2> QED BY <1>3, <2>1, <2>2
<1> HIDE DEF T
<1>7. \A m \in Nat : m \in T
  <2>1. T \in SUBSET Nat
    BY DEF T
  <2> QED BY <1>5, <1>6, <2>1, Induction
<1>8. P[n] = Q[n]
  BY <1>3, <1>7 DEF T
<1>9. Q[n + 1] = Q[n] \o w.diffs
  <2>1. n + 1 \in 1..Len(q) /\ (n + 1) - 1 = n
    BY <1>3
  <2> QED BY <1>3, <1>4, <2>1 DEF Joins
<1>10. P[n] \in Seq(Int)
  BY <1>2, <1>3 DEF Joins
<1> QED BY <1>1, <1>2, <1>3, <1>4, <1>8, <1>9, <1>10 DEF q

(* Parts of a sequence.                                                    *)
LEMMA PartIs ==
  ASSUME NEW S, NEW q \in Seq(S), NEW a \in 1..(Len(q) + 1), NEW b \in (a - 1)..Len(q)
  PROVE  /\ SubSeq(q, a, b) \in Seq(S) /\ Len(SubSeq(q, a, b)) = b - a + 1
         /\ \A j \in 1..(b - a + 1) : SubSeq(q, a, b)[j] = q[a + j - 1]
<1>1. SubSeq(q, a, b) = [j \in 1..(b - a + 1) |-> q[a + j - 1]]
  OBVIOUS
<1>2. \A j \in 1..(b - a + 1) : a + j - 1 \in 1..Len(q) /\ q[a + j - 1] \in S
  OBVIOUS
<1>3. b - a + 1 \in Nat
  OBVIOUS
<1> QED BY <1>1, <1>2, <1>3

(* Two parts that meet are one.                                            *)
LEMMA PartsJoin ==
  ASSUME NEW S, NEW q \in Seq(S), NEW a \in 1..Len(q), NEW b \in (a - 1)..Len(q)
  PROVE  SubSeq(q, 1, a - 1) \o SubSeq(q, a, b) = SubSeq(q, 1, b)
<1> DEFINE f == SubSeq(q, 1, a - 1)
           g == SubSeq(q, a, b)
           h == SubSeq(q, 1, b)
<1>1. f \in Seq(S) /\ Len(f) = a - 1 /\ \A j \in 1..(a - 1) : f[j] = q[j]
  BY PartIs
<1>2. g \in Seq(S) /\ Len(g) = b - a + 1 /\ \A j \in 1..(b - a + 1) : g[j] = q[a + j - 1]
  BY PartIs
<1>3. h \in Seq(S) /\ Len(h) = b /\ \A j \in 1..b : h[j] = q[j]
  BY PartIs
<1> HIDE DEF f, g, h
<1>0. PICK n \in Nat : n = Len(q)
  OBVIOUS
<1>4. a \in Nat /\ b \in Nat /\ a >= 1 /\ b - a + 1 \in Nat /\ (a - 1) + (b - a + 1) = b
  BY <1>0
<1>5. f \o g \in Seq(S) /\ Len(f \o g) = Len(f) + Len(g)
      /\ \A j \in 1..(Len(f) + Len(g)) : (f \o g)[j] = IF j <= Len(f) THEN f[j] ELSE g[j - Len(f)]
  <2>1. f \in Seq(S) /\ g \in Seq(S)
    BY <1>1, <1>2
  <2> QED BY <2>1, ConcatProperties
<1>7. \A j \in 1..b : (f \o g)[j] = h[j]
  <2> TAKE j \in 1..b
  <2>1. (f \o g)[j] = IF j <= a - 1 THEN f[j] ELSE g[j - (a - 1)]
    BY <1>1, <1>2, <1>4, <1>5
  <2>2. j \in Nat /\ j >= 1 /\ j <= b
    BY <1>4
  <2>3. CASE j <= a - 1
    <3>1. j \in 1..(a - 1) /\ j \in 1..b
      BY <1>4, <2>2, <2>3
    <3>2. (f \o g)[j] = f[j]
      BY <2>1, <2>3
    <3> QED BY <1>1, <1>3, <3>1, <3>2
  <2>4. CASE ~(j <= a - 1)
    <3>1. j - (a - 1) \in 1..(b - a + 1) /\ a + (j - (a - 1)) - 1 = j
      BY <1>4, <2>2, <2>4
    <3> QED BY <1>2, <1>3, <2>1, <2>4, <3>1
  <2> QED BY <2>3, <2>4
<1>8. Len(f \o g) = b
  BY <1>1, <1>2, <1>4, <1>5
<1>6. f \o g = h
  BY <1>3, <1>5, <1>7, <1>8, SeqEqual
<1> QED BY <1>6 DEF f, g, h

(* The two encodings are not the same.                                     *)
LEMMA SteimsDiffer == Steim1 # Steim2
<1>1. Len(Steim1) = 3 /\ Len(Steim2) = 7
  BY PackingsAre, Zenon
<1> QED BY <1>1

(* A word is made of the next differences, or one is too wide for any.     *)
LEMMA PackedIs ==
  ASSUME NEW packings \in {Steim1, Steim2}, NEW diffs \in Seq(Int), NEW i \in 1..Len(diffs)
  PROVE  \/ Packed(packings, diffs, i) = <<>> /\ packings = Steim2 /\ BitWidth(diffs[i]) > 30
         \/ \E w \in Word : /\ Packed(packings, diffs, i) = <<w>>
                            /\ i + w.packing.n - 1 <= Len(diffs)
                            /\ w.diffs = SubSeq(diffs, i, i + w.packing.n - 1)
<1> DEFINE fits == Fitting(packings, diffs, i)
           k == CHOOSE l \in fits : \A j \in fits : l <= j
           p == packings[k]
           w == [packing |-> p, diffs |-> SubSeq(diffs, i, i + p.n - 1)]
<1>1. packings \in Seq(Packings) /\ DOMAIN packings = 1..Len(packings) /\ Len(packings) \in Nat
  BY PackingsAre
<1>2. Packed(packings, diffs, i) = IF fits = {} THEN <<>> ELSE <<w>>
  BY Zenon DEF Packed
<1>3. CASE fits = {}
  <2>1. packings[Len(packings)] = Packing(1, IF packings = Steim2 THEN 30 ELSE 32) /\ Len(packings) \in DOMAIN packings
    <3>1. Len(Steim1) = 3 /\ Len(Steim2) = 7 /\ Steim1[3] = Packing(1, 32) /\ Steim2[7] = Packing(1, 30)
      BY PackingsAre, Zenon
    <3>2. Steim1 # Steim2
      BY SteimsDiffer
    <3>3. CASE packings = Steim1
      <4>1. Len(packings) = 3 /\ packings[3] = Packing(1, 32) /\ packings # Steim2
        BY <3>1, <3>2, <3>3, Zenon
      <4>2. 3 \in DOMAIN packings
        BY <1>1, <4>1
      <4> QED BY <4>1, <4>2, Zenon
    <3>4. CASE packings = Steim2
      <4>1. Len(packings) = 7 /\ packings[7] = Packing(1, 30) /\ packings = Steim2
        BY <3>1, <3>4, Zenon
      <4>2. 7 \in DOMAIN packings
        BY <1>1, <4>1
      <4> QED BY <4>1, <4>2, Zenon
    <3> QED BY <3>3, <3>4
  <2>2. PICK b \in {30, 32} : b = (IF packings = Steim2 THEN 30 ELSE 32)
    OBVIOUS
  <2>3. packings[Len(packings)].n = 1 /\ packings[Len(packings)].bits = b
    BY <2>1, <2>2 DEF Packing
  <2>4. BitWidth(diffs[i]) \in Widths
    BY BitWidthIs
  <2>5. ~(BitWidth(diffs[i]) <= b)
    <3> SUFFICES ASSUME BitWidth(diffs[i]) <= b PROVE FALSE
      OBVIOUS
    <3>1. i + 1 - 1 = i /\ i <= Len(diffs) /\ i..i = {i}
      OBVIOUS
    <3>2. Len(packings) \in fits
      BY <2>1, <2>3, <3>1 DEF Fitting
    <3> QED BY <1>3, <3>2
  <2>6. packings = Steim2 /\ BitWidth(diffs[i]) > 30
    BY <2>2, <2>4, <2>5 DEF Widths
  <2> QED BY <1>2, <1>3, <2>6
<1>4. CASE fits # {}
  <2>1. k \in fits
    <3>1. fits \in SUBSET Nat
      BY <1>1 DEF Fitting
    <3>2. \E l \in fits : \A j \in fits : l <= j
      BY <1>4, <3>1, LeastNumber, Zenon
    <3> HIDE DEF fits
    <3> QED BY <3>2, Zenon
  <2> HIDE DEF k
  <2>2. /\ k \in 1..Len(packings) /\ i + p.n - 1 <= Len(diffs)
        /\ \A j \in i..(i + p.n - 1) : BitWidth(diffs[j]) <= p.bits
    BY <1>1, <2>1 DEF Fitting
  <2>3. p \in Packings /\ p.n \in 1..7
    BY <1>1, <2>2, PackingsAre
  <2> HIDE DEF p
  <2> DEFINE s == SubSeq(diffs, i, i + p.n - 1)
  <2>4. s \in Seq(Int) /\ Len(s) = p.n /\ \A j \in 1..p.n : s[j] = diffs[i + j - 1]
    <3>1. PICK n \in 1..7 : n = p.n
      BY <2>3
    <3>2. PICK len \in Nat : len = Len(diffs)
      OBVIOUS
    <3>3. i + n - 1 <= len
      BY <2>2, <3>1, <3>2, Zenon
    <3>4. i + n - 1 \in (i - 1)..len /\ (i + n - 1) - i + 1 = n /\ i \in 1..(len + 1)
      BY <3>2, <3>3
    <3> HIDE DEF s
    <3>5. /\ SubSeq(diffs, i, i + n - 1) \in Seq(Int) /\ Len(SubSeq(diffs, i, i + n - 1)) = n
          /\ \A j \in 1..n : SubSeq(diffs, i, i + n - 1)[j] = diffs[i + j - 1]
      BY <3>2, <3>4, PartIs, ZenonT(30), SMTT(30)
    <3> QED BY <3>1, <3>5, Zenon DEF s
  <2> HIDE DEF s
  <2>5. \A j \in 1..p.n : BitWidth(s[j]) <= p.bits
    <3>1. \A j \in 1..p.n : i + j - 1 \in i..(i + p.n - 1)
      BY <2>3
    <3> QED BY <2>2, <2>4, <3>1
  <2>6. w.packing = p /\ w.diffs = s /\ w \in [packing : Packings, diffs : Seq(Int)]
    BY <2>3, <2>4 DEF s
  <2> HIDE DEF w
  <2>7. w \in Word
    BY <2>4, <2>5, <2>6 DEF Word
  <2> HIDE DEF fits
  <2>8. Packed(packings, diffs, i) = <<w>>
    BY <1>2, <1>4
  <2> QED BY <2>2, <2>6, <2>7, <2>8 DEF s
<1> QED BY <1>3, <1>4

-----------------------------------------------------------------------------
(* What has been coded after a number of passes through the loop.          *)
CodedState(diffs) ==
  [error : BOOLEAN, words : Seq(Word), at : 1..(Len(diffs) + 1)]

CodedWell(packings, diffs, c, k) ==
  /\ c \in CodedState(diffs)
  /\ c.error => packings = Steim2 /\ \E i \in 1..Len(diffs) : BitWidth(diffs[i]) > 30
  /\ ~c.error =>
       /\ DiffsOf(c.words) = SubSeq(diffs, 1, c.at - 1) /\ (c.words = <<>> <=> c.at = 1)
       /\ Len(c.words) <= k /\ (c.at <= Len(diffs) => Len(c.words) = k)

Coding(packings, diffs, c) ==
  IF c.error \/ c.at > Len(diffs) THEN c ELSE WithWord(c, Packed(packings, diffs, c.at))

(* A pass leaves the state a state, and what holds of it holds of one pass *)
(* more.                                                                   *)
LEMMA CodingIs ==
  ASSUME NEW packings \in {Steim1, Steim2}, NEW diffs \in Seq(Int), NEW c \in CodedState(diffs)
  PROVE  /\ Coding(packings, diffs, c) \in CodedState(diffs)
         /\ \A k \in Nat : CodedWell(packings, diffs, c, k) => CodedWell(packings, diffs, Coding(packings, diffs, c), k + 1)
<1> DEFINE d == Coding(packings, diffs, c)
           n == Len(diffs)
<1>1. n \in Nat /\ c.error \in BOOLEAN /\ c.words \in Seq(Word) /\ c.at \in 1..(n + 1)
  BY DEF CodedState
<1>2. CASE c.error \/ c.at > n
  <2>1. d = c
    BY <1>2, Zenon DEF Coding
  <2>2. \A k \in Nat : CodedWell(packings, diffs, c, k) => CodedWell(packings, diffs, c, k + 1)
    BY <1>1, <1>2 DEF CodedWell
  <2> HIDE DEF d
  <2> QED BY <2>1, <2>2 DEF d
<1>3. CASE ~c.error /\ c.at <= n
  <2>1. d = WithWord(c, Packed(packings, diffs, c.at)) /\ c.at \in 1..n
    BY <1>1, <1>3 DEF Coding
  <2> HIDE DEF d
  <2>2. CASE Packed(packings, diffs, c.at) = <<>> /\ packings = Steim2 /\ BitWidth(diffs[c.at]) > 30
    <3>1. d = [c EXCEPT !.error = TRUE]
      BY <2>1, <2>2 DEF WithWord
    <3>2. d \in CodedState(diffs) /\ d.error
      BY <3>1 DEF CodedState
    <3>3. \A k \in Nat : CodedWell(packings, diffs, d, k)
      BY <2>1, <2>2, <3>2 DEF CodedWell
    <3> QED BY <3>2, <3>3 DEF d
  <2>3. ASSUME NEW w \in Word, Packed(packings, diffs, c.at) = <<w>>, c.at + w.packing.n - 1 <= n,
               w.diffs = SubSeq(diffs, c.at, c.at + w.packing.n - 1)
        PROVE  /\ d \in CodedState(diffs)
               /\ \A k \in Nat : CodedWell(packings, diffs, c, k) => CodedWell(packings, diffs, d, k + 1)
    <3> DEFINE m == w.packing.n
               q == c.words \o <<w>>
               t == c.at + m
    <3>1. m \in 1..7
      BY PackingsAre DEF Word
    <3>2. d = [c EXCEPT !.words = @ \o <<w>>, !.at = @ + m]
      <4>1. <<w>> # <<>> /\ <<w>>[1] = w
        OBVIOUS
      <4> QED BY <2>1, <2>3, <4>1, Zenon DEF WithWord
    <3>3. q \in Seq(Word) /\ Len(q) = Len(c.words) + 1 /\ q # <<>> /\ Len(c.words) \in Nat
      BY <1>1
    <3>4. t \in 2..(n + 1) /\ t - 1 \in (c.at - 1)..n /\ c.at + m - 1 = t - 1
      <4>1. c.at + m - 1 <= n
        BY <2>3
      <4>2. PICK at \in 1..n : at = c.at
        BY <2>1
      <4>3. PICK p \in 1..7 : p = m
        BY <3>1
      <4> HIDE DEF m, n
      <4>4. n \in Nat /\ at + p - 1 <= n
        BY <1>1, <4>1, <4>2, <4>3
      <4>5. at + p \in 2..(n + 1) /\ (at + p) - 1 \in (at - 1)..n
        BY <4>4
      <4> QED BY <4>2, <4>3, <4>5
    <3>5. d = [error |-> c.error, words |-> q, at |-> t]
      BY <3>2 DEF CodedState
    <3> HIDE DEF q, t
    <3>6. d \in CodedState(diffs) /\ d.words = q /\ d.at = t /\ d.error = c.error
      BY <1>1, <3>3, <3>4, <3>5 DEF CodedState
    <3>7. ASSUME NEW k \in Nat, CodedWell(packings, diffs, c, k)
          PROVE  CodedWell(packings, diffs, d, k + 1)
      <4>1. DiffsOf(c.words) = SubSeq(diffs, 1, c.at - 1) /\ Len(c.words) = k
        BY <1>3, <3>7 DEF CodedWell
      <4>2. DiffsOf(q) = DiffsOf(c.words) \o w.diffs
        BY <1>1, ReadMore DEF q
      <4>3. SubSeq(diffs, 1, c.at - 1) \o SubSeq(diffs, c.at, t - 1) = SubSeq(diffs, 1, t - 1)
        BY <2>1, <3>4, PartsJoin
      <4>4. DiffsOf(q) = SubSeq(diffs, 1, t - 1)
        <5>1. w.diffs = SubSeq(diffs, c.at, t - 1)
          BY <2>3, <3>4
        <5> QED BY <4>1, <4>2, <4>3, <5>1
      <4>5. Len(q) = k + 1 /\ t # 1
        BY <3>3, <3>4, <4>1
      <4> QED BY <1>3, <3>3, <3>6, <4>4, <4>5 DEF CodedWell
    <3> QED BY <3>6, <3>7
  <2> QED BY <2>1, <2>2, <2>3, PackedIs DEF d
<1> QED BY <1>1, <1>2, <1>3

-----------------------------------------------------------------------------
(* The loop of the encoder.                                                *)
LEMMA CodedIs ==
  ASSUME NEW packings \in {Steim1, Steim2}, NEW diffs \in Seq(Int), NEW room \in Nat
  PROVE  CodedWell(packings, diffs, Coded(packings, diffs, room), room)
<1> DEFINE V == CodedState(diffs)
           S == 0..room
           start == [error |-> FALSE, words |-> <<>>, at |-> 1]
           Next(c) == Coding(packings, diffs, c)
           Advanced(f) == [n \in S |->
                        IF n = 0 THEN start
                        ELSE LET before == f[n - 1]
                             IN  IF before.error \/ before.at > Len(diffs) THEN before
                                 ELSE WithWord(before, Packed(packings, diffs, before.at))]
           coded == CHOOSE f : f = Advanced(f)
           rank == [n \in S |-> n]
           parent == [n \in S |-> IF n = 0 THEN 0 ELSE n - 1]
           base == [n \in S |-> start]
           step == [n \in S |-> [c \in V |-> Next(c)]]
<1>1. Coded(packings, diffs, room) = coded[room]
  BY Zenon DEF Coded
<1>2. start \in V /\ CodedWell(packings, diffs, start, 0)
  <2>1. start \in V /\ start.error = FALSE /\ start.words = <<>> /\ start.at = 1
    BY DEF CodedState
  <2>2. SubSeq(diffs, 1, 0) = <<>>
    OBVIOUS
  <2>3. <<>> \in Seq(Word) /\ Len(<<>>) = 0
    OBVIOUS
  <2>4. PICK w : w \in Word
    <3> DEFINE w == [packing |-> Packing(1, 32), diffs |-> <<0>>]
    <3>1. BitWidth(0) \in Widths
      BY BitWidthIs
    <3>2. BitWidth(0) <= 32
      BY <3>1 DEF Widths
    <3>3. Packing(1, 32) \in Packings /\ Packing(1, 32).n = 1 /\ Packing(1, 32).bits = 32
      BY DEF Packings, Packing
    <3>4. <<0>> \in Seq(Int) /\ Len(<<0>>) = 1 /\ \A j \in 1..1 : <<0>>[j] = 0
      OBVIOUS
    <3>5. w \in [packing : Packings, diffs : Seq(Int)] /\ w.packing = Packing(1, 32) /\ w.diffs = <<0>>
      BY <3>3, <3>4
    <3> HIDE DEF w
    <3>6. w \in Word
      BY <3>2, <3>3, <3>4, <3>5 DEF Word
    <3> QED BY <3>6
  <2>5. DiffsOf(<<>>) = <<>>
    BY <2>3, <2>4, ReadMore
  <2> HIDE DEF start
  <2>6. start.at - 1 = 0 /\ Len(start.words) = 0
    BY <2>1, <2>3
  <2>7. DiffsOf(start.words) = SubSeq(diffs, 1, start.at - 1)
    BY <2>1, <2>2, <2>5, <2>6
  <2> QED BY <2>1, <2>6, <2>7 DEF CodedWell
<1>3. \A c \in V : Next(c) \in V
  BY CodingIs
<1> HIDE DEF V, start
<1>4. rank \in [S -> Nat] /\ parent \in [S -> S] /\ base \in [S -> V]
  BY <1>2
<1>5. step \in [S -> [V -> V]]
  <2>1. [c \in V |-> Next(c)] \in [V -> V]
    <3> HIDE DEF Next
    <3> QED BY <1>3, Zenon
  <2> HIDE DEF Next
  <2> QED BY <2>1, Zenon
<1>6. \A n \in S \ {0} : rank[parent[n]] < rank[n]
  OBVIOUS
<1>7. \A n \in S : base[n] = start /\ (n # 0 => parent[n] = n - 1) /\ \A c \in V : step[n][c] = Next(c)
  <2> HIDE DEF Next
  <2> QED OBVIOUS
<1> HIDE DEF rank, parent, base, step
<1>8. PICK f \in [S -> V] : \A n \in S : Follows(f, n, parent, {0}, base, step)
  <2> HIDE DEF S
  <2> QED BY <1>4, <1>5, <1>6, Recursion
<1>9. \A n \in S : f[n] = IF n = 0 THEN start ELSE Next(f[n - 1])
  <2> TAKE n \in S
  <2>1. f[n] = IF n \in {0} THEN base[n] ELSE step[n][f[parent[n]]]
    BY <1>8 DEF Follows
  <2>2. CASE n = 0
    BY <1>7, <2>1, <2>2
  <2>3. CASE n # 0
    <3>1. n - 1 \in S
      BY <2>3
    <3>2. f[n - 1] \in V
      BY <1>8, <3>1
    <3>3. f[n] = step[n][f[n - 1]]
      BY <1>7, <2>1, <2>3
    <3>4. f[n] = Next(f[n - 1])
      <4> HIDE DEF Next, S
      <4> QED BY <1>7, <3>2, <3>3
    <3> HIDE DEF Next
    <3> QED BY <2>3, <3>4
  <2> QED BY <2>2, <2>3
<1>10. f = Advanced(f)
  <2>1. \A n \in S : f[n] = Advanced(f)[n]
    BY <1>9, Zenon DEF Coding
  <2>2. f = [n \in S |-> f[n]]
    BY <1>8
  <2>3. Advanced(f) = [n \in S |-> Advanced(f)[n]]
    BY Zenon
  <2> HIDE DEF Advanced
  <2>4. [n \in S |-> f[n]] = [n \in S |-> Advanced(f)[n]]
    BY <2>1, Zenon
  <2> QED BY <2>2, <2>3, <2>4
<1>11. coded = Advanced(coded)
  <2> HIDE DEF Advanced
  <2> QED BY <1>10
<1>12. \A n \in S : coded[n] = IF n = 0 THEN start ELSE Next(coded[n - 1])
  <2> HIDE DEF coded, S
  <2>1. \A n \in S : Advanced(coded)[n] = IF n = 0 THEN start ELSE Next(coded[n - 1])
    BY Zenon DEF Coding
  <2> HIDE DEF Advanced, Next
  <2> QED BY <1>11, <2>1, Zenon
<1> HIDE DEF coded, Advanced
<1> DEFINE T == {n \in Nat : n <= room => CodedWell(packings, diffs, coded[n], n)}
<1>13. 0 \in T
  <2>1. 0 \in S
    OBVIOUS
  <2>2. coded[0] = start
    BY <1>12, <2>1, Zenon
  <2> QED BY <1>2, <2>2
<1>14. ASSUME NEW n \in T PROVE n + 1 \in T
  <2> SUFFICES ASSUME n + 1 <= room PROVE CodedWell(packings, diffs, coded[n + 1], n + 1)
    BY <1>14
  <2>1. n \in Nat /\ n + 1 \in S /\ n + 1 # 0 /\ (n + 1) - 1 = n /\ CodedWell(packings, diffs, coded[n], n)
    BY <1>14
  <2>2. coded[n + 1] = Next(coded[n])
    BY <1>12, <2>1, Zenon
  <2>3. coded[n] \in CodedState(diffs)
    BY <2>1 DEF CodedWell
  <2> QED BY <2>1, <2>2, <2>3, CodingIs
<1> HIDE DEF T
<1>15. \A n \in Nat : n \in T
  <2>1. T \in SUBSET Nat
    BY DEF T
  <2> QED BY <1>13, <1>14, <2>1, Induction
<1>16. CodedWell(packings, diffs, coded[room], room)
  BY <1>15 DEF T
<1> QED BY <1>1, <1>16

(* The sums of the differences are the samples again.                      *)
LEMMA DecodeIs ==
  ASSUME NEW samples \in Seq(Int), samples # <<>>, NEW diff0 \in Int, NEW m \in 0..Len(samples),
         NEW record, record.x0 = samples[1],
         DiffsOf(record.words) = SubSeq(Differences(samples, diff0), 1, m)
  PROVE  DecodeSteim(record, m) = SubSeq(samples, 1, m)
<1> DEFINE diffs == Differences(samples, diff0)
           read == DiffsOf(record.words)
           count == IF m < Len(read) THEN m ELSE Len(read)
           Sum(f) == [i \in 1..count |-> IF i = 1 THEN record.x0 ELSE f[i - 1] + read[i]]
           output == CHOOSE f : f = Sum(f)
           out == [i \in 1..m |-> samples[i]]
<1>1. DecodeSteim(record, m) = [i \in 1..count |-> output[i]]
  BY Zenon DEF DecodeSteim, DiffsOf
<1>2. Len(samples) \in Nat /\ DOMAIN samples = 1..Len(samples) /\ \A i \in 1..Len(samples) : samples[i] \in Int
  OBVIOUS
<1>3. /\ diffs \in Seq(Int) /\ Len(diffs) = Len(samples)
      /\ \A i \in 2..Len(samples) : diffs[i] = samples[i] - samples[i - 1]
  BY <1>2 DEF Differences
<1>4. Len(read) = m /\ \A i \in 1..m : read[i] = diffs[i]
  <2> HIDE DEF diffs
  <2>1. /\ SubSeq(diffs, 1, m) \in Seq(Int) /\ Len(SubSeq(diffs, 1, m)) = m
        /\ \A i \in 1..m : SubSeq(diffs, 1, m)[i] = diffs[i]
    BY <1>2, <1>3
  <2>2. read = SubSeq(diffs, 1, m)
    BY DEF diffs
  <2> HIDE DEF read
  <2> QED BY <2>1, <2>2
<1> HIDE DEF diffs, read
<1>5. count = m
  BY <1>2, <1>4
<1> HIDE DEF count
<1>6. out = Sum(out)
  <2>1. ASSUME NEW i \in 1..m PROVE samples[i] = IF i = 1 THEN record.x0 ELSE out[i - 1] + read[i]
    <3>1. CASE i = 1
      BY <3>1
    <3>2. CASE i # 1
      <4>1. i - 1 \in 1..m /\ i \in 2..Len(samples) /\ i \in 1..Len(samples) /\ i - 1 \in 1..Len(samples)
        BY <1>2, <3>2
      <4>2. read[i] = samples[i] - samples[i - 1]
        BY <1>3, <1>4, <4>1
      <4>3. out[i - 1] = samples[i - 1] /\ samples[i] \in Int /\ samples[i - 1] \in Int
        BY <1>2, <4>1
      <4> HIDE DEF out
      <4> QED BY <3>2, <4>2, <4>3
    <3> QED BY <3>1, <3>2
  <2>2. \A i \in 1..m : out[i] = samples[i]
    OBVIOUS
  <2>3. Sum(out) = [i \in 1..m |-> IF i = 1 THEN record.x0 ELSE out[i - 1] + read[i]]
    BY <1>5
  <2>4. [i \in 1..m |-> samples[i]] = [i \in 1..m |-> IF i = 1 THEN record.x0 ELSE out[i - 1] + read[i]]
    <3> HIDE DEF out
    <3> QED BY <2>1
  <2>5. out = [i \in 1..m |-> samples[i]]
    OBVIOUS
  <2> HIDE DEF out, Sum
  <2> QED BY <2>3, <2>4, <2>5, Zenon
<1>7. output = Sum(output)
  <2> HIDE DEF Sum, out
  <2> QED BY <1>6
<1>8. \A i \in 1..m : output[i] = IF i = 1 THEN record.x0 ELSE output[i - 1] + read[i]
  <2> HIDE DEF output
  <2>1. \A i \in 1..m : Sum(output)[i] = IF i = 1 THEN record.x0 ELSE output[i - 1] + read[i]
    BY <1>5
  <2> HIDE DEF Sum
  <2> QED BY <1>7, <2>1, Zenon
<1> HIDE DEF output, Sum, out
<1> DEFINE T == {i \in Nat : i \in 1..m => output[i] = samples[i]}
<1>9. 0 \in T
  OBVIOUS
<1>10. ASSUME NEW i \in T PROVE i + 1 \in T
  <2> SUFFICES ASSUME i + 1 \in 1..m PROVE output[i + 1] = samples[i + 1]
    BY <1>10
  <2>1. CASE i = 0
    BY <1>8, <2>1
  <2>2. CASE i # 0
    <3>1. i \in 1..m /\ (i + 1) - 1 = i /\ i + 1 # 1 /\ i + 1 \in 2..Len(samples) /\ output[i] = samples[i]
      BY <1>2, <1>10, <2>2
    <3>2. output[i + 1] = output[i] + read[i + 1]
      BY <1>8, <3>1
    <3>3. read[i + 1] = samples[i + 1] - samples[i]
      BY <1>3, <1>4, <3>1
    <3>4. samples[i] \in Int /\ samples[i + 1] \in Int
      BY <1>2, <3>1
    <3> QED BY <3>1, <3>2, <3>3, <3>4
  <2> QED BY <2>1, <2>2
<1> HIDE DEF T
<1>11. \A i \in Nat : i \in T
  <2>1. T \in SUBSET Nat
    BY DEF T
  <2> QED BY <1>9, <1>10, <2>1, Induction
<1>12. \A i \in 1..m : output[i] = samples[i]
  BY <1>2, <1>11 DEF T
<1>13. DecodeSteim(record, m) = [i \in 1..m |-> samples[i]]
  BY <1>1, <1>5, <1>12
<1>14. SubSeq(samples, 1, m) = [i \in 1..m |-> samples[i]]
  BY <1>2
<1> QED BY <1>13, <1>14

(* Words that fit in so many frames use no more.                           *)
LEMMA FramesFit ==
  ASSUME NEW B \in Nat \ {0}, NEW m \in Nat, NEW a \in Nat, a < m * B
  PROVE  a \div B \in Nat /\ a \div B < m
<1> DEFINE q == a \div B
           r == a % B
<1>1. q \in Nat /\ r \in 0..(B - 1) /\ a = B * q + r
  OBVIOUS
<1> HIDE DEF q, r
<1>2. q < m
  <2> SUFFICES ASSUME q >= m PROVE FALSE
    BY <1>1
  <2>1. PICK e \in Nat : q = m + e
    <3>1. q - m \in Nat /\ q = m + (q - m)
      BY <1>1
    <3> QED BY <3>1
  <2>2. B * q = m * B + B * e /\ B * e \in Nat
    BY <2>1
  <2> QED BY <1>1, <2>2
<1> QED BY <1>1, <1>2 DEF q

(* The Steim encodings: samples of any number, in frames of any number,    *)
(* are decoded to what they were, and the last one is as the record says:  *)
(* all of them while there are frames, a prefix that fills the frames when *)
(* there are not; only Steim2 refuses, and only a difference that is wider *)
(* than 30 bits.                                                           *)
THEOREM SteimIsKept ==
  ASSUME NEW packings \in {Steim1, Steim2}, NEW samples \in Seq(Int), samples # <<>>, NEW diff0 \in Int,
         NEW maxframes \in Nat \ {0}
  PROVE  SteimKept(packings, samples, diff0, maxframes)
<1> DEFINE diffs == Differences(samples, diff0)
           room == Room(maxframes)
           c == Coded(packings, diffs, room)
           record == [error |-> FALSE, x0 |-> samples[1], words |-> c.words, samples |-> c.at - 1,
                      xn |-> IF c.words # <<>> THEN samples[c.at - 1] ELSE 0, frames |-> FramesUsed(c.words)]
           Refused == packings = Steim2 /\ \E i \in DOMAIN diffs : BitWidth(diffs[i]) > 30
<1>1. PICK n \in Nat : n = Len(samples)
  OBVIOUS
<1>2. diffs \in Seq(Int) /\ Len(diffs) = n /\ DOMAIN diffs = 1..n
  <2>1. DOMAIN samples = 1..n /\ \A i \in 1..n : samples[i] \in Int
    BY <1>1
  <2>2. \A i \in 1..n : (IF i = 1 THEN diff0 ELSE samples[i] - samples[i - 1]) \in Int
    <3> TAKE i \in 1..n
    <3>1. i # 1 => i - 1 \in 1..n
      BY <1>1
    <3> QED BY <2>1, <3>1
  <2>3. diffs = [i \in 1..n |-> IF i = 1 THEN diff0 ELSE samples[i] - samples[i - 1]]
    BY <2>1 DEF Differences
  <2> HIDE DEF diffs
  <2> QED BY <1>1, <2>2, <2>3
<1>3. PICK B \in Nat : B = WordsPerFrame - 1 /\ B > 2
  BY FrameAssumption
<1>4. room \in Nat /\ room = maxframes * B - 2
  <2>1. PICK e \in Nat : maxframes = e + 1
    <3>1. maxframes - 1 \in Nat /\ maxframes = (maxframes - 1) + 1
      OBVIOUS
    <3> QED BY <3>1
  <2>2. maxframes * B = e * B + B /\ e * B \in Nat
    BY <2>1
  <2>3. room = maxframes * B - 2
    BY <1>3 DEF Room
  <2> HIDE DEF room
  <2>4. PICK f \in Nat : f = e * B
    BY <2>2
  <2>5. maxframes * B = f + B
    BY <2>2, <2>4
  <2>6. f + B - 2 \in Nat
    BY <1>3
  <2>7. PICK p : p = maxframes * B
    OBVIOUS
  <2>8. room = p - 2 /\ p = f + B
    BY <2>3, <2>5, <2>7, Zenon
  <2>9. room \in Nat
    BY <2>6, <2>8
  <2> QED BY <2>3, <2>9
<1> HIDE DEF diffs, room
<1>5. CodedWell(packings, diffs, c, room)
  BY <1>2, <1>4, CodedIs
<1> HIDE DEF c
<1>6. PICK m \in 0..n : c.at - 1 = m /\ c.at = m + 1
  <2>1. PICK at \in 1..(n + 1) : at = c.at
    BY <1>2, <1>5 DEF CodedWell, CodedState
  <2>2. at - 1 \in 0..n /\ at = (at - 1) + 1
    BY <1>1
  <2> QED BY <2>1, <2>2
<1>7. c.words \in Seq(Word) /\ c.error \in BOOLEAN
  BY <1>5 DEF CodedWell, CodedState
<1>8. CASE c.error
  <2>1. EncodeSteim(packings, samples, diff0, maxframes) = [error |-> TRUE]
    BY <1>8, Zenon DEF EncodeSteim, c, room, diffs
  <2>2. Refused
    BY <1>2, <1>5, <1>8 DEF CodedWell
  <2> HIDE DEF Refused
  <2>3. LET r == [error |-> TRUE] IN r.error
    OBVIOUS
  <2> QED BY <2>1, <2>2, <2>3, Zenon DEF SteimKept, Refused, diffs
<1>9. CASE ~c.error
  <2>1. EncodeSteim(packings, samples, diff0, maxframes) = record
    BY <1>9, Zenon DEF EncodeSteim, c, room, diffs
  <2>2. /\ DiffsOf(c.words) = SubSeq(diffs, 1, m) /\ (c.words = <<>> <=> m = 0)
        /\ Len(c.words) <= room /\ (m < n => Len(c.words) = room)
    <3>1. c.at = 1 <=> m = 0
      BY <1>6
    <3>2. c.at <= n <=> m < n
      BY <1>1, <1>6
    <3> QED BY <1>2, <1>5, <1>6, <1>9, <3>1, <3>2 DEF CodedWell
  <2>3. /\ record.error = FALSE /\ record.x0 = samples[1] /\ record.words = c.words /\ record.samples = m
        /\ record.xn = (IF c.words # <<>> THEN samples[m] ELSE 0) /\ record.frames = FramesUsed(c.words)
    BY <1>6
  <2> HIDE DEF record
  <2>4. DecodeSteim(record, m) = SubSeq(samples, 1, m)
    BY <1>1, <2>2, <2>3, DecodeIs, ZenonT(30) DEF diffs
  <2>5. Intact(record, m)
    <3>1. Len(SubSeq(samples, 1, m)) = m /\ \A i \in 1..m : SubSeq(samples, 1, m)[i] = samples[i]
      BY <1>1, PartIs
    <3>2. m > 0 => SubSeq(samples, 1, m)[m] = record.xn
      <4> SUFFICES ASSUME m > 0 PROVE SubSeq(samples, 1, m)[m] = record.xn
        OBVIOUS
      <4>1. c.words # <<>> /\ m \in 1..m
        BY <2>2
      <4> QED BY <2>3, <3>1, <4>1
    <3> QED BY <2>4, <3>2, Zenon DEF Intact
  <2>6. record.frames <= maxframes
    <3>1. CASE c.words = <<>>
      BY <2>3, <3>1 DEF FramesUsed
    <3>2. CASE c.words # <<>>
      <4>1. PICK l \in Nat : l = Len(c.words) /\ l <= room
        BY <1>7, <2>2
      <4>2. PICK a \in Nat : a = l + 1
        OBVIOUS
      <4>3. a < maxframes * B
        <5>1. maxframes * B \in Nat
          OBVIOUS
        <5> QED BY <1>4, <4>1, <4>2, <5>1
      <4>4. a \div B \in Nat /\ a \div B < maxframes
        <5>1. B \in Nat \ {0} /\ maxframes \in Nat
          BY <1>3
        <5> QED BY <4>3, <5>1, FramesFit
      <4>5. record.frames = 1 + a \div B
        BY <1>3, <2>3, <3>2, <4>1, <4>2 DEF FramesUsed
      <4> QED BY <4>4, <4>5
    <3> QED BY <3>1, <3>2
  <2>7. m < n => Len(record.words) = maxframes * (WordsPerFrame - 1) - 2
    BY <1>3, <1>4, <2>2, <2>3
  <2> DEFINE WellKept(r) ==
               /\ DecodeSteim(r, r.samples) = SubSeq(samples, 1, r.samples)
               /\ Intact(r, r.samples) /\ r.frames <= maxframes
               /\ r.samples < Len(samples) => Len(r.words) = maxframes * (WordsPerFrame - 1) - 2
  <2>8. WellKept(record)
    BY <1>1, <2>3, <2>4, <2>5, <2>6, <2>7, Zenon
  <2> HIDE DEF WellKept
  <2>9. ~record.error
    BY <2>3
  <2> QED BY <2>1, <2>8, <2>9, Zenon DEF SteimKept, WellKept
<1> QED BY <1>7, <1>8, <1>9

-----------------------------------------------------------------------------
(* Codes of 16 bits.                                                       *)
LEMMA HalvesOfPowers ==
  /\ Pow2(16) = 2 * Pow2(15) /\ Pow2(24) = 256 * Pow2(16) /\ Pow2(23) = 256 * Pow2(15)
  /\ Pow2(16) = 16 * Pow2(12) /\ Pow2(14) = 2 * Pow2(13) /\ Pow2(12) = 2 * Pow2(11)
  /\ Pow2(16) = 4 * Pow2(14) /\ Pow2(0) = 1 /\ Pow2(2) = 4 /\ Pow2(3) = 8 /\ Pow2(4) = 16
  /\ Pow2(13) = 8192 /\ Pow2(11) = 2048
  /\ Pow2(15) \in Nat \ {0} /\ Pow2(13) \in Nat /\ Pow2(11) \in Nat \ {0} /\ Pow2(14) \in Nat \ {0}
  /\ Pow2(12) \in Nat \ {0}
BY SMT DEF Pow2

(* A quotient and a remainder.                                             *)
LEMMA QuotientIs ==
  ASSUME NEW B \in Nat \ {0}, NEW c \in Nat
  PROVE  c \div B \in Nat /\ c % B \in 0..(B - 1) /\ c = B * (c \div B) + (c % B)
OBVIOUS

(* The number that has these low bits.                                     *)
LEMMA SignedCode ==
  ASSUME NEW h \in Nat \ {0}, NEW c \in 0..(2 * h - 1)
  PROVE  LET v == IF c >= h THEN c - 2 * h ELSE c
         IN  v \in Int /\ v \in -h..(h - 1) /\ v % (2 * h) = c
<1> DEFINE v == IF c >= h THEN c - 2 * h ELSE c
<1>1. v \in Int /\ v \in -h..(h - 1)
  OBVIOUS
<1>2. PICK p \in Nat \ {0} : p = 2 * h
  OBVIOUS
<1>3. CASE c >= h
  <2>1. v + p = c /\ c \in 0..(p - 1)
    BY <1>2, <1>3
  <2> HIDE DEF v
  <2>2. v % p = c
    BY <1>1, <2>1, ModUp
  <2> QED BY <1>1, <1>2, <2>2 DEF v
<1>4. CASE ~(c >= h)
  <2>1. v = c /\ c \in 0..(p - 1)
    BY <1>2, <1>4
  <2> HIDE DEF v
  <2>2. v % p = c
    BY <2>1, ModSmall
  <2> QED BY <1>1, <1>2, <2>2 DEF v
<1> QED BY <1>3, <1>4

(* A code of 16 bits is read as the number that has these low bits, and    *)
(* coded back; the formats with a gain keep to their ranges; SRO refuses   *)
(* an exponent that would be negative.                                     *)
THEOREM CodesAreRead ==
  ASSUME NEW code \in 0..(Pow2(16) - 1)
  PROVE  CodesRead(code)
<1> DEFINE v == DecodeDWWSSN(code)
<1>0. PICK h \in Nat \ {0}, p \in Nat \ {0} : h = Pow2(15) /\ p = Pow2(16) /\ p = 2 * h
  BY HalvesOfPowers
<1>1. code \in Nat /\ code < p /\ code \in 0..(p - 1)
  BY <1>0
<1>2. v = IF code >= h THEN code - p ELSE code
  <2>1. code % p = code
    BY <1>1, ModSmall
  <2>2. ~(16 = 32) /\ 16 - 1 = 15
    OBVIOUS
  <2>3. Signed(code, 16) = IF code % p >= h THEN (code % p) - p ELSE code % p
    BY <1>0, <2>2 DEF Signed
  <2>4. DecodeDWWSSN(code) = Signed(code, 16)
    BY DEF DecodeDWWSSN
  <2> QED BY <2>1, <2>3, <2>4
<1> HIDE DEF v
<1>3. v \in Int /\ v \in -h..(h - 1) /\ v % p = code
  <2>1. p = 2 * h /\ code \in 0..(2 * h - 1)
    BY <1>0, <1>1
  <2>2. v = IF code >= h THEN code - 2 * h ELSE code
    BY <1>0, <1>2
  <2>3. v \in Int /\ v \in -h..(h - 1) /\ v % (2 * h) = code
    BY <2>1, <2>2, SignedCode
  <2> QED BY <1>0, <2>3
<1>4. DecodeInt16(EncodeInt16(<<v>>, 1)) = <<v>>
  <2>1. EncodeInt16(<<v>>, 1) = <<code>>
    <3>1. EncodeWhole(<<v>>, 1) = <<v>>
      <4>1. Len(<<v>>) = 1 /\ SubSeq(<<v>>, 1, 1) = <<v>>
        <5> DEFINE one == <<v>>
        <5>1. one \in Seq(Int) /\ Len(one) = 1 /\ one[1] = v
          BY <1>3
        <5> HIDE DEF one
        <5>2. /\ SubSeq(one, 1, 1) \in Seq(Int) /\ Len(SubSeq(one, 1, 1)) = 1
              /\ \A j \in 1..1 : SubSeq(one, 1, 1)[j] = one[j]
          <6>1. 1 \in 1..(Len(one) + 1) /\ 1 \in (1 - 1)..Len(one)
            BY <5>1
          <6> QED BY <5>1, <6>1, PartIs
        <5>3. SubSeq(one, 1, 1) = one
          BY <5>1, <5>2, SeqEqual
        <5> QED BY <5>1, <5>3 DEF one
      <4>2. ~(1 < 1)
        OBVIOUS
      <4> QED BY <4>1, <4>2 DEF EncodeWhole
    <3>2. DOMAIN <<v>> = 1..1
      OBVIOUS
    <3>3. EncodeInt16(<<v>>, 1) = [i \in 1..1 |-> <<v>>[i] % Pow2(16)]
      BY <3>1, <3>2, Zenon DEF EncodeInt16
    <3>4. [i \in 1..1 |-> <<v>>[i] % Pow2(16)] = <<code>>
      BY <1>0, <1>3
    <3> QED BY <3>3, <3>4
  <2>2. Signed(code, 16) = v
    BY DEF DecodeDWWSSN, v
  <2>3. DecodeInt16(<<code>>) = [i \in 1..1 |-> Signed(<<code>>[i], 16)]
    BY DEF DecodeInt16
  <2>4. [i \in 1..1 |-> Signed(<<code>>[i], 16)] = <<v>>
    BY <2>2
  <2> QED BY <2>1, <2>3, <2>4
<1>5. DecodeGeoscope24(code * 256) = v * 256
  <2>1. PICK c \in Nat : c = code * 256
    BY <1>1
  <2>2. PICK q \in Nat \ {0}, g \in Nat \ {0} : q = 256 * p /\ g = 256 * h /\ q = Pow2(24) /\ g = Pow2(23)
    BY <1>0, HalvesOfPowers
  <2>3. c \in 0..(q - 1) /\ (c >= g <=> code >= h)
    BY <1>1, <2>1, <2>2
  <2>4. c % q = c
    BY <2>3, ModSmall
  <2>5. ~(24 = 32) /\ 24 - 1 = 23
    OBVIOUS
  <2>6. Signed(c, 24) = IF c % q >= g THEN (c % q) - q ELSE c % q
    BY <2>2, <2>5 DEF Signed
  <2>7. Signed(c, 24) = IF code >= h THEN c - q ELSE c
    BY <2>3, <2>4, <2>6
  <2>8. v * 256 = IF code >= h THEN c - q ELSE c
    BY <1>1, <1>2, <2>1, <2>2
  <2>9. DecodeGeoscope24(code * 256) = Signed(c, 24)
    BY <2>1 DEF DecodeGeoscope24
  <2> QED BY <2>7, <2>8, <2>9
<1>6. ASSUME NEW start \in {0, 12, 14}, NEW bits \in {2, 3, 4, 12, 14}
      PROVE  Extract(code, start, bits) \in 0..(Pow2(bits) - 1)
  <2>1. Pow2(start) \in Nat \ {0}
    <3>1. Pow2(0) \in Nat \ {0}
      BY HalvesOfPowers
    <3> QED BY <1>6, <3>1, HalvesOfPowers
  <2>2. Pow2(bits) \in Nat \ {0}
    <3>1. Pow2(2) \in Nat \ {0} /\ Pow2(3) \in Nat \ {0} /\ Pow2(4) \in Nat \ {0}
      BY HalvesOfPowers
    <3> QED BY <1>6, <3>1, HalvesOfPowers
  <2>3. code \div Pow2(start) \in Nat
    BY <1>1, <2>1, QuotientIs
  <2> QED BY <2>2, <2>3, QuotientIs DEF Extract
<1>7. DecodeCDSN(code) \in ((1 - Pow2(13)) * 128)..(Pow2(13) * 128)
  <2>1. PICK a \in Nat : a = Pow2(13) /\ Pow2(14) = 2 * a /\ a = 8192
    BY HalvesOfPowers
  <2>2. PICK e \in Nat : e = Extract(code, 0, 14) /\ e < 2 * a
    <3>1. Extract(code, 0, 14) \in 0..(Pow2(14) - 1)
      BY <1>6
    <3> QED BY <2>1, <3>1
  <2>3. PICK k \in {0, 1, 2, 3} : k = Extract(code, 14, 2)
    <3>1. Extract(code, 14, 2) \in 0..(Pow2(2) - 1)
      BY <1>6
    <3> QED BY <3>1, HalvesOfPowers
  <2>4. PICK s \in {0, 2, 4, 7} : s = <<0, 2, 4, 7>>[1 + k]
    OBVIOUS
  <2>5. PICK f \in {1, 4, 16, 128} : f = Pow2(s)
    BY HalvesOfPowers, Powers
  <2>6. PICK m \in Int : m = e - 8191 /\ m >= 1 - a /\ m <= a
    BY <2>1, <2>2
  <2>7. DecodeCDSN(code) = m * f
    BY <2>2, <2>3, <2>4, <2>5, <2>6 DEF DecodeCDSN
  <2>8. m * f \in ((1 - a) * 128)..(a * 128)
    <3>1. m * f \in Int /\ (1 - a) * 128 <= m * f /\ m * f <= a * 128
      BY <2>1, <2>6
    <3> QED BY <2>1, <3>1
  <2> QED BY <2>1, <2>7, <2>8
<1>8. DecodeGeoscope16(code, 3)[2] <= 128 /\ DecodeGeoscope16(code, 4)[1] \in -Pow2(11)..(Pow2(11) - 1)
  <2>1. PICK e \in 0..7 : e = Extract(code, 12, 3)
    <3>1. Extract(code, 12, 3) \in 0..(Pow2(3) - 1)
      BY <1>6
    <3> QED BY <3>1, HalvesOfPowers
  <2>2. Pow2(e) <= 128
    <3>1. e \in {0, 1, 2, 3, 4, 5, 6, 7}
      OBVIOUS
    <3>2. Pow2(1) = 2
      BY DEF Pow2
    <3> QED BY <3>1, <3>2, HalvesOfPowers, Powers
  <2>3. DecodeGeoscope16(code, 3)[2] = Pow2(e)
    BY <2>1 DEF DecodeGeoscope16
  <2>4. DecodeGeoscope16(code, 4)[1] = Extract(code, 0, 12) - 2048
    BY DEF DecodeGeoscope16
  <2>5. PICK b \in Nat : b = Pow2(11) /\ Pow2(12) = 2 * b /\ b = 2048
    BY HalvesOfPowers
  <2>6. Extract(code, 0, 12) \in 0..(2 * b - 1)
    BY <1>6, <2>5
  <2> QED BY <2>2, <2>3, <2>4, <2>5, <2>6
<1>9. DecodeSRO(code).error <=> code >= 11 * Pow2(12)
  <2>1. PICK B \in Nat \ {0} : B = Pow2(12) /\ p = 16 * B /\ Pow2(4) = 16
    BY <1>0, HalvesOfPowers
  <2>2. PICK q \in Nat : q = code \div B
    BY <1>1, <2>1, QuotientIs
  <2>3. PICK r \in 0..(B - 1) : code = B * q + r
    BY <1>1, <2>2, QuotientIs
  <2>4. q < 16
    BY <1>1, <2>1, <2>2, FramesFit
  <2>5. q \in {0, 1, 2, 3, 4, 5, 6, 7, 8, 9, 10, 11, 12, 13, 14, 15}
    BY <2>4
  <2>6. q % 16 = q
    <3>1. q \in 0..(16 - 1)
      BY <2>4
    <3> QED BY <3>1, ModSmall
  <2>7. Extract(code, 12, 4) = q
    BY <2>1, <2>2, <2>6 DEF Extract
  <2>8. 10 - q < 0 <=> code >= 11 * B
    BY <2>3, <2>5
  <2>9. DecodeSRO(code).error <=> 10 - q < 0
    <3>1. CASE 10 - q < 0
      BY <2>7, <3>1 DEF DecodeSRO
    <3>2. CASE ~(10 - q < 0)
      BY <2>7, <3>2 DEF DecodeSRO
    <3> QED BY <3>1, <3>2
  <2> QED BY <2>1, <2>8, <2>9
<1>10. v \in -Pow2(15)..(Pow2(15) - 1) /\ v % Pow2(16) = code
  BY <1>0, <1>3
<1> QED BY <1>4, <1>5, <1>7, <1>8, <1>9, <1>10, SMT DEF CodesRead, v

-----------------------------------------------------------------------------
(* Blocks of the kinds there are, and the places they are laid out at.     *)
BlockTypes == {100, 200, 201, 300, 310, 320, 390, 395, 500, 1000, 1001}
Typed(q)   == \A i \in 1..Len(q) : q[i].type \in BlockTypes

BlockSums(P, q) ==
  /\ P \in [0..Len(q) -> Nat] /\ P[0] = 0
  /\ \A m \in 1..Len(q) : P[m] = P[m - 1] + Length(q[m].type)

LEMMA LengthsAre ==
  ASSUME NEW t \in BlockTypes
  PROVE  Length(t) \in Nat /\ Length(t) >= 8
BY DEF BlockTypes, Length

(* The beginnings of a sequence.                                           *)
LEMMA LastOf ==
  ASSUME NEW n \in Nat, NEW m \in 1..n
  PROVE  1..m \in SUBSET (1..n) /\ 1..m # {} /\ Max(1..m) = m /\ (1..m) \ {Max(1..m)} = 1..(m - 1)
<1>1. 1..m \in SUBSET (1..n) /\ 1..m # {} /\ m \in 1..m
  OBVIOUS
<1>2. Max(1..m) \in 1..m /\ \A k \in 1..m : k <= Max(1..m)
  BY <1>1, GreatestPlace
<1>3. Max(1..m) = m
  BY <1>1, <1>2
<1>4. (1..m) \ {m} = 1..(m - 1)
  OBVIOUS
<1> QED BY <1>1, <1>3, <1>4

(* The fold of Size yields the last of the sums.                           *)
LEMMA SizeSums ==
  ASSUME NEW B, NEW q \in Seq(B), Typed(q)
  PROVE  \E P : BlockSums(P, q) /\ Size(q) = 48 + P[Len(q)]
<1> DEFINE n == Len(q)
           S == SUBSET (1..n)
           Grown(v, b) == v + Length(b.type)
           Fold(f) == [s \in S |-> IF s = {} THEN 0 ELSE Grown(f[s \ {Max(s)}], q[Max(s)])]
           fold == CHOOSE f : f = Fold(f)
           step == [i \in 1..n |-> [v \in Nat |-> Grown(v, q[i])]]
<1>1. n \in Nat /\ DOMAIN q = 1..n /\ \A i \in 1..n : Length(q[i].type) \in Nat
  BY LengthsAre DEF Typed
<1>2. Size(q) = 48 + fold[1..n]
  BY <1>1, Zenon DEF Size, FoldLeft, MapThenFoldSet
<1> HIDE DEF n
<1>5. step \in [1..n -> [Nat -> Nat]] /\ \A i \in 1..n : \A v \in Nat : step[i][v] = Grown(v, q[i])
  BY <1>1
<1> HIDE DEF step
<1>6. PICK f \in [S -> Nat] : \A s \in S : Folding(f, s, 0, step)
  <2>1. 0 \in Nat
    OBVIOUS
  <2> QED BY <1>1, <1>5, <2>1, FoldExists
<1> HIDE DEF Grown
<1>7. f = Fold(f)
  <2>1. ASSUME NEW s \in S
        PROVE  f[s] = IF s = {} THEN 0 ELSE Grown(f[s \ {Max(s)}], q[Max(s)])
    <3>1. f[s] = IF s = {} THEN 0 ELSE step[Max(s)][f[s \ {Max(s)}]]
      BY <1>6, Zenon DEF Folding
    <3>2. CASE s = {}
      BY <3>1, <3>2
    <3>3. CASE s # {}
      <4>1. Max(s) \in 1..n /\ s \ {Max(s)} \in S
        BY <1>1, <3>3, GreatestPlace
      <4> QED BY <1>5, <1>6, <3>1, <3>3, <4>1, Zenon
    <3> QED BY <3>2, <3>3
  <2>2. f = [s \in S |-> f[s]]
    BY <1>6
  <2> QED BY <2>1, <2>2, Zenon
<1>8. fold = Fold(fold)
  <2> HIDE DEF Fold
  <2> QED BY <1>7
<1>9. \A s \in S : fold[s] = IF s = {} THEN 0 ELSE Grown(fold[s \ {Max(s)}], q[Max(s)])
  <2> HIDE DEF fold
  <2>1. \A s \in S : Fold(fold)[s] = IF s = {} THEN 0 ELSE Grown(fold[s \ {Max(s)}], q[Max(s)])
    BY Zenon
  <2> HIDE DEF Fold
  <2> QED BY <1>8, <2>1, Zenon
<1> HIDE DEF fold, Fold
<1> DEFINE P == [m \in 0..n |-> fold[1..m]]
<1>10. P[0] = 0
  <2>1. 1..0 = {} /\ 0 \in 0..n /\ {} \in S
    BY <1>1
  <2> QED BY <1>9, <2>1
<1>11. ASSUME NEW m \in 1..n PROVE P[m] = P[m - 1] + Length(q[m].type)
  <2>1. m \in 0..n /\ m - 1 \in 0..n
    BY <1>1
  <2>2. fold[1..m] = Grown(fold[1..(m - 1)], q[m])
    BY <1>1, <1>9, LastOf
  <2> QED BY <2>1, <2>2 DEF Grown
<1>12. P = [m \in 0..n |-> P[m]]
  OBVIOUS
<1>13. Size(q) = 48 + P[n]
  <2>1. n \in 0..n
    BY <1>1
  <2> QED BY <1>2, <2>1
<1> HIDE DEF P
<1> DEFINE T == {m \in Nat : m <= n => P[m] \in Nat}
<1>14. 0 \in T
  BY <1>10
<1>15. ASSUME NEW m \in T PROVE m + 1 \in T
  <2> SUFFICES ASSUME m + 1 <= n PROVE P[m + 1] \in Nat
    BY <1>15
  <2>1. m \in Nat /\ m + 1 \in 1..n /\ (m + 1) - 1 = m /\ P[m] \in Nat
    BY <1>1, <1>15
  <2>2. Length(q[m + 1].type) \in Nat
    BY <1>1, <2>1
  <2> QED BY <1>11, <2>1, <2>2
<1> HIDE DEF T
<1>16. \A m \in 0..n : P[m] \in Nat
  <2>1. T \in SUBSET Nat
    BY DEF T
  <2>2. \A m \in Nat : m \in T
    BY <1>14, <1>15, <2>1, Induction
  <2> QED BY <1>1, <2>2 DEF T
<1>17. P \in [0..n -> Nat]
  BY <1>12, <1>16
<1> QED BY <1>10, <1>11, <1>13, <1>17 DEF BlockSums, n

(* The sums of a sequence are those of its beginnings.                     *)
LEMMA SizeOfBeginning ==
  ASSUME NEW B, NEW q \in Seq(B), Typed(q), NEW P, BlockSums(P, q), NEW m \in 0..Len(q),
         NEW C, NEW r \in Seq(C), Len(r) = m, \A i \in 1..m : r[i].type = q[i].type
  PROVE  Size(r) = 48 + P[m]
<1> DEFINE n == Len(q)
<1>1. n \in Nat /\ m \in Nat /\ m <= n
  OBVIOUS
<1>2. Typed(r)
  BY DEF Typed
<1>3. PICK R : BlockSums(R, r) /\ Size(r) = 48 + R[m]
  BY <1>2, SizeSums
<1>4. \A i \in 1..m : R[i] = R[i - 1] + Length(q[i].type) /\ P[i] = P[i - 1] + Length(q[i].type)
  BY <1>1, <1>3 DEF BlockSums
<1>5. R[0] = 0 /\ P[0] = 0
  BY <1>3 DEF BlockSums
<1> HIDE DEF n
<1> DEFINE T == {i \in Nat : i <= m => R[i] = P[i]}
<1>6. 0 \in T
  BY <1>5
<1>7. ASSUME NEW i \in T PROVE i + 1 \in T
  <2> SUFFICES ASSUME i + 1 <= m PROVE R[i + 1] = P[i + 1]
    BY <1>7
  <2>1. i \in Nat /\ i + 1 \in 1..m /\ (i + 1) - 1 = i /\ R[i] = P[i]
    BY <1>1, <1>7
  <2> QED BY <1>4, <2>1
<1> HIDE DEF T
<1>8. m \in T
  <2>1. T \in SUBSET Nat
    BY DEF T
  <2> QED BY <1>1, <1>6, <1>7, <2>1, Induction
<1>9. R[m] = P[m]
  BY <1>1, <1>8 DEF T
<1> QED BY <1>3, <1>9

-----------------------------------------------------------------------------
(* The blockettes of a header of version 2.                                *)
BlocksWith(H) == {Block(t, h) : t \in BlockTypes, h \in H}
BlockettesIn(H, reclen) ==
  {q \in Seq(BlocksWith(H)) : q # <<>> /\ q[1].type = 1000 /\ Size(q) <= reclen}
AllBlocks(H, reclen) == {Refuse} \cup {[error |-> FALSE, blocks |-> q] : q \in BlockettesIn(H, reclen)}
NewBlocks(H)         == {Refuse} \cup {[error |-> FALSE, blocks |-> q] : q \in Seq(BlocksWith(H))}

LEMMA BlocksTyped ==
  ASSUME NEW H
  PROVE  /\ \A b \in BlocksWith(H) : b.type \in BlockTypes
         /\ \A q \in Seq(BlocksWith(H)) : Typed(q)
<1>1. \A b \in BlocksWith(H) : b.type \in BlockTypes
  BY DEF BlocksWith, Block
<1>2. \A q \in Seq(BlocksWith(H)) : \A i \in 1..Len(q) : q[i] \in BlocksWith(H)
  OBVIOUS
<1> QED BY <1>1, <1>2 DEF Typed

(* Those every record of version 2 has, or may have.                       *)
LEMMA LeadsAre ==
  ASSUME NEW msr, NEW factmult
  PROVE  \E H : /\ Leads(msr, factmult) \in Seq(BlocksWith(H)) /\ Len(Leads(msr, factmult)) \in 1..3
                /\ Leads(msr, factmult)[1].type = 1000
                /\ \A i \in 1..Len(Leads(msr, factmult)) : Length(Leads(msr, factmult)[i].type) <= 12
<1> DEFINE micro == (msr.start \div Submicro) % MicrosPerFsec
           h1 == [quality |-> Value(msr.heads, "Time/Quality") % 256, micro |-> micro]
           h2 == [rate |-> msr.rate]
           H == {<<>>, h1, h2}
           c1 == "Time/Quality" \in DOMAIN msr.heads \/ micro # 0
           c2 == Apart(Hz(msr.rate), NomSampRate(factmult[1], factmult[2]))
           s1 == IF c1 THEN <<Block(1001, h1)>> ELSE <<>>
           s2 == IF c2 THEN <<Block(100, h2)>> ELSE <<>>
           b0 == Block(1000, <<>>)
<1>1. Leads(msr, factmult) = <<b0>> \o s1 \o s2
  BY Zenon DEF Leads
<1>2. /\ s1 = <<>> \/ s1 = <<Block(1001, h1)>>
      /\ s2 = <<>> \/ s2 = <<Block(100, h2)>>
  BY Zenon
<1>3. <<>> \in H /\ h1 \in H /\ h2 \in H
  OBVIOUS
<1> HIDE DEF s1, s2, h1, h2, H
<1>4. /\ Block(1001, h1) \in BlocksWith(H) /\ Block(100, h2) \in BlocksWith(H) /\ b0 \in BlocksWith(H)
      /\ Block(1001, h1).type = 1001 /\ Block(100, h2).type = 100 /\ b0.type = 1000
  BY <1>3 DEF BlocksWith, Block, BlockTypes
<1>5. Length(1001) <= 12 /\ Length(100) <= 12 /\ Length(1000) <= 12
  BY DEF Length
<1> HIDE DEF b0
<1> DEFINE b1 == Block(1001, h1)
           b2 == Block(100, h2)
           B == BlocksWith(H)
<1>6. b0 \in B /\ b1 \in B /\ b2 \in B /\ (s1 = <<>> \/ s1 = <<b1>>) /\ (s2 = <<>> \/ s2 = <<b2>>)
      /\ b0.type = 1000 /\ b1.type = 1001 /\ b2.type = 100
  BY <1>2, <1>4
<1> HIDE DEF b1, b2, B
<1> DEFINE q == <<b0>> \o s1 \o s2
<1>7. q \in Seq(B) /\ Len(q) \in 1..3 /\ q[1] = b0 /\ \A i \in 1..Len(q) : q[i] \in {b0, b1, b2}
  <2>1. CASE s1 = <<>> /\ s2 = <<>>
    BY <1>6, <2>1
  <2>2. CASE s1 = <<b1>> /\ s2 = <<>>
    BY <1>6, <2>2
  <2>3. CASE s1 = <<>> /\ s2 = <<b2>>
    BY <1>6, <2>3
  <2>4. CASE s1 = <<b1>> /\ s2 = <<b2>>
    BY <1>6, <2>4
  <2> QED BY <1>6, <2>1, <2>2, <2>3, <2>4
<1> HIDE DEF q
<1>8. \A i \in 1..Len(q) : Length(q[i].type) <= 12
  BY <1>5, <1>6, <1>7
<1>9. Leads(msr, factmult) = q
  BY <1>1 DEF q
<1>10. q[1].type = 1000
  BY <1>6, <1>7
<1> QED BY <1>7, <1>8, <1>9, <1>10 DEF B

(* They fit the smallest record.                                           *)
LEMMA LeadsFit ==
  ASSUME NEW msr, NEW factmult
  PROVE  \E H : /\ Leads(msr, factmult) \in Seq(BlocksWith(H)) /\ Leads(msr, factmult) # <<>>
                /\ Leads(msr, factmult)[1].type = 1000 /\ Size(Leads(msr, factmult)) <= 128
<1> DEFINE q == Leads(msr, factmult)
<1>1. PICK H : /\ q \in Seq(BlocksWith(H)) /\ Len(q) \in 1..3 /\ q[1].type = 1000
               /\ \A i \in 1..Len(q) : Length(q[i].type) <= 12
  BY LeadsAre
<1> HIDE DEF q
<1>2. Typed(q)
  BY <1>1, BlocksTyped
<1>3. PICK P : BlockSums(P, q) /\ Size(q) = 48 + P[Len(q)]
  BY <1>1, <1>2, SizeSums
<1>4. P[0] = 0 /\ \A m \in 1..Len(q) : P[m] = P[m - 1] + Length(q[m].type) /\ Length(q[m].type) \in Nat
  BY <1>1, <1>2, <1>3, LengthsAre DEF BlockSums, Typed
<1>5. P[Len(q)] \in Nat /\ P[Len(q)] <= 36
  <2>1. 1 <= Len(q) => P[1] \in Nat /\ P[1] <= 12
    <3> SUFFICES ASSUME 1 <= Len(q) PROVE P[1] \in Nat /\ P[1] <= 12
      OBVIOUS
    <3>1. 1 \in 1..Len(q) /\ 1 - 1 = 0
      BY <1>1
    <3> QED BY <1>1, <1>4, <3>1
  <2>2. 2 <= Len(q) => P[2] \in Nat /\ P[2] <= 24
    <3> SUFFICES ASSUME 2 <= Len(q) PROVE P[2] \in Nat /\ P[2] <= 24
      OBVIOUS
    <3>1. 2 \in 1..Len(q) /\ 2 - 1 = 1 /\ 1 <= Len(q)
      BY <1>1
    <3> QED BY <1>1, <1>4, <2>1, <3>1
  <2>3. 3 <= Len(q) => P[3] \in Nat /\ P[3] <= 36
    <3> SUFFICES ASSUME 3 <= Len(q) PROVE P[3] \in Nat /\ P[3] <= 36
      OBVIOUS
    <3>1. 3 \in 1..Len(q) /\ 3 - 1 = 2 /\ 2 <= Len(q)
      BY <1>1
    <3> QED BY <1>1, <1>4, <2>2, <3>1
  <2>4. Len(q) = 1 \/ Len(q) = 2 \/ Len(q) = 3
    BY <1>1
  <2>5. PICK n \in Nat : n = Len(q)
    BY <1>1
  <2>6. CASE n = 1
    BY <2>1, <2>5, <2>6
  <2>7. CASE n = 2
    BY <2>2, <2>5, <2>7
  <2>8. CASE n = 3
    BY <2>3, <2>5, <2>8
  <2> QED BY <2>4, <2>5, <2>6, <2>7, <2>8
<1>6. Size(q) <= 128 /\ q # <<>>
  BY <1>1, <1>3, <1>5
<1> QED BY <1>1, <1>6 DEF q

(* Those of the entries of the lists.                                      *)
LEMMA EntryBlocksAre ==
  ASSUME NEW E
  PROVE  \E H : \A list \in Lists3, e \in E : EntryBlocks(list, e) \in NewBlocks(H)
<1> DEFINE H == {Written(t, e.has) : t \in BlockTypes, e \in E}
<1> HIDE DEF H
<1> SUFFICES ASSUME NEW list \in Lists3, NEW e \in E PROVE EntryBlocks(list, e) \in NewBlocks(H)
  OBVIOUS
<1> DEFINE type == CASE list = "Exception" -> 500
                     [] list = "Detection" -> IF e.type = "MURDOCK" THEN 201 ELSE 200
                     [] list = "Sequence"  -> CalibrationType(e)
           first == IF type = 395 THEN <<>> ELSE <<Block(type, Written(type, e.has))>>
           ends  == IF list = "Sequence" /\ "EndTime" \in DOMAIN e.has
                    THEN <<Block(395, Written(395, e.has))>> ELSE <<>>
<1>1. EntryBlocks(list, e) = IF type = 0 THEN Refuse ELSE [error |-> FALSE, blocks |-> first \o ends]
  BY Zenon DEF EntryBlocks
<1>2. type \in BlockTypes \cup {0}
  <2>1. CalibrationType(e) \in BlockTypes \cup {0}
    BY DEF CalibrationType, BlockTypes
  <2>2. CASE list = "Exception"
    BY <2>2 DEF BlockTypes
  <2>3. CASE list = "Detection"
    BY <2>3 DEF BlockTypes
  <2>4. CASE list = "Sequence"
    BY <2>1, <2>4
  <2> QED BY <2>2, <2>3, <2>4 DEF Lists3
<1> HIDE DEF type
<1>3. ASSUME NEW t \in BlockTypes PROVE Block(t, Written(t, e.has)) \in BlocksWith(H)
  <2>1. Written(t, e.has) \in H
    BY DEF H
  <2> QED BY <2>1 DEF BlocksWith
<1>4. CASE type = 0
  BY <1>1, <1>4 DEF NewBlocks
<1>5. CASE type # 0
  <2>1. Block(type, Written(type, e.has)) \in BlocksWith(H) /\ Block(395, Written(395, e.has)) \in BlocksWith(H)
    BY <1>2, <1>3, <1>5 DEF BlockTypes
  <2> DEFINE B == BlocksWith(H)
  <2> HIDE DEF B
  <2>2. first \in Seq(B) /\ ends \in Seq(B)
    <3>1. /\ first = <<>> \/ first = <<Block(type, Written(type, e.has))>>
          /\ ends = <<>> \/ ends = <<Block(395, Written(395, e.has))>>
      BY Zenon
    <3> HIDE DEF first, ends
    <3>2. <<>> \in Seq(B) /\ <<Block(type, Written(type, e.has))>> \in Seq(B)
          /\ <<Block(395, Written(395, e.has))>> \in Seq(B)
      BY <2>1 DEF B
    <3> QED BY <3>1, <3>2, Zenon
  <2> HIDE DEF first, ends
  <2>3. first \o ends \in Seq(B)
    BY <2>2
  <2> QED BY <1>1, <1>5, <2>3 DEF NewBlocks, B
<1> QED BY <1>4, <1>5

(* A fold over the entries adds their blockettes, or one does not fit.     *)
LEMMA BlocksAre ==
  ASSUME NEW E, NEW msr, \A list \in Lists3 : msr.lists[list] \in Seq(E), msr.reclen \in Int, msr.reclen >= 128,
         NEW factmult
  PROVE  \E H : Blocks(msr, factmult) \in AllBlocks(H, msr.reclen)
<1>1. PICK H1 : /\ Leads(msr, factmult) \in Seq(BlocksWith(H1)) /\ Leads(msr, factmult) # <<>>
                /\ Leads(msr, factmult)[1].type = 1000 /\ Size(Leads(msr, factmult)) <= 128
  BY LeadsFit
<1>2. PICK H2 : \A list \in Lists3, e \in E : EntryBlocks(list, e) \in NewBlocks(H2)
  BY EntryBlocksAre
<1> DEFINE H == H1 \cup H2
           V == AllBlocks(H, msr.reclen)
           N == NewBlocks(H)
           B == BlocksWith(H)
           Of(list) == [i \in DOMAIN msr.lists[list] |-> EntryBlocks(list, msr.lists[list][i])]
           Grown(h, new) == IF h.error \/ new.error THEN Refuse
                            ELSE IF Size(h.blocks \o new.blocks) > msr.reclen THEN Refuse
                            ELSE [error |-> FALSE, blocks |-> h.blocks \o new.blocks]
           first == [error |-> FALSE, blocks |-> Leads(msr, factmult)]
           all == Of("Exception") \o Of("Detection") \o Of("Sequence")
           n == Len(all)
           S == SUBSET (1..n)
           Fold(f) == [s \in S |-> IF s = {} THEN first ELSE Grown(f[s \ {Max(s)}], all[Max(s)])]
           fold == CHOOSE f : f = Fold(f)
           step == [i \in 1..n |-> [v \in V |-> Grown(v, all[i])]]
<1>3. BlocksWith(H1) \subseteq B /\ BlocksWith(H2) \subseteq B
  BY DEF BlocksWith
<1>4. NewBlocks(H2) \subseteq N
  <2>1. \A q \in Seq(BlocksWith(H2)) : q \in Seq(B)
    <3> HIDE DEF B
    <3> TAKE q \in Seq(BlocksWith(H2))
    <3>1. \A i \in 1..Len(q) : q[i] \in B
      BY <1>3
    <3> QED BY <3>1
  <2> HIDE DEF H
  <2> QED BY <2>1 DEF NewBlocks
<1>5. first \in V
  <2> DEFINE q == Leads(msr, factmult)
  <2>1. q \in Seq(BlocksWith(H1)) /\ q # <<>> /\ q[1].type = 1000 /\ Size(q) <= 128
    BY <1>1
  <2> HIDE DEF q, B
  <2>2. q \in Seq(B)
    <3>1. \A i \in 1..Len(q) : q[i] \in B
      BY <1>3, <2>1
    <3> QED BY <2>1, <3>1
  <2>3. Size(q) <= msr.reclen
    <3>1. PICK P : BlockSums(P, q) /\ Size(q) = 48 + P[Len(q)]
      <4>1. Typed(q)
        BY <2>1, BlocksTyped
      <4> QED BY <2>1, <4>1, SizeSums
    <3>2. P[Len(q)] \in Nat
      <4>1. Len(q) \in 0..Len(q)
        BY <2>1
      <4> QED BY <3>1, <4>1 DEF BlockSums
    <3> QED BY <2>1, <3>1, <3>2
  <2>4. q \in BlockettesIn(H, msr.reclen)
    <3> HIDE DEF H
    <3> QED BY <2>1, <2>2, <2>3 DEF BlockettesIn, B
  <2>5. first = [error |-> FALSE, blocks |-> q]
    BY DEF q
  <2> HIDE DEF first, H
  <2> QED BY <2>4, <2>5 DEF AllBlocks
<1>6. \A list \in Lists3 : Of(list) \in Seq(N)
  <2> TAKE list \in Lists3
  <2> DEFINE l == msr.lists[list]
  <2>1. l \in Seq(E)
    OBVIOUS
  <2> HIDE DEF N, l
  <2>2. DOMAIN l = 1..Len(l) /\ Len(l) \in Nat /\ \A i \in DOMAIN l : EntryBlocks(list, l[i]) \in N
    BY <1>2, <1>4, <2>1
  <2>3. [i \in DOMAIN l |-> EntryBlocks(list, l[i])] \in Seq(N)
    BY <2>2
  <2> QED BY <2>3 DEF l
<1>7. all \in Seq(N)
  <2>1. Of("Exception") \in Seq(N) /\ Of("Detection") \in Seq(N) /\ Of("Sequence") \in Seq(N)
    BY <1>6 DEF Lists3
  <2> HIDE DEF Of, N
  <2> QED BY <2>1
<1>8. Blocks(msr, factmult) = fold[DOMAIN all]
  <2>1. Blocks(msr, factmult) = FoldLeft(Grown, first, all)
    BY Zenon DEF Blocks
  <2> HIDE DEF all, first
  <2>2. DOMAIN all = 1..n
    <3> HIDE DEF N
    <3> QED BY <1>7
  <2>3. FoldLeft(Grown, first, all) = fold[DOMAIN all]
    BY <2>2, Zenon DEF FoldLeft, MapThenFoldSet
  <2> QED BY <2>1, <2>3
<1> HIDE DEF all, Of
<1>9. n \in Nat /\ DOMAIN all = 1..n /\ \A i \in 1..n : all[i] \in N
  <2> HIDE DEF N
  <2> QED BY <1>7
<1> HIDE DEF n, first
<1>10. ASSUME NEW h \in V, NEW new \in N PROVE Grown(h, new) \in V
  <2>1. Refuse \in V /\ Refuse.error
    BY DEF AllBlocks, Refuse
  <2>2. CASE h.error \/ new.error
    BY <2>1, <2>2
  <2>3. CASE ~(h.error \/ new.error)
    <3>1. PICK p \in BlockettesIn(H, msr.reclen) : h = [error |-> FALSE, blocks |-> p]
      BY <2>1, <2>3 DEF AllBlocks
    <3>2. PICK r \in Seq(BlocksWith(H)) : new = [error |-> FALSE, blocks |-> r]
      BY <2>1, <2>3 DEF NewBlocks
    <3> DEFINE q == p \o r
    <3> HIDE DEF H
    <3>3. Grown(h, new) = IF Size(q) > msr.reclen THEN Refuse ELSE [error |-> FALSE, blocks |-> q]
      <4>1. h.error = FALSE /\ new.error = FALSE /\ h.blocks = p /\ new.blocks = r
        BY <3>1, <3>2
      <4> QED BY <4>1, Zenon
    <3> HIDE DEF B, Grown
    <3>4. q \in Seq(B) /\ q # <<>> /\ q[1].type = 1000
      <4>1. p \in Seq(B) /\ p # <<>> /\ p[1].type = 1000 /\ r \in Seq(B)
        BY <3>2 DEF BlockettesIn, B
      <4>2. q[1] = p[1]
        BY <4>1
      <4> QED BY <4>1, <4>2
    <3> HIDE DEF q
    <3>5. CASE Size(q) > msr.reclen
      BY <2>1, <3>3, <3>5
    <3>6. CASE ~(Size(q) > msr.reclen)
      <4>1. PICK P : BlockSums(P, q) /\ Size(q) = 48 + P[Len(q)]
        <5>1. Typed(q)
          BY <3>4, BlocksTyped DEF B
        <5> QED BY <3>4, <5>1, SizeSums
      <4>2. P[Len(q)] \in Nat
        <5>1. Len(q) \in 0..Len(q)
          BY <3>4
        <5> QED BY <4>1, <5>1 DEF BlockSums
      <4>3. Size(q) <= msr.reclen
        BY <3>6, <4>1, <4>2
      <4>4. q \in BlockettesIn(H, msr.reclen)
        BY <3>4, <4>3 DEF BlockettesIn, B
      <4> QED BY <3>3, <3>6, <4>4 DEF AllBlocks
    <3> QED BY <3>5, <3>6
  <2> QED BY <2>2, <2>3
<1>11. step \in [1..n -> [V -> V]] /\ \A i \in 1..n : \A v \in V : step[i][v] = Grown(v, all[i])
  <2> HIDE DEF V, Grown, N
  <2>1. \A i \in 1..n : \A v \in V : Grown(v, all[i]) \in V
    BY <1>9, <1>10
  <2> QED BY <2>1, Zenon
<1> HIDE DEF step, V, Grown
<1>12. PICK f \in [S -> V] : \A s \in S : Folding(f, s, first, step)
  BY <1>5, <1>9, <1>11, FoldExists
<1>13. f = Fold(f)
  <2>1. ASSUME NEW s \in S
        PROVE  f[s] = IF s = {} THEN first ELSE Grown(f[s \ {Max(s)}], all[Max(s)])
    <3>1. f[s] = IF s = {} THEN first ELSE step[Max(s)][f[s \ {Max(s)}]]
      BY <1>12, Zenon DEF Folding
    <3>2. CASE s = {}
      BY <3>1, <3>2
    <3>3. CASE s # {}
      <4>1. Max(s) \in 1..n /\ s \ {Max(s)} \in S
        BY <1>9, <3>3, GreatestPlace
      <4> QED BY <1>11, <1>12, <3>1, <3>3, <4>1, Zenon
    <3> QED BY <3>2, <3>3
  <2>2. f = [s \in S |-> f[s]]
    BY <1>12
  <2> QED BY <2>1, <2>2, Zenon
<1>14. fold = Fold(fold)
  <2> HIDE DEF Fold
  <2> QED BY <1>13
<1>15. \A s \in S : fold[s] = IF s = {} THEN first ELSE Grown(fold[s \ {Max(s)}], all[Max(s)])
  <2> HIDE DEF fold
  <2>1. \A s \in S : Fold(fold)[s] = IF s = {} THEN first ELSE Grown(fold[s \ {Max(s)}], all[Max(s)])
    BY Zenon
  <2> HIDE DEF Fold
  <2> QED BY <1>14, <2>1, Zenon
<1> HIDE DEF fold, Fold, N
<1> DEFINE T == {m \in Nat : m <= n => fold[1..m] \in V}
<1>16. 0 \in T
  <2>1. 1..0 = {} /\ {} \in S
    OBVIOUS
  <2>2. fold[1..0] = first
    BY <1>15, <2>1
  <2> QED BY <1>5, <2>2
<1>17. ASSUME NEW m \in T PROVE m + 1 \in T
  <2> SUFFICES ASSUME m + 1 <= n PROVE fold[1..(m + 1)] \in V
    BY <1>17
  <2>1. m \in Nat /\ m + 1 \in 1..n /\ (m + 1) - 1 = m /\ fold[1..m] \in V
    BY <1>9, <1>17
  <2>2. fold[1..(m + 1)] = Grown(fold[1..m], all[m + 1])
    <3> DEFINE s == 1..(m + 1)
    <3>1. s \in S /\ s # {} /\ Max(s) = m + 1 /\ s \ {Max(s)} = 1..m
      BY <1>9, <2>1, LastOf
    <3>2. fold[s] = IF s = {} THEN first ELSE Grown(fold[s \ {Max(s)}], all[Max(s)])
      BY <1>15, <3>1, Zenon
    <3> HIDE DEF s
    <3>3. fold[s] = Grown(fold[1..m], all[m + 1])
      BY <3>1, <3>2, Zenon
    <3> QED BY <3>3 DEF s
  <2>3. all[m + 1] \in N
    BY <1>9, <2>1
  <2> QED BY <1>10, <2>1, <2>2, <2>3 DEF V, Grown, N
<1> HIDE DEF T
<1>18. n \in T
  <2>1. T \in SUBSET Nat
    BY DEF T
  <2> QED BY <1>9, <1>16, <1>17, <2>1, Induction
<1>19. Blocks(msr, factmult) \in V
  BY <1>8, <1>9, <1>18 DEF T
<1> QED BY <1>19 DEF V

-----------------------------------------------------------------------------
(* The chain of blockettes: each place is behind the one before it.        *)
ChainWell(chain) ==
  /\ 48 \in DOMAIN chain /\ chain[48].type = 1000 /\ DOMAIN chain \subseteq Nat
  /\ \A at \in DOMAIN chain :
       LET next == chain[at].next IN next = 0 \/ (next \in DOMAIN chain /\ next >= at + 8)

LEMMA SumsRise ==
  ASSUME NEW q, NEW n \in Nat, Len(q) = n, Typed(q), NEW P, BlockSums(P, q),
         NEW i \in 0..n, NEW j \in 0..n, i < j
  PROVE  P[i] + 8 <= P[j]
<1>1. \A m \in 1..n : P[m] \in Nat /\ P[m - 1] \in Nat /\ P[m - 1] + 8 <= P[m]
  <2> TAKE m \in 1..n
  <2>1. m \in 0..n /\ m - 1 \in 0..n
    OBVIOUS
  <2>2. P[m] \in Nat /\ P[m - 1] \in Nat /\ P[m] = P[m - 1] + Length(q[m].type)
    BY <2>1 DEF BlockSums
  <2>3. Length(q[m].type) \in Nat /\ Length(q[m].type) >= 8
    BY LengthsAre DEF Typed
  <2> QED BY <2>2, <2>3
<1> DEFINE T == {k \in Nat : i < k /\ k <= n => P[i] + 8 <= P[k]}
<1>2. 0 \in T
  OBVIOUS
<1>3. ASSUME NEW k \in T PROVE k + 1 \in T
  <2> SUFFICES ASSUME i < k + 1, k + 1 <= n PROVE P[i] + 8 <= P[k + 1]
    BY <1>3
  <2>1. k \in Nat /\ k + 1 \in 1..n /\ (k + 1) - 1 = k
    BY <1>3
  <2>2. P[k] + 8 <= P[k + 1] /\ P[k] \in Nat /\ P[k + 1] \in Nat
    BY <1>1, <2>1
  <2>3. CASE i = k
    BY <2>2, <2>3
  <2>4. CASE i # k
    <3>1. P[i] + 8 <= P[k]
      BY <1>3, <2>1, <2>4
    <3>2. P[i] \in Nat
      BY DEF BlockSums
    <3> QED BY <2>2, <3>1, <3>2
  <2> QED BY <2>3, <2>4
<1> HIDE DEF T
<1>4. j \in T
  <2>1. T \in SUBSET Nat
    BY DEF T
  <2> QED BY <1>2, <1>3, <2>1, Induction
<1> QED BY <1>4 DEF T

LEMMA ChainIs ==
  ASSUME NEW B, NEW q \in Seq(B), Typed(q), q # <<>>, q[1].type = 1000
  PROVE  ChainWell(Chain(q))
<1> DEFINE OffsetOf(i) == Size(SubSeq(q, 1, i - 1))
           S == {OffsetOf(i) : i \in DOMAIN q}
           Nth(at) == CHOOSE j \in DOMAIN q : OffsetOf(j) = at
           chain == Chain(q)
<1>1. PICK n \in Nat : n = Len(q) /\ DOMAIN q = 1..n /\ n >= 1
  BY SMT
<1>2. PICK P : BlockSums(P, q)
  BY SizeSums
<1>3. \A i \in 0..n : P[i] \in Nat
  BY <1>1, <1>2 DEF BlockSums
<1>4. ASSUME NEW i \in 1..n PROVE OffsetOf(i) = 48 + P[i - 1]
  <2> DEFINE r == SubSeq(q, 1, i - 1)
             m == i - 1
  <2>1. m \in 0..Len(q) /\ r \in Seq(B) /\ Len(r) = m /\ \A k \in 1..m : r[k] = q[k]
    BY <1>1
  <2> HIDE DEF m, r
  <2>2. \A k \in 1..m : r[k].type = q[k].type
    BY <2>1
  <2>3. Size(r) = 48 + P[m]
    BY <1>2, <2>1, <2>2, SizeOfBeginning
  <2> QED BY <2>3 DEF r, m
<1>5. chain = [at \in S |-> [type |-> q[Nth(at)].type, has |-> q[Nth(at)].has,
                             next |-> IF Nth(at) = Len(q) THEN 0 ELSE OffsetOf(Nth(at) + 1)]]
  BY Zenon DEF Chain
<1> HIDE DEF OffsetOf
<1>6. ASSUME NEW i \in 1..n PROVE Nth(48 + P[i - 1]) = i
  <2>1. \A j \in 1..n : OffsetOf(j) = 48 + P[i - 1] => j = i
    <3> SUFFICES ASSUME NEW j \in 1..n, 48 + P[j - 1] = 48 + P[i - 1] PROVE j = i
      BY <1>4, ZenonT(30), SMTT(30)
    <3>1. i - 1 \in 0..n /\ j - 1 \in 0..n /\ P[i - 1] \in Nat /\ P[j - 1] \in Nat /\ P[i - 1] = P[j - 1]
      BY <1>1, <1>3, SMTT(30), ZenonT(30)
    <3>2. ~(i - 1 < j - 1) /\ ~(j - 1 < i - 1)
      <4>1. ASSUME NEW k \in 0..n, NEW l \in 0..n, k < l PROVE P[k] + 8 <= P[l]
        BY <1>1, <1>2, <4>1, SumsRise
      <4> QED BY <3>1, <4>1
    <3> QED BY <3>2
  <2>2. OffsetOf(i) = 48 + P[i - 1]
    BY <1>4
  <2> QED BY <1>1, <2>1, <2>2
<1>7. S = {48 + P[i - 1] : i \in 1..n}
  BY <1>1, <1>4, SMTT(30), ZenonT(30)
<1> HIDE DEF Nth, S, chain
<1>8. ASSUME NEW i \in 1..n
      PROVE  /\ 48 + P[i - 1] \in DOMAIN chain /\ chain[48 + P[i - 1]].type = q[i].type
             /\ chain[48 + P[i - 1]].next = IF i = n THEN 0 ELSE 48 + P[i]
  <2> DEFINE at == 48 + P[i - 1]
  <2>1. at \in S /\ Nth(at) = i
    BY <1>6, <1>7, ZenonT(30), SMTT(30)
  <2> HIDE DEF at
  <2>2. /\ DOMAIN chain = S /\ chain[at].type = q[i].type
        /\ chain[at].next = IF i = n THEN 0 ELSE OffsetOf(i + 1)
    BY <1>1, <1>5, <2>1
  <2>3. i # n => OffsetOf(i + 1) = 48 + P[i]
    <3> SUFFICES ASSUME i # n PROVE OffsetOf(i + 1) = 48 + P[i]
      OBVIOUS
    <3>1. i + 1 \in 1..n /\ (i + 1) - 1 = i
      BY <1>1
    <3>2. OffsetOf(i + 1) = 48 + P[(i + 1) - 1]
      BY <1>4, <3>1
    <3> QED BY <3>1, <3>2
  <2> QED BY <2>1, <2>2, <2>3 DEF at
<1>9. DOMAIN chain = S
  BY <1>5
<1>10. 48 \in DOMAIN chain /\ chain[48].type = 1000
  <2>1. 1 \in 1..n /\ 1 - 1 = 0 /\ P[0] = 0
    BY <1>1, <1>2 DEF BlockSums
  <2>2. 48 + P[1 - 1] = 48
    BY <2>1
  <2> QED BY <1>8, <2>1, <2>2
<1>11. DOMAIN chain \subseteq Nat
  <2>1. \A i \in 1..n : 48 + P[i - 1] \in Nat
    <3> TAKE i \in 1..n
    <3>1. i - 1 \in 0..n
      BY <1>1
    <3>2. P[i - 1] \in Nat
      BY <1>3, <3>1
    <3> QED BY <3>2
  <2> QED BY <1>7, <1>9, <2>1
<1>12. ASSUME NEW at \in DOMAIN chain
       PROVE  chain[at].next = 0 \/ (chain[at].next \in DOMAIN chain /\ chain[at].next >= at + 8)
  <2>1. PICK i \in 1..n : at = 48 + P[i - 1]
    BY <1>7, <1>9
  <2>2. CASE i = n
    BY <1>8, <2>1, <2>2, ZenonT(30)
  <2>3. CASE i # n
    <3>1. chain[at].next = 48 + P[i]
      BY <1>8, <2>1, <2>3
    <3>2. i + 1 \in 1..n /\ (i + 1) - 1 = i /\ i - 1 \in 0..n /\ i \in 0..n /\ i - 1 < i
      BY <1>1, <2>3
    <3>3. 48 + P[i] \in DOMAIN chain
      <4>1. 48 + P[(i + 1) - 1] \in DOMAIN chain
        BY <1>8, <3>2, ZenonT(30)
      <4> QED BY <3>2, <4>1
    <3>4. P[i - 1] + 8 <= P[i]
      BY <1>1, <1>2, <3>2, SumsRise
    <3>5. P[i - 1] \in Nat /\ P[i] \in Nat
      BY <1>3, <3>2
    <3> QED BY <2>1, <3>1, <3>3, <3>4, <3>5
  <2> QED BY <2>2, <2>3
<1> QED BY <1>10, <1>11, <1>12 DEF ChainWell, chain

-----------------------------------------------------------------------------
(* Headers of records.                                                     *)
HeaderWell2(msr, header) ==
  /\ {"first", "reclen", "chain"} \subseteq DOMAIN header
  /\ header.headerlen \in Nat /\ header.headerlen <= msr.reclen
  /\ header.first = 48 /\ header.reclen = msr.reclen /\ ChainWell(header.chain)

LEMMA HasReplaced ==
  ASSUME NEW H, NEW b \in BlocksWith(H), NEW x
  PROVE  [b EXCEPT !.has = x].type = b.type
BY DEF BlocksWith, Block

LEMMA Header2Is ==
  ASSUME NEW E, NEW msr, Packable(msr, E), msr.reclen >= 128, NEW factmult,
         ~Header2(msr, factmult, Blocks(msr, factmult)).error
  PROVE  HeaderWell2(msr, Header2(msr, factmult, Blocks(msr, factmult)))
<1> DEFINE all == Blocks(msr, factmult)
           q == all.blocks
           header == Header2(msr, factmult, all)
           clock == "Clock/Model" :> Value(msr.heads, "Clock/Model")
           has(b) == clock @@ b.has
           Clocked(b) == IF b.type # 500 THEN b ELSE [b EXCEPT !.has = has(b)]
           c == [i \in DOMAIN q |-> Clocked(q[i])]
           quality == IF "DataQuality" \in DOMAIN msr.heads THEN msr.heads["DataQuality"] ELSE 2
<1>1. PICK H : all \in AllBlocks(H, msr.reclen)
  <2>1. \A list \in Lists3 : msr.lists[list] \in Seq(E)
    BY DEF Packable
  <2>2. msr.reclen \in Int
    BY DEF Packable
  <2> QED BY <2>1, <2>2, BlocksAre
<1>2. header = IF all.error THEN Refuse
               ELSE [error |-> FALSE, headerlen |-> Size(q), fsec |-> msr.start \div Fsec,
                     quality |-> quality, bits |-> Bits(msr), factor |-> factmult[1],
                     multiplier |-> factmult[2], correction |-> Value(msr.heads, "Time/Correction"),
                     first |-> 48, chain |-> Chain(c), encoding |-> msr.encoding, reclen |-> msr.reclen]
  BY Zenon DEF Header2
<1> HIDE DEF header, all, clock, has
<1>3. ~all.error
  BY <1>2 DEF Refuse, header, all
<1>4. q \in BlockettesIn(H, msr.reclen)
  BY <1>1, <1>3 DEF AllBlocks, Refuse
<1> HIDE DEF q
<1>5. q \in Seq(BlocksWith(H)) /\ q # <<>> /\ q[1].type = 1000 /\ Size(q) <= msr.reclen
  BY <1>4 DEF BlockettesIn
<1>6. Typed(q) /\ DOMAIN q = 1..Len(q) /\ Len(q) \in Nat /\ Len(q) >= 1
  BY <1>5, BlocksTyped
<1>7. \A i \in 1..Len(q) : Clocked(q[i]).type = q[i].type
  <2> TAKE i \in 1..Len(q)
  <2>1. q[i] \in BlocksWith(H)
    BY <1>5
  <2>2. [q[i] EXCEPT !.has = has(q[i])].type = q[i].type
    BY <2>1, HasReplaced
  <2> QED BY <2>2
<1> HIDE DEF Clocked
<1>8. c \in Seq({c[i] : i \in 1..Len(q)}) /\ Len(c) = Len(q) /\ \A i \in 1..Len(q) : c[i] = Clocked(q[i])
  BY <1>6
<1> HIDE DEF c
<1>9. ChainWell(Chain(c))
  <2> DEFINE B == {c[i] : i \in 1..Len(q)}
  <2>1. c \in Seq(B)
    BY <1>8
  <2> HIDE DEF B
  <2>2. \A i \in 1..Len(c) : c[i].type = q[i].type
    BY <1>7, <1>8
  <2>3. 1 \in 1..Len(c) /\ c # <<>>
    BY <1>6, <1>8, <2>1
  <2>4. Typed(c)
    <3>1. \A i \in 1..Len(q) : q[i].type \in BlockTypes
      BY <1>6, Zenon DEF Typed
    <3>2. \A i \in 1..Len(c) : c[i].type \in BlockTypes
      BY <1>8, <2>2, <3>1, Zenon
    <3> QED BY <3>2, Zenon DEF Typed
  <2>5. c[1].type = 1000
    BY <1>5, <2>2, <2>3, ZenonT(30), SMTT(30)
  <2> QED BY <2>1, <2>3, <2>4, <2>5, ChainIs
<1>10. Size(q) \in Nat
  <2>1. PICK P : BlockSums(P, q) /\ Size(q) = 48 + P[Len(q)]
    BY <1>5, <1>6, SizeSums
  <2>2. P[Len(q)] \in Nat
    <3>1. Len(q) \in 0..Len(q)
      BY <1>6
    <3> QED BY <2>1, <3>1 DEF BlockSums
  <2> QED BY <2>1, <2>2
<1> HIDE DEF quality
<1>11. /\ {"first", "reclen", "chain"} \subseteq DOMAIN header /\ header.headerlen = Size(q)
       /\ header.first = 48 /\ header.reclen = msr.reclen /\ header.chain = Chain(c)
  BY <1>2, <1>3
<1> QED BY <1>5, <1>9, <1>10, <1>11 DEF HeaderWell2, header, all

LEMMA PackHeader2Is ==
  ASSUME NEW E, NEW msr, Packable(msr, E), ~PackHeader2(msr).error
  PROVE  msr.reclen \in PowersOfTwo /\ HeaderWell2(msr, PackHeader2(msr))
<1> DEFINE f == GenFactMult(msr.rate)
<1>1. PackHeader2(msr) = IF msr.reclen \notin PowersOfTwo \/ ~msr.seed THEN Refuse
                         ELSE IF f = <<>> THEN Refuse ELSE Header2(msr, f, Blocks(msr, f))
  BY Zenon DEF PackHeader2
<1> HIDE DEF f
<1>2. Refuse.error
  BY DEF Refuse
<1>3. msr.reclen \in PowersOfTwo /\ PackHeader2(msr) = Header2(msr, f, Blocks(msr, f))
  BY <1>1, <1>2, Zenon
<1>4. msr.reclen >= 128
  BY <1>3, LengthIs
<1> QED BY <1>3, <1>4, Header2Is

HeaderWell3(msr, header) ==
  /\ header.headerlen \in Nat /\ header.headerlen >= MinRecLen /\ header.headerlen <= msr.reclen
  /\ msr.reclen \in MinRecLen..MaxRecLen

LEMMA PackHeader3Is ==
  ASSUME NEW E, NEW msr, Packable(msr, E), ~PackHeader3(msr, msr.reclen).error
  PROVE  HeaderWell3(msr, PackHeader3(msr, msr.reclen))
<1> DEFINE header == PackHeader3(msr, msr.reclen)
           length == MinRecLen + msr.sidlen + ExtraLength(msr)
           refused == msr.reclen \notin MinRecLen..MaxRecLen \/ msr.reclen < length \/ msr.sidlen > 255
           rate == IF msr.rate[1] > 0 /\ msr.rate[1] < msr.rate[2] THEN <<-msr.rate[2], msr.rate[1]>>
                   ELSE msr.rate
<1>1. header = IF refused THEN Refuse
               ELSE [error |-> FALSE, headerlen |-> length, start |-> msr.start, flags |-> msr.flags,
                     rate |-> rate, pubversion |-> msr.pubversion, sidlen |-> msr.sidlen, heads |-> msr.heads,
                     lists |-> msr.lists, encoding |-> msr.encoding]
  BY Zenon DEF PackHeader3
<1>2. Refuse.error
  BY DEF Refuse
<1>3. msr.sidlen \in Nat /\ msr.reclen \in Int
  BY DEF Packable
<1>4. ExtraLength(msr) \in Nat
  <2>1. Cardinality(DOMAIN msr.heads) \in Nat
    BY FS_CardinalityType DEF Packable
  <2>2. Len(msr.lists.Exception) \in Nat /\ Len(msr.lists.Detection) \in Nat /\ Len(msr.lists.Sequence) \in Nat
    BY DEF Packable, Lists3
  <2>3. PICK k \in Nat : k = Cardinality(DOMAIN msr.heads) + Len(msr.lists.Exception) + Len(msr.lists.Detection)
                             + Len(msr.lists.Sequence)
    BY <2>1, <2>2
  <2>4. HeadLength * k \in Nat
    BY HeadAssumption
  <2> QED BY <2>3, <2>4 DEF ExtraLength
<1>5. MinRecLen \in Nat
  BY DEF MinRecLen
<1>6. length \in Nat /\ length >= MinRecLen
  BY <1>3, <1>4, <1>5
<1> HIDE DEF header, refused, rate, length
<1>7. ~refused /\ header.headerlen = length
  BY <1>1, <1>2 DEF header
<1>8. msr.reclen \in MinRecLen..MaxRecLen /\ ~(msr.reclen < length)
  BY <1>7 DEF refused
<1>9. length <= msr.reclen
  BY <1>3, <1>6, <1>8
<1> QED BY <1>6, <1>7, <1>8, <1>9 DEF HeaderWell3, header

-----------------------------------------------------------------------------
(* Whole parts of a number.                                                *)
LEMMA FullQuotient ==
  ASSUME NEW B \in Nat \ {0}, NEW a \in Nat
  PROVE  a \div B \in Nat /\ (a \div B) * B <= a /\ (a >= B => a \div B >= 1)
<1>1. PICK d \in Nat, r \in Nat : d = a \div B /\ r = a % B /\ r < B /\ a = B * d + r
  OBVIOUS
<1>2. B * d = d * B /\ B * d \in Nat
  OBVIOUS
<1>3. d = 0 => B * d = 0
  OBVIOUS
<1> QED BY <1>1, <1>2, <1>3

LEMMA RemainderLess ==
  ASSUME NEW B \in Nat \ {0}, NEW a \in Nat
  PROVE  a % B \in Nat /\ a % B <= a
<1>1. PICK d \in Nat, r \in Nat : d = a \div B /\ r = a % B /\ a = B * d + r
  OBVIOUS
<1>2. B * d \in Nat
  OBVIOUS
<1> QED BY <1>1, <1>2

(* The samples that a record holds.                                        *)
LEMMA EncodedIs ==
  ASSUME NEW packings \in {Steim1, Steim2}, NEW samples \in Seq(Int), samples # <<>>, NEW m \in Nat \ {0},
         ~EncodeSteim(packings, samples, 0, m).error
  PROVE  LET e == EncodeSteim(packings, samples, 0, m)
         IN  e.samples \in Nat /\ e.frames \in Nat /\ e.frames <= m
<1> DEFINE diffs == Differences(samples, 0)
           room == Room(m)
           c == Coded(packings, diffs, room)
           e == EncodeSteim(packings, samples, 0, m)
           record == [error |-> FALSE, x0 |-> samples[1], words |-> c.words, samples |-> c.at - 1,
                      xn |-> IF c.words # <<>> THEN samples[c.at - 1] ELSE 0, frames |-> FramesUsed(c.words)]
<1>1. diffs \in Seq(Int)
  <2>1. PICK n \in Nat : n = Len(samples) /\ DOMAIN samples = 1..n /\ \A i \in 1..n : samples[i] \in Int
    OBVIOUS
  <2>2. \A i \in 1..n : (IF i = 1 THEN 0 ELSE samples[i] - samples[i - 1]) \in Int
    <3> TAKE i \in 1..n
    <3>1. i # 1 => i - 1 \in 1..n
      OBVIOUS
    <3> QED BY <2>1, <3>1
  <2>3. diffs = [i \in 1..n |-> IF i = 1 THEN 0 ELSE samples[i] - samples[i - 1]]
    BY <2>1 DEF Differences
  <2> HIDE DEF diffs
  <2> QED BY <2>2, <2>3
<1>2. PICK B \in Nat : B = WordsPerFrame - 1 /\ B > 2
  BY FrameAssumption
<1>3. room \in Nat
  <2>1. PICK k \in Nat : k = m - 1 /\ m = k + 1
    <3>1. m - 1 \in Nat /\ m = (m - 1) + 1
      OBVIOUS
    <3> QED BY <3>1
  <2>2. PICK l \in Nat : l = k * B /\ m * B = l + B
    BY <2>1
  <2>3. room = m * B - 2
    BY <1>2 DEF Room
  <2> HIDE DEF room
  <2>4. PICK p : p = m * B
    OBVIOUS
  <2>5. room = p - 2 /\ p = l + B
    BY <2>2, <2>3, <2>4, Zenon
  <2> QED BY <1>2, <2>5
<1> HIDE DEF diffs, room
<1>4. c.words \in Seq(Word) /\ c.at \in 1..(Len(diffs) + 1)
  BY <1>1, <1>3, CodedIs DEF CodedWell, CodedState
<1> HIDE DEF c
<1>5. e = IF c.error THEN [error |-> TRUE] ELSE record
  BY Zenon DEF EncodeSteim, c, room, diffs
<1>6. e = record
  <2>1. [error |-> TRUE].error
    OBVIOUS
  <2>2. ~e.error
    OBVIOUS
  <2> HIDE DEF e, record
  <2> QED BY <1>5, <2>1, <2>2, Zenon
<1>7. e.samples = c.at - 1 /\ e.frames = FramesUsed(c.words)
  BY <1>6
<1> HIDE DEF e
<1>8. e.samples \in Nat
  <2>1. PICK n \in Nat : n = Len(diffs)
    BY <1>1
  <2> QED BY <1>4, <1>7, <2>1
<1>9. e.frames \in Nat
  <2>1. PICK l \in Nat : l = Len(c.words)
    BY <1>4
  <2>2. (l + 1) \div B \in Nat
    <3>1. B \in Nat \ {0} /\ l + 1 \in Nat
      BY <1>2
    <3> QED BY <3>1, FullQuotient
  <2> QED BY <1>2, <1>7, <2>1, <2>2 DEF FramesUsed
<1>10. e.frames <= m
  <2>1. SteimKept(packings, samples, 0, m)
    <3>1. 0 \in Int
      OBVIOUS
    <3> QED BY <3>1, SteimIsKept
  <2>2. ~EncodeSteim(packings, samples, 0, m).error
    OBVIOUS
  <2> QED BY <2>1, <2>2, Zenon DEF SteimKept, e
<1> QED BY <1>8, <1>9, <1>10 DEF e

LEMMA ProductGrows ==
  ASSUME NEW B \in Nat, NEW a \in Nat, NEW b \in Nat, a <= b
  PROVE  a * B \in Nat /\ a * B <= b * B
<1>1. PICK e \in Nat : b = a + e
  <2>1. b - a \in Nat /\ b = a + (b - a)
    OBVIOUS
  <2> QED BY <2>1
<1>2. b * B = a * B + e * B /\ a * B \in Nat /\ e * B \in Nat
  BY <1>1
<1> QED BY <1>2

LEMMA PackDataIs ==
  ASSUME NEW samples \in Seq(Int), samples # <<>>, NEW room \in Int, NEW type, NEW encoding,
         ~IsSteim(encoding) => room \in Nat, ~PackData(samples, room, type, encoding).error
  PROVE  LET p == PackData(samples, room, type, encoding)
         IN  p.n \in Nat /\ p.bytes \in Nat /\ p.bytes <= room
<1> DEFINE p == PackData(samples, room, type, encoding)
           bytes == SampleBytes(encoding)
           n == Least2(Len(samples), room \div bytes)
           code == IF encoding = "int16" THEN EncodeInt16(samples, n) ELSE EncodeWhole(samples, n)
           steim == EncodeSteim(Steims[encoding], samples, 0, room \div FrameSize)
<1>1. p = IF type \notin Types(encoding) THEN Refuse
          ELSE IF IsSteim(encoding)
          THEN IF room < FrameSize THEN Refuse
               ELSE IF steim.error THEN Refuse
               ELSE [error |-> FALSE, n |-> steim.samples, bytes |-> steim.frames * FrameSize, code |-> steim]
          ELSE IF encoding # "text" /\ room < bytes THEN Refuse
          ELSE [error |-> FALSE, n |-> n, bytes |-> n * bytes, code |-> code]
  BY Zenon DEF PackData
<1>2. Refuse.error /\ ~p.error
  BY DEF Refuse
<1> HIDE DEF p, code, steim
<1>3. FrameSize \in Nat \ {0}
  BY FrameAssumption DEF FrameSize
<1>4. CASE IsSteim(encoding)
  <2>1. /\ ~(room < FrameSize) /\ ~steim.error
        /\ p = [error |-> FALSE, n |-> steim.samples, bytes |-> steim.frames * FrameSize, code |-> steim]
    BY <1>1, <1>2, <1>4, Zenon
  <2>2. room \in Nat /\ room >= FrameSize
    BY <1>3, <2>1
  <2>3. PICK m \in Nat \ {0} : m = room \div FrameSize /\ m * FrameSize <= room
    <3>1. room \div FrameSize \in Nat /\ (room \div FrameSize) * FrameSize <= room /\ room \div FrameSize >= 1
      BY <1>3, <2>2, FullQuotient
    <3> QED BY <3>1
  <2>4. Steims[encoding] \in {Steim1, Steim2}
    BY <1>4 DEF IsSteim, Steims
  <2>5. steim.samples \in Nat /\ steim.frames \in Nat /\ steim.frames <= m
    <3>1. steim = EncodeSteim(Steims[encoding], samples, 0, m)
      BY <2>3 DEF steim
    <3>2. ~EncodeSteim(Steims[encoding], samples, 0, m).error
      BY <2>1, <3>1
    <3> QED BY <2>4, <3>1, <3>2, EncodedIs
  <2>6. PICK f \in Nat : f = steim.frames * FrameSize /\ f <= m * FrameSize
    <3>1. FrameSize \in Nat /\ m \in Nat
      BY <1>3
    <3>2. steim.frames * FrameSize \in Nat /\ steim.frames * FrameSize <= m * FrameSize
      BY <2>5, <3>1, ProductGrows
    <3> QED BY <3>2
  <2>7. f <= room
    <3>1. PICK g \in Nat : g = m * FrameSize
      BY <1>3
    <3> QED BY <2>2, <2>3, <2>6, <3>1
  <2>8. p.n = steim.samples /\ p.bytes = f
    BY <2>1, <2>6
  <2> QED BY <2>5, <2>7, <2>8 DEF p
<1>5. CASE ~IsSteim(encoding)
  <2>1. type \in Types(encoding) /\ p = [error |-> FALSE, n |-> n, bytes |-> n * bytes, code |-> code]
    BY <1>1, <1>2, <1>5, Zenon
  <2>2. bytes \in {1, 2, 4, 8}
    <3>1. encoding \in {"text", "int16", "int32", "float32", "float64"}
      <4>1. type \in Types(encoding)
        BY <2>1
      <4>2. encoding \notin {"steim1", "steim2"}
        BY <1>5 DEF IsSteim, Steims
      <4> QED BY <4>1, <4>2 DEF Types
    <3> QED BY <3>1 DEF SampleBytes
  <2> HIDE DEF bytes
  <2>3. room \in Nat
    BY <1>5
  <2>4. PICK k \in Nat : k = room \div bytes /\ k * bytes <= room
    <3>1. bytes \in Nat \ {0}
      BY <2>2
    <3>2. room \div bytes \in Nat /\ (room \div bytes) * bytes <= room
      BY <2>3, <3>1, FullQuotient
    <3> QED BY <3>2
  <2>5. n \in Nat /\ n <= k
    <3>1. PICK l \in Nat : l = Len(samples)
      OBVIOUS
    <3> QED BY <2>4, <3>1 DEF Least2
  <2> HIDE DEF n
  <2>6. n * bytes \in Nat /\ n * bytes <= k * bytes
    <3>1. bytes \in Nat
      BY <2>2
    <3> QED BY <2>4, <2>5, <3>1, ProductGrows
  <2>7. PICK b \in Nat, g \in Nat : b = n * bytes /\ g = k * bytes
    <3>1. bytes \in Nat
      BY <2>2
    <3>2. k * bytes \in Nat
      BY <3>1
    <3> QED BY <2>6, <3>2
  <2>8. b <= room
    BY <2>3, <2>4, <2>6, <2>7
  <2>9. p.n = n /\ p.bytes = b
    BY <2>1, <2>7
  <2> QED BY <2>5, <2>8, <2>9 DEF p
<1> QED BY <1>4, <1>5

-----------------------------------------------------------------------------
(* Records: the fields of two.                                             *)
LEMMA JoinedIs ==
  ASSUME NEW f, NEW g
  PROVE  /\ DOMAIN Joined(f, g) = DOMAIN f \cup DOMAIN g
         /\ \A x \in DOMAIN f : Joined(f, g)[x] = f[x]
BY DEF Joined

LEMMA JoinedElse ==
  ASSUME NEW f, NEW g, NEW x, x \in DOMAIN g, x \notin DOMAIN f
  PROVE  x \in DOMAIN Joined(f, g) /\ Joined(f, g)[x] = g[x]
BY DEF Joined

LEMMA Record2Is ==
  ASSUME NEW msr, msr.reclen \in PowersOfTwo, NEW header, HeaderWell2(msr, header), NEW offset, NEW done, NEW p
  PROVE  Parseable(Record(msr, header, 2, offset, done, p))
<1> DEFINE raw == [version |-> 2, dataoffset |-> offset, code |-> p.code, bytes |-> p.bytes,
                   encoding |-> IF msr.samples = <<>> THEN "text" ELSE msr.encoding,
                   numsamples |-> IF 2 = 2 THEN p.n % Pow2(16) ELSE p.n,
                   datalength |-> p.bytes % Pow2(16), sidlen |-> msr.sidlen,
                   len |-> IF 2 = 2 THEN msr.reclen ELSE offset + (p.bytes % Pow2(16))]
           time == IF 2 = 2 THEN [fsec |-> StartOf(msr, done) \div Fsec] ELSE [start |-> StartOf(msr, done)]
           rest == Joined(time, header)
           r == Record(msr, header, 2, offset, done, p)
<1>1. r = Joined(raw, rest)
  BY Zenon DEF Record
<1>2. DOMAIN raw = {"version", "dataoffset", "code", "bytes", "encoding", "numsamples", "datalength", "sidlen", "len"}
      /\ raw["version"] = 2 /\ raw["len"] = msr.reclen
  OBVIOUS
<1>3. DOMAIN time = {"fsec"}
  OBVIOUS
<1> HIDE DEF raw, time
<1>4. {"first", "reclen", "chain"} \subseteq DOMAIN header
  BY DEF HeaderWell2
<1>5. \A x \in {"first", "reclen", "chain"} : x \in DOMAIN rest /\ rest[x] = header[x]
  <2> TAKE x \in {"first", "reclen", "chain"}
  <2>1. x \in DOMAIN header /\ x \notin DOMAIN time
    BY <1>3, <1>4
  <2>2. x \in DOMAIN Joined(time, header) /\ Joined(time, header)[x] = header[x]
    BY <2>1, JoinedElse
  <2> QED BY <2>2
<1> HIDE DEF rest, r
<1>6. \A x \in {"first", "reclen", "chain"} : x \in DOMAIN r /\ r[x] = header[x]
  <2> TAKE x \in {"first", "reclen", "chain"}
  <2>1. x \in DOMAIN rest /\ x \notin DOMAIN raw /\ rest[x] = header[x]
    BY <1>2, <1>5
  <2>2. x \in DOMAIN Joined(raw, rest) /\ Joined(raw, rest)[x] = rest[x]
    BY <2>1, JoinedElse
  <2> QED BY <1>1, <2>1, <2>2
<1>7. \A x \in {"version", "len"} : x \in DOMAIN r /\ r[x] = raw[x]
  <2> TAKE x \in {"version", "len"}
  <2>1. x \in DOMAIN raw
    BY <1>2
  <2> QED BY <1>1, <2>1, JoinedIs
<1>8. /\ r.version = 2 /\ r.len = msr.reclen /\ r.first = header.first /\ r.reclen = header.reclen
      /\ r.chain = header.chain /\ {"version", "len", "first", "reclen", "chain"} \subseteq DOMAIN r
  BY <1>2, <1>6, <1>7
<1>9. r.len \in PowersOfTwo /\ r.reclen = r.len /\ r.first = 48 /\ ChainWell(r.chain)
  BY <1>8 DEF HeaderWell2
<1>10. r.len \in MinRecLen..MaxRecLen
  <2>1. MinRecLen = 40 /\ MaxRecLen \in Nat
    BY DEF MinRecLen, MaxRecLen
  <2> QED BY <1>9, <2>1, LengthIs
<1> QED BY <1>8, <1>9, <1>10, Zenon DEF Parseable, ChainWell, r

LEMMA Record3Is ==
  ASSUME NEW msr, NEW header, HeaderWell3(msr, header), msr.reclen \in Int, NEW done, NEW p,
         p.bytes \in Nat, p.bytes <= msr.reclen - header.headerlen
  PROVE  Parseable(Record(msr, header, 3, header.headerlen, done, p))
<1> DEFINE offset == header.headerlen
           raw == [version |-> 3, dataoffset |-> offset, code |-> p.code, bytes |-> p.bytes,
                   encoding |-> IF msr.samples = <<>> THEN "text" ELSE msr.encoding,
                   numsamples |-> IF 3 = 2 THEN p.n % Pow2(16) ELSE p.n,
                   datalength |-> p.bytes % Pow2(16), sidlen |-> msr.sidlen,
                   len |-> IF 3 = 2 THEN msr.reclen ELSE offset + (p.bytes % Pow2(16))]
           time == IF 3 = 2 THEN [fsec |-> StartOf(msr, done) \div Fsec] ELSE [start |-> StartOf(msr, done)]
           rest == Joined(time, header)
           r == Record(msr, header, 3, header.headerlen, done, p)
<1>1. r = Joined(raw, rest)
  BY Zenon DEF Record
<1> HIDE DEF rest, r
<1>2. /\ {"version", "dataoffset", "datalength", "len"} \subseteq DOMAIN raw
      /\ raw["version"] = 3 /\ raw["dataoffset"] = header.headerlen /\ raw["datalength"] = p.bytes % Pow2(16)
      /\ raw["len"] = header.headerlen + (p.bytes % Pow2(16))
  OBVIOUS
<1> HIDE DEF raw
<1>3. \A x \in {"version", "dataoffset", "datalength", "len"} : r[x] = raw[x]
  <2> TAKE x \in {"version", "dataoffset", "datalength", "len"}
  <2>1. x \in DOMAIN raw
    BY <1>2
  <2> QED BY <1>1, <2>1, JoinedIs
<1>4. PICK d \in Nat : d = p.bytes % Pow2(16) /\ d <= p.bytes
  <2>1. PICK w \in Nat \ {0} : w = Pow2(16)
    BY Powers
  <2>2. p.bytes % w \in Nat /\ p.bytes % w <= p.bytes
    BY RemainderLess
  <2> QED BY <2>1, <2>2
<1>5. r.version = 3 /\ r.dataoffset = header.headerlen /\ r.datalength = d /\ r.len = header.headerlen + d
  BY <1>2, <1>3, <1>4
<1>6. /\ header.headerlen \in Nat /\ header.headerlen >= MinRecLen /\ header.headerlen <= msr.reclen
      /\ msr.reclen \in MinRecLen..MaxRecLen
  BY DEF HeaderWell3
<1>7. r.len \in MinRecLen..MaxRecLen
  <2>1. MinRecLen \in Nat /\ MaxRecLen \in Nat
    BY DEF MinRecLen, MaxRecLen
  <2> QED BY <1>4, <1>5, <1>6, <2>1
<1> QED BY <1>5, <1>6, <1>7 DEF Parseable, r

-----------------------------------------------------------------------------
(* The loop that packs one record after another: it exists, as fewer       *)
(* samples are left each time, and all records are from the same set.      *)
DataFrom(msr, room, done) ==
  PackData(SubSeq(msr.samples, done + 1, Len(msr.samples)), room, msr.type, msr.encoding)

LEMMA PackSamplesIs ==
  ASSUME NEW msr, Len(msr.samples) \in Nat \ {0}, NEW header, NEW version, NEW offset, NEW flush,
         NEW R, \A done \in 0..(Len(msr.samples) - 1) :
           ~DataFrom(msr, msr.reclen - offset, done).error =>
             /\ DataFrom(msr, msr.reclen - offset, done).n \in Nat
             /\ Record(msr, header, version, offset, done, DataFrom(msr, msr.reclen - offset, done)) \in R
  PROVE  PackSamples(msr, header, version, offset, flush).recs \in Seq(R)
<1> DEFINE total == Len(msr.samples)
           room == msr.reclen - offset
           most == IF IsSteim(msr.encoding)
                   THEN (room \div FrameSize) * (WordsPerFrame - 1) * Steims[msr.encoding][1].n
                   ELSE room \div SampleSize(msr.type)
           p(done) == DataFrom(msr, room, done)
           rec(done) == Record(msr, header, version, offset, done, p(done))
           More(done) == total - done > most \/ flush
           S == 0..(total - 1)
           V == {PackResult(e, d, q) : e \in BOOLEAN, d \in BOOLEAN, q \in Seq(R)}
           Before(first, rest) == PackResult(rest.error, rest.endless, <<first>> \o rest.recs)
           Body(f) == [done \in S |->
             IF ~More(done) THEN PackResult(FALSE, FALSE, <<>>)
             ELSE IF p(done).error THEN PackResult(TRUE, FALSE, <<>>)
             ELSE IF p(done).n = 0 THEN PackResult(FALSE, TRUE, <<rec(done)>>)
             ELSE IF done + p(done).n >= total THEN PackResult(FALSE, FALSE, <<rec(done)>>)
             ELSE Before(rec(done), f[done + p(done).n])]
           packs == CHOOSE f : f = Body(f)
           goes(done) == More(done) /\ ~p(done).error /\ p(done).n # 0 /\ ~(done + p(done).n >= total)
           leaf == {done \in S : ~goes(done)}
           rank == [done \in S |-> total - done]
           parent == [done \in S |-> IF done \in leaf THEN done ELSE done + p(done).n]
           base == [done \in S |->
             IF ~More(done) THEN PackResult(FALSE, FALSE, <<>>)
             ELSE IF p(done).error THEN PackResult(TRUE, FALSE, <<>>)
             ELSE IF p(done).n = 0 THEN PackResult(FALSE, TRUE, <<rec(done)>>)
             ELSE IF done + p(done).n >= total THEN PackResult(FALSE, FALSE, <<rec(done)>>)
             ELSE PackResult(TRUE, FALSE, <<>>)]
           step == [done \in S |-> [v \in V |-> IF done \in leaf THEN v ELSE Before(rec(done), v)]]
<1>1. PackSamples(msr, header, version, offset, flush)
        = IF SampleSize(msr.type) = 0 THEN PackResult(TRUE, FALSE, <<>>) ELSE packs[0]
  BY Zenon DEF PackSamples, DataFrom
<1>0. total \in Nat \ {0} /\ \A done \in S : ~p(done).error => p(done).n \in Nat /\ rec(done) \in R
  OBVIOUS
<1> HIDE DEF most, room, total
<1>2. \A done \in S : ~p(done).error => p(done).n \in Nat /\ rec(done) \in R
  BY <1>0
<1> HIDE DEF p, rec, More
<1>3. ASSUME NEW e \in BOOLEAN, NEW d \in BOOLEAN, NEW q \in Seq(R) PROVE PackResult(e, d, q) \in V
  OBVIOUS
<1>4. ASSUME NEW v \in V PROVE v.error \in BOOLEAN /\ v.endless \in BOOLEAN /\ v.recs \in Seq(R)
  BY DEF PackResult
<1> HIDE DEF V
<1>5. PackResult(FALSE, FALSE, <<>>) \in V /\ PackResult(TRUE, FALSE, <<>>) \in V
  <2>1. <<>> \in Seq(R) /\ TRUE \in BOOLEAN /\ FALSE \in BOOLEAN
    OBVIOUS
  <2> QED BY <1>3, <2>1
<1>6. \A r \in R : PackResult(FALSE, TRUE, <<r>>) \in V /\ PackResult(FALSE, FALSE, <<r>>) \in V
  <2> TAKE r \in R
  <2>1. <<r>> \in Seq(R) /\ TRUE \in BOOLEAN /\ FALSE \in BOOLEAN
    OBVIOUS
  <2> QED BY <1>3, <2>1
<1>7. \A r \in R, v \in V : Before(r, v) \in V
  <2> TAKE r \in R, v \in V
  <2>1. v.error \in BOOLEAN /\ v.endless \in BOOLEAN /\ v.recs \in Seq(R)
    BY <1>4
  <2>2. <<r>> \o v.recs \in Seq(R)
    BY <2>1
  <2> QED BY <1>3, <2>1, <2>2
<1> HIDE DEF Before
<1>8. ASSUME NEW done \in S, goes(done)
      PROVE  done + p(done).n \in S /\ done + p(done).n > done /\ rec(done) \in R
  BY <1>0, <1>2, <1>8
<1>9. rank \in [S -> Nat]
  BY <1>0
<1>10. \A done \in S : done \in leaf <=> ~goes(done)
  OBVIOUS
<1> HIDE DEF leaf
<1>11. parent \in [S -> S]
  <2>1. \A done \in S : (IF done \in leaf THEN done ELSE done + p(done).n) \in S
    BY <1>8, <1>10
  <2> HIDE DEF S
  <2> QED BY <2>1, Zenon
<1>12. base \in [S -> V]
  <2>1. ASSUME NEW done \in S
        PROVE  (IF ~More(done) THEN PackResult(FALSE, FALSE, <<>>)
                ELSE IF p(done).error THEN PackResult(TRUE, FALSE, <<>>)
                ELSE IF p(done).n = 0 THEN PackResult(FALSE, TRUE, <<rec(done)>>)
                ELSE IF done + p(done).n >= total THEN PackResult(FALSE, FALSE, <<rec(done)>>)
                ELSE PackResult(TRUE, FALSE, <<>>)) \in V
    <3>1. ~p(done).error => rec(done) \in R
      BY <1>2
    <3> QED BY <1>5, <1>6, <3>1, Zenon
  <2> HIDE DEF S
  <2> QED BY <2>1, Zenon
<1>13. step \in [S -> [V -> V]]
  <2>1. \A done \in S : \A v \in V : (IF done \in leaf THEN v ELSE Before(rec(done), v)) \in V
    BY <1>7, <1>8, <1>10, Zenon
  <2> HIDE DEF S
  <2> QED BY <2>1, Zenon
<1>14. \A done \in S \ leaf : rank[parent[done]] < rank[done]
  <2> TAKE done \in S \ leaf
  <2>1. done \in S /\ parent[done] = done + p(done).n
    OBVIOUS
  <2>2. done + p(done).n \in S /\ done + p(done).n > done
    BY <1>8, <1>10
  <2>3. rank[done] = total - done /\ rank[parent[done]] = total - parent[done]
    <3> HIDE DEF parent
    <3> QED BY <2>1, <2>2
  <2> HIDE DEF rank, parent
  <2>4. PICK k \in S : k = done + p(done).n
    BY <2>2
  <2> QED BY <1>0, <2>1, <2>2, <2>3, <2>4 DEF S
<1>15. \A done \in S :
         /\ base[done] = IF ~More(done) THEN PackResult(FALSE, FALSE, <<>>)
                         ELSE IF p(done).error THEN PackResult(TRUE, FALSE, <<>>)
                         ELSE IF p(done).n = 0 THEN PackResult(FALSE, TRUE, <<rec(done)>>)
                         ELSE IF done + p(done).n >= total THEN PackResult(FALSE, FALSE, <<rec(done)>>)
                         ELSE PackResult(TRUE, FALSE, <<>>)
         /\ done \notin leaf => parent[done] = done + p(done).n
         /\ \A v \in V : step[done][v] = IF done \in leaf THEN v ELSE Before(rec(done), v)
  <2> HIDE DEF S
  <2> QED BY Zenon
<1> HIDE DEF rank, parent, base, step, S
<1>16. PICK f \in [S -> V] : \A done \in S : Follows(f, done, parent, leaf, base, step)
  BY <1>9, <1>11, <1>12, <1>13, <1>14, Recursion
<1>17. ASSUME NEW done \in S
       PROVE  f[done] = IF ~More(done) THEN PackResult(FALSE, FALSE, <<>>)
                        ELSE IF p(done).error THEN PackResult(TRUE, FALSE, <<>>)
                        ELSE IF p(done).n = 0 THEN PackResult(FALSE, TRUE, <<rec(done)>>)
                        ELSE IF done + p(done).n >= total THEN PackResult(FALSE, FALSE, <<rec(done)>>)
                        ELSE Before(rec(done), f[done + p(done).n])
  <2>1. f[done] = IF done \in leaf THEN base[done] ELSE step[done][f[parent[done]]]
    BY <1>16, Zenon DEF Follows
  <2>2. CASE done \in leaf
    <3>1. f[done] = base[done] /\ ~goes(done)
      BY <1>10, <2>1, <2>2, Zenon
    <3>2. base[done] = IF ~More(done) THEN PackResult(FALSE, FALSE, <<>>)
                       ELSE IF p(done).error THEN PackResult(TRUE, FALSE, <<>>)
                       ELSE IF p(done).n = 0 THEN PackResult(FALSE, TRUE, <<rec(done)>>)
                       ELSE IF done + p(done).n >= total THEN PackResult(FALSE, FALSE, <<rec(done)>>)
                       ELSE PackResult(TRUE, FALSE, <<>>)
      BY <1>15, Zenon
    <3> QED BY <3>1, <3>2, Zenon
  <2>3. CASE done \notin leaf
    <3>1. goes(done) /\ parent[done] = done + p(done).n /\ parent[done] \in S
      BY <1>10, <1>11, <1>15, <2>3, Zenon
    <3>2. f[parent[done]] \in V
      BY <1>16, <3>1
    <3>3. f[done] = Before(rec(done), f[done + p(done).n])
      BY <1>15, <2>1, <2>3, <3>1, <3>2, Zenon
    <3> QED BY <3>1, <3>3, Zenon
  <2> QED BY <2>2, <2>3
<1>18. f = Body(f)
  <2>1. f = [done \in S |-> f[done]]
    BY <1>16
  <2> HIDE DEF p, rec, More, Before
  <2> QED BY <1>17, <2>1, Zenon
<1>19. packs = Body(packs)
  <2> HIDE DEF Body
  <2> QED BY <1>18
<1>20. \A done \in S :
         packs[done] = IF ~More(done) THEN PackResult(FALSE, FALSE, <<>>)
                       ELSE IF p(done).error THEN PackResult(TRUE, FALSE, <<>>)
                       ELSE IF p(done).n = 0 THEN PackResult(FALSE, TRUE, <<rec(done)>>)
                       ELSE IF done + p(done).n >= total THEN PackResult(FALSE, FALSE, <<rec(done)>>)
                       ELSE Before(rec(done), packs[done + p(done).n])
  <2> HIDE DEF packs
  <2>1. \A done \in S :
         Body(packs)[done] = IF ~More(done) THEN PackResult(FALSE, FALSE, <<>>)
                       ELSE IF p(done).error THEN PackResult(TRUE, FALSE, <<>>)
                       ELSE IF p(done).n = 0 THEN PackResult(FALSE, TRUE, <<rec(done)>>)
                       ELSE IF done + p(done).n >= total THEN PackResult(FALSE, FALSE, <<rec(done)>>)
                       ELSE Before(rec(done), packs[done + p(done).n])
    BY Zenon
  <2> HIDE DEF Body
  <2> QED BY <1>19, <2>1, Zenon
<1> HIDE DEF packs, Body
<1> DEFINE T == {k \in Nat : \A done \in S : total - done = k => packs[done] \in V}
<1>21. ASSUME NEW k \in Nat, \A l \in Nat : l < k => l \in T PROVE k \in T
  <2> SUFFICES ASSUME NEW done \in S, total - done = k PROVE packs[done] \in V
    OBVIOUS
  <2> HIDE DEF T
  <2>1. CASE goes(done)
    <3> DEFINE next == done + p(done).n
    <3>1. next \in S /\ next > done /\ rec(done) \in R
      BY <1>8, <2>1 DEF S
    <3>2. packs[done] = Before(rec(done), packs[next])
      BY <1>20, <2>1, Zenon
    <3> HIDE DEF next
    <3>3. total - next \in Nat /\ total - next < k
      BY <1>0, <3>1 DEF S
    <3>4. total - next \in T
      BY <1>21, <3>3
    <3>5. packs[next] \in V
      BY <3>1, <3>4 DEF T
    <3> QED BY <1>7, <3>1, <3>2, <3>5
  <2>2. CASE ~goes(done)
    <3>1. ~p(done).error => rec(done) \in R
      BY <1>2 DEF S
    <3> QED BY <1>5, <1>6, <1>20, <2>2, <3>1, Zenon
  <2> QED BY <2>1, <2>2
<1> HIDE DEF T
<1>22. \A k \in Nat : k \in T
  <2>1. T \in SUBSET Nat
    BY DEF T
  <2> QED BY <1>21, <2>1, StrongInduction
<1>23. packs[0] \in V
  <2>1. 0 \in S /\ total - 0 = total /\ total \in T
    BY <1>0, <1>22 DEF S
  <2> QED BY <2>1 DEF T
<1>24. PackSamples(msr, header, version, offset, flush) \in V
  BY <1>1, <1>5, <1>23, Zenon
<1> QED BY <1>4, <1>24

-----------------------------------------------------------------------------
(* The records of both versions.                                           *)
LEMMA DataIs ==
  ASSUME NEW msr, msr.samples \in Seq(Int), NEW room \in Int, ~IsSteim(msr.encoding) => room \in Nat,
         NEW done \in 0..(Len(msr.samples) - 1), ~DataFrom(msr, room, done).error
  PROVE  LET p == DataFrom(msr, room, done) IN p.n \in Nat /\ p.bytes \in Nat /\ p.bytes <= room
<1> DEFINE q == SubSeq(msr.samples, done + 1, Len(msr.samples))
<1>1. q \in Seq(Int) /\ q # <<>>
  <2>1. Len(q) >= 1 /\ q \in Seq(Int)
    OBVIOUS
  <2> HIDE DEF q
  <2> QED BY <2>1
<1> HIDE DEF q
<1>2. DataFrom(msr, room, done) = PackData(q, room, msr.type, msr.encoding)
  BY Zenon DEF DataFrom, q
<1>3. ~PackData(q, room, msr.type, msr.encoding).error
  BY <1>2
<1> QED BY <1>1, <1>2, <1>3, PackDataIs

LEMMA Packed2Is ==
  ASSUME NEW E, NEW msr, Packable(msr, E), NEW flush
  PROVE  \E R : PackMseed2(msr, flush).recs \in Seq(R) /\ \A r \in R : Parseable(r)
<1> DEFINE header == PackHeader2(msr)
           offset == IF IsSteim(msr.encoding) THEN Frames(header.headerlen) ELSE header.headerlen
           alone == Record(msr, header, 2, 0, 0, NoData)
           rec(done) == Record(msr, header, 2, offset, done, DataFrom(msr, msr.reclen - offset, done))
           R == {alone} \cup {rec(done) : done \in 0..(Len(msr.samples) - 1)}
<1>1. PackMseed2(msr, flush) = IF header.error THEN PackResult(TRUE, FALSE, <<>>)
                               ELSE IF msr.samples = <<>> THEN PackResult(FALSE, FALSE, <<alone>>)
                               ELSE PackSamples(msr, header, 2, offset, flush)
  BY Zenon DEF PackMseed2
<1> HIDE DEF header, offset, alone
<1>2. CASE header.error
  <2>1. PackMseed2(msr, flush).recs = <<>>
    BY <1>1, <1>2 DEF PackResult
  <2>2. <<>> \in Seq({})
    OBVIOUS
  <2> QED BY <2>1, <2>2
<1>3. CASE ~header.error
  <2>1. msr.reclen \in PowersOfTwo /\ HeaderWell2(msr, header)
    BY <1>3, PackHeader2Is DEF header
  <2>2. \A r \in R : Parseable(r)
    <3>1. Parseable(alone)
      BY <2>1, Record2Is DEF alone
    <3>2. \A done \in 0..(Len(msr.samples) - 1) : Parseable(rec(done))
      BY <2>1, Record2Is
    <3> QED BY <3>1, <3>2
  <2>3. msr.samples \in Seq(Int)
    BY DEF Packable
  <2>4. CASE msr.samples = <<>>
    <3>1. PackMseed2(msr, flush).recs = <<alone>>
      BY <1>1, <1>3, <2>4 DEF PackResult
    <3> DEFINE A == {alone}
    <3>2. <<alone>> \in Seq(A) /\ \A r \in A : Parseable(r)
      BY <2>2
    <3> HIDE DEF A
    <3>3. PackMseed2(msr, flush).recs \in Seq(A)
      BY <3>1, <3>2
    <3> QED BY <3>2, <3>3
  <2>5. CASE msr.samples # <<>>
    <3>1. PackMseed2(msr, flush) = PackSamples(msr, header, 2, offset, flush)
      BY <1>1, <1>3, <2>5, Zenon
    <3>2. /\ msr.reclen \in Int /\ header.headerlen \in Nat /\ header.headerlen <= msr.reclen
      BY <2>1 DEF HeaderWell2, Packable
    <3>3. offset \in Nat /\ (~IsSteim(msr.encoding) => offset = header.headerlen)
      <4>1. PICK B \in Nat \ {0} : B = FrameSize
        BY FrameAssumption DEF FrameSize
      <4>2. PICK a \in Nat : a = header.headerlen + B - 1
        BY <3>2
      <4>3. PICK d \in Nat : d = a \div B
        BY FullQuotient
      <4>4. Frames(header.headerlen) = d * B /\ d * B \in Nat
        BY <4>1, <4>2, <4>3 DEF Frames
      <4> QED BY <3>2, <4>4 DEF offset
    <3>4. msr.reclen - offset \in Int /\ (~IsSteim(msr.encoding) => msr.reclen - offset \in Nat)
      BY <3>2, <3>3
    <3>5. \A done \in 0..(Len(msr.samples) - 1) :
            ~DataFrom(msr, msr.reclen - offset, done).error =>
              DataFrom(msr, msr.reclen - offset, done).n \in Nat /\ rec(done) \in R
      <4> SUFFICES ASSUME NEW done \in 0..(Len(msr.samples) - 1), ~DataFrom(msr, msr.reclen - offset, done).error
                   PROVE  DataFrom(msr, msr.reclen - offset, done).n \in Nat
        BY Zenon
      <4> QED BY <2>3, <3>4, DataIs
    <3>6. Len(msr.samples) \in Nat \ {0}
      BY <2>3, <2>5
    <3> HIDE DEF R
    <3>7. PackSamples(msr, header, 2, offset, flush).recs \in Seq(R)
      BY <3>5, <3>6, PackSamplesIs
    <3> QED BY <2>2, <3>1, <3>7
  <2> QED BY <2>4, <2>5
<1> QED BY <1>2, <1>3

LEMMA Packed3Is ==
  ASSUME NEW E, NEW msr, Packable(msr, E), NEW flush
  PROVE  \E R : PackMseed3(msr, flush).recs \in Seq(R) /\ \A r \in R : Parseable(r)
<1> DEFINE header == PackHeader3(msr, msr.reclen)
           offset == header.headerlen
           room == msr.reclen - offset
           alone == Record(msr, header, 3, offset, 0, NoData)
           rec(done) == Record(msr, header, 3, offset, done, DataFrom(msr, room, done))
           R == {rec(done) : done \in {d \in 0..(Len(msr.samples) - 1) : ~DataFrom(msr, room, d).error}}
<1>1. PackMseed3(msr, flush) = IF header.error THEN PackResult(TRUE, FALSE, <<>>)
                               ELSE IF msr.samples = <<>> THEN PackResult(FALSE, FALSE, <<alone>>)
                               ELSE PackSamples(msr, header, 3, offset, flush)
  BY Zenon DEF PackMseed3
<1> HIDE DEF header, alone
<1>2. CASE header.error
  <2>1. PackMseed3(msr, flush).recs = <<>>
    BY <1>1, <1>2 DEF PackResult
  <2>2. <<>> \in Seq({})
    OBVIOUS
  <2> QED BY <2>1, <2>2
<1>3. CASE ~header.error
  <2>1. HeaderWell3(msr, header)
    BY <1>3, PackHeader3Is DEF header
  <2>2. msr.samples \in Seq(Int) /\ msr.reclen \in Int
    BY DEF Packable
  <2>3. offset \in Nat /\ room \in Nat
    BY <2>1, <2>2 DEF HeaderWell3
  <2>4. CASE msr.samples = <<>>
    <3>1. PackMseed3(msr, flush).recs = <<alone>>
      BY <1>1, <1>3, <2>4 DEF PackResult
    <3>2. Parseable(alone)
      <4>1. NoData.bytes = 0 /\ 0 \in Nat /\ 0 <= msr.reclen - header.headerlen
        BY <2>3 DEF NoData
      <4>2. NoData.bytes \in Nat /\ NoData.bytes <= msr.reclen - header.headerlen
        BY <4>1
      <4> QED BY <2>1, <2>2, <4>2, Record3Is DEF alone
    <3> DEFINE A == {alone}
    <3>3. <<alone>> \in Seq(A) /\ \A r \in A : Parseable(r)
      BY <3>2
    <3> HIDE DEF A
    <3>4. PackMseed3(msr, flush).recs \in Seq(A)
      BY <3>1, <3>3
    <3> QED BY <3>3, <3>4
  <2>5. CASE msr.samples # <<>>
    <3>1. PackMseed3(msr, flush) = PackSamples(msr, header, 3, offset, flush)
      BY <1>1, <1>3, <2>5, Zenon
    <3>2. ASSUME NEW done \in 0..(Len(msr.samples) - 1), ~DataFrom(msr, room, done).error
          PROVE  LET p == DataFrom(msr, room, done) IN p.n \in Nat /\ p.bytes \in Nat /\ p.bytes <= room
      <4>1. room \in Int
        BY <2>3
      <4> HIDE DEF room
      <4> QED BY <2>2, <2>3, <3>2, <4>1, DataIs
    <3>3. \A r \in R : Parseable(r)
      <4> SUFFICES ASSUME NEW done \in 0..(Len(msr.samples) - 1), ~DataFrom(msr, room, done).error
                   PROVE  Parseable(rec(done))
        OBVIOUS
      <4> DEFINE p == DataFrom(msr, room, done)
      <4>1. p.bytes \in Nat /\ p.bytes <= msr.reclen - header.headerlen
        BY <3>2
      <4> HIDE DEF p
      <4>2. Parseable(Record(msr, header, 3, header.headerlen, done, p))
        BY <2>1, <2>2, <4>1, Record3Is
      <4> QED BY <4>2 DEF p
    <3>4. \A done \in 0..(Len(msr.samples) - 1) :
            ~DataFrom(msr, room, done).error => DataFrom(msr, room, done).n \in Nat /\ rec(done) \in R
      <4> SUFFICES ASSUME NEW done \in 0..(Len(msr.samples) - 1), ~DataFrom(msr, room, done).error
                   PROVE  DataFrom(msr, room, done).n \in Nat
        BY Zenon
      <4> QED BY <3>2
    <3>5. Len(msr.samples) \in Nat \ {0}
      BY <2>2, <2>5
    <3> HIDE DEF R
    <3>6. PackSamples(msr, header, 3, offset, flush).recs \in Seq(R)
      BY <3>4, <3>5, PackSamplesIs
    <3> QED BY <3>1, <3>3, <3>6
  <2> QED BY <2>4, <2>5
<1> QED BY <1>2, <1>3

(* Every record that is packed, of either version, from any samples and    *)
(* any extra headers, is parsed: a parser that has the first bytes of it   *)
(* asks for more, never for more than is left of it, until it is whole.    *)
THEOREM PackedIsParsed ==
  ASSUME NEW E, NEW msr, Packable(msr, E), NEW version \in {2, 3}, NEW flush \in BOOLEAN
  PROVE  PackedParses(msr, version, flush)
<1> DEFINE packed == Pack(msr, version, flush)
<1>1. PICK R : packed.recs \in Seq(R) /\ \A r \in R : Parseable(r)
  <2>1. CASE version = 2
    <3>1. packed = PackMseed2(msr, flush)
      BY <2>1 DEF Pack
    <3> QED BY <3>1, Packed2Is
  <2>2. CASE version = 3
    <3>1. packed = PackMseed3(msr, flush)
      BY <2>2 DEF Pack
    <3> QED BY <3>1, Packed3Is
  <2> QED BY <2>1, <2>2
<1> HIDE DEF packed
<1>2. \A i \in DOMAIN packed.recs : packed.recs[i] \in R
  BY <1>1
<1>3. \A i \in DOMAIN packed.recs : Parseable(packed.recs[i]) /\ ParseAsks(packed.recs[i])
  BY <1>1, <1>2, ParserAsks
<1> QED BY <1>3, Zenon DEF PackedParses, packed

-----------------------------------------------------------------------------
(* So it is of every call.  Samples and codes first: SamplesDecoded.       *)
THEOREM SamplesAreDecoded == RecordsSpec => []SamplesDecoded
<1>1. Idle => SamplesDecoded
  BY DEF SamplesDecoded, Called
<1>2. ASSUME SamplesDecoded, [CallRecords \/ Return]_call
      PROVE  SamplesDecoded'
  <2>1. CASE Calling("steim", SteimArgs)
    <3>1. PICK x \in SteimArgs : call' = <<"steim", x>>
      BY <2>1 DEF Calling
    <3>2. SteimKept(x[1], x[2], x[3], x[4])
      BY <3>1, SampleArgsAssumption, SteimIsKept
    <3>3. call'[1] # "code" /\ call'[2] = x
      BY <3>1
    <3> QED BY <3>2, <3>3, Zenon DEF SamplesDecoded, Called
  <2>2. CASE Calling("code", CodeArgs)
    <3>1. PICK c \in CodeArgs : call' = <<"code", c>>
      BY <2>2 DEF Calling
    <3>2. c \in 0..(Pow2(16) - 1)
      BY <3>1, SampleArgsAssumption
    <3>3. CodesRead(c)
      BY <3>2, CodesAreRead
    <3>4. call'[1] # "steim" /\ call'[2] = c
      BY <3>1
    <3> QED BY <3>3, <3>4, Zenon DEF SamplesDecoded, Called
  <2>3. CASE Calling("record", RecordArgs)
    <3>1. call'[1] = "record"
      BY <2>3 DEF Calling
    <3> QED BY <3>1 DEF SamplesDecoded, Called
  <2>4. CASE Return
    BY <2>4 DEF Return, Idle, SamplesDecoded, Called
  <2>5. CASE UNCHANGED call
    BY <1>2, <2>5, Zenon DEF SamplesDecoded, Called, Idle
  <2> QED BY <1>2, <2>1, <2>2, <2>3, <2>4, <2>5 DEF CallRecords
<1> QED BY <1>1, <1>2, PTL DEF RecordsSpec

(* And records: RecordsParsed, for any that can be packed.                 *)
THEOREM RecordsAreParsed == RecordsSpec => []RecordsParsed
<1>1. Idle => RecordsParsed
  BY DEF RecordsParsed, Called
<1>2. ASSUME RecordsParsed, [CallRecords \/ Return]_call
      PROVE  RecordsParsed'
  <2>1. CASE Calling("record", RecordArgs)
    <3>1. PICK msr \in RecordArgs : call' = <<"record", msr>>
      BY <2>1 DEF Calling
    <3>2. Packable(msr, UNION {Range(msr.lists[list]) : list \in Lists3})
      BY <3>1, RecordArgsAssumption
    <3>3. \A version \in {2, 3} : PackedParses(msr, version, TRUE)
      BY <3>2, PackedIsParsed
    <3>4. call'[2] = msr
      BY <3>1
    <3> QED BY <3>3, <3>4, Zenon DEF RecordsParsed
  <2>2. CASE Calling("steim", SteimArgs) \/ Calling("code", CodeArgs)
    <3>1. call'[1] # "record"
      BY <2>2 DEF Calling
    <3> QED BY <3>1 DEF RecordsParsed, Called
  <2>3. CASE Return
    BY <2>3 DEF Return, Idle, RecordsParsed, Called
  <2>4. CASE UNCHANGED call
    BY <1>2, <2>4, Zenon DEF RecordsParsed, Called, Idle
  <2> QED BY <1>2, <2>1, <2>2, <2>3, <2>4 DEF CallRecords
<1> QED BY <1>1, <1>2, PTL DEF RecordsSpec

-----------------------------------------------------------------------------
(* Patterns: what a token may be, so that its pattern is read as it.       *)
Chars == Nat \ {0}

WellFormed(token) ==
  /\ token.kind \in {"any", "one", "char", "set", "not", "range"} /\ token.chars \in Seq(Chars)
  /\ token.kind = "char" => Len(token.chars) = 1
  /\ token.kind \in {"set", "not"} =>
       token.chars # <<>> /\ \A k \in 2..Len(token.chars) : token.chars[k] \notin {Close, Dash}
  /\ token.kind \in {"set", "range"} => token.chars[1] # Caret
  /\ token.kind = "range" => /\ Len(token.chars) = 2 /\ token.chars[2] # Close
                             /\ token.chars[1] <= token.chars[2]

LEMMA SignsDiffer ==
  /\ {Star, Query, Open, Close, Caret, Escape, Dash} \subseteq Chars
  /\ Star # Query /\ Star # Open /\ Star # Escape /\ Query # Open /\ Query # Escape /\ Open # Escape
  /\ Close # Dash /\ Close # Caret /\ Dash # Caret
<1>1. /\ Signs[1] = Star /\ Signs[2] = Query /\ Signs[3] = Open /\ Signs[4] = Close /\ Signs[5] = Caret
      /\ Signs[6] = Escape /\ Signs[7] = Dash
  BY DEF Signs
<1>2. \A i \in 1..7 : Signs[i] \in Chars /\ \A k \in 1..7 : Signs[i] = Signs[k] => i = k
  BY GlobAssumption DEF IsInjective, Chars
<1> QED BY <1>1, <1>2

LEMMA PatternIs ==
  ASSUME NEW token, WellFormed(token)
  PROVE  Pattern(token) \in Seq(Chars) /\ Pattern(token) # <<>>
<1>1. token.chars \in Seq(Chars) /\ (token.kind = "range" => Len(token.chars) = 2)
  BY DEF WellFormed
<1>2. CASE token.kind \in {"any", "one"}
  BY <1>2, SignsDiffer DEF Pattern
<1>3. CASE token.kind = "char"
  <2>1. Len(token.chars) = 1
    BY <1>3 DEF WellFormed
  <2> DEFINE e == IF token.chars[1] \in {Star, Query, Open, Escape} THEN <<Escape>> ELSE <<>>
  <2>2. e \in Seq(Chars)
    BY SignsDiffer
  <2>3. Pattern(token) = e \o token.chars
    BY <1>3 DEF Pattern
  <2> HIDE DEF e
  <2> QED BY <1>1, <2>1, <2>2, <2>3, SMTT(30), ZenonT(30)
<1>4. CASE token.kind = "set"
  <2>1. <<Open>> \in Seq(Chars) /\ <<Close>> \in Seq(Chars)
    BY SignsDiffer
  <2>2. Pattern(token) = <<Open>> \o token.chars \o <<Close>>
    BY <1>4 DEF Pattern
  <2> QED BY <1>1, <2>1, <2>2
<1>5. CASE token.kind = "not"
  <2>1. <<Open, Caret>> \in Seq(Chars) /\ <<Close>> \in Seq(Chars)
    BY SignsDiffer
  <2>2. Pattern(token) = <<Open, Caret>> \o token.chars \o <<Close>>
    BY <1>5 DEF Pattern
  <2> QED BY <1>1, <2>1, <2>2
<1>6. CASE token.kind = "range"
  <2>1. token.chars[1] \in Chars /\ token.chars[2] \in Chars
    BY <1>1, <1>6
  <2>2. Pattern(token) = <<Open, token.chars[1], Dash, token.chars[2], Close>>
    BY <1>6 DEF Pattern
  <2> QED BY <2>1, <2>2, SignsDiffer
<1> QED BY <1>2, <1>3, <1>4, <1>5, <1>6 DEF WellFormed

(* The patterns of tokens, one after the other.                            *)
PatternOf(tokens) == FoldLeft(LAMBDA p, t : p \o Pattern(t), <<>>, tokens)

Beginnings(tokens, P) ==
  /\ P \in [0..Len(tokens) -> Seq(Chars)] /\ P[0] = <<>>
  /\ \A m \in 1..Len(tokens) : P[m] = P[m - 1] \o Pattern(tokens[m])

AllFormed(tokens) == \A m \in 1..Len(tokens) : WellFormed(tokens[m])
LEMMA BeginningsAre ==
  ASSUME NEW G, NEW tokens \in Seq(G), AllFormed(tokens)
  PROVE  \E P : Beginnings(tokens, P) /\ PatternOf(tokens) = P[Len(tokens)]
<1> DEFINE n == Len(tokens)
           S == SUBSET (1..n)
           V == Seq(Chars)
           Fold(f) == [s \in S |-> IF s = {} THEN <<>> ELSE f[s \ {Max(s)}] \o Pattern(tokens[Max(s)])]
           fold == CHOOSE f : f = Fold(f)
           step == [i \in 1..n |-> [d \in V |-> d \o Pattern(tokens[i])]]
<1>1. n \in Nat /\ DOMAIN tokens = 1..n /\ \A i \in 1..n : tokens[i] \in G /\ WellFormed(tokens[i])
  BY DEF AllFormed
<1>2. PatternOf(tokens) = fold[1..n]
  BY <1>1, Zenon DEF PatternOf, FoldLeft, MapThenFoldSet
<1> HIDE DEF n
<1>3. \A i \in 1..n : Pattern(tokens[i]) \in Seq(Chars)
  BY <1>1, PatternIs
<1>4. \A d \in V : \A i \in 1..n : d \o Pattern(tokens[i]) \in V
  BY <1>3
<1>5. step \in [1..n -> [V -> V]] /\ \A i \in 1..n : \A d \in V : step[i][d] = d \o Pattern(tokens[i])
  <2> HIDE DEF V
  <2> QED BY <1>4, Zenon
<1> HIDE DEF step
<1>6. PICK f \in [S -> V] : \A s \in S : Folding(f, s, <<>>, step)
  <2>1. <<>> \in V
    OBVIOUS
  <2> HIDE DEF V
  <2> QED BY <1>1, <1>5, <2>1, FoldExists
<1>7. f = Fold(f)
  <2>1. ASSUME NEW s \in S
        PROVE  f[s] = IF s = {} THEN <<>> ELSE f[s \ {Max(s)}] \o Pattern(tokens[Max(s)])
    <3>1. f[s] = IF s = {} THEN <<>> ELSE step[Max(s)][f[s \ {Max(s)}]]
      BY <1>6, Zenon DEF Folding
    <3>2. CASE s = {}
      BY <3>1, <3>2
    <3>3. CASE s # {}
      <4>1. Max(s) \in 1..n /\ s \ {Max(s)} \in S
        BY <1>1, <3>3, GreatestPlace
      <4> HIDE DEF V
      <4> QED BY <1>5, <1>6, <3>1, <3>3, <4>1, Zenon
    <3> QED BY <3>2, <3>3
  <2>2. f = [s \in S |-> f[s]]
    BY <1>6
  <2> QED BY <2>1, <2>2, Zenon
<1>8. fold = Fold(fold)
  <2> HIDE DEF Fold
  <2> QED BY <1>7
<1>9. \A s \in S : fold[s] = IF s = {} THEN <<>> ELSE fold[s \ {Max(s)}] \o Pattern(tokens[Max(s)])
  <2> HIDE DEF fold
  <2>1. \A s \in S : Fold(fold)[s] = IF s = {} THEN <<>> ELSE fold[s \ {Max(s)}] \o Pattern(tokens[Max(s)])
    BY Zenon
  <2> HIDE DEF Fold
  <2> QED BY <1>8, <2>1, Zenon
<1> HIDE DEF fold, Fold
<1> DEFINE P == [m \in 0..n |-> fold[1..m]]
<1>10. P[0] = <<>>
  <2>1. 1..0 = {} /\ {} \in S /\ 0 \in 0..n
    BY <1>1
  <2> QED BY <1>9, <2>1
<1>11. ASSUME NEW m \in 1..n PROVE P[m] = P[m - 1] \o Pattern(tokens[m])
  <2>1. m \in 0..n /\ m - 1 \in 0..n
    BY <1>1
  <2>2. m \in Nat /\ m >= 1 /\ m <= n
    BY <1>1
  <2>3. fold[1..m] = fold[1..(m - 1)] \o Pattern(tokens[m])
    <3>1. n \in Nat /\ m \in 1..n
      BY <1>1
    <3>2. 1..m \in S /\ 1..m # {} /\ Max(1..m) = m /\ (1..m) \ {Max(1..m)} = 1..(m - 1)
      BY <3>1, LastOf, Zenon
    <3> QED BY <1>9, <3>2, Zenon
  <2> QED BY <2>1, <2>3
<1> DEFINE T == {m \in Nat : m <= n => P[m] \in Seq(Chars)}
<1>12. 0 \in T
  <2> HIDE DEF P
  <2>1. P[0] \in Seq(Chars)
    <3>1. <<>> \in Seq(Chars)
      OBVIOUS
    <3> QED BY <1>10, <3>1, Zenon
  <2> QED BY <2>1
<1>13. ASSUME NEW m \in T PROVE m + 1 \in T
  <2> SUFFICES ASSUME m + 1 <= n PROVE P[m + 1] \in Seq(Chars)
    BY <1>13
  <2> HIDE DEF P
  <2>1. m \in Nat /\ m + 1 \in 1..n /\ (m + 1) - 1 = m /\ P[m] \in Seq(Chars)
    BY <1>1, <1>13
  <2>2. Pattern(tokens[m + 1]) \in Seq(Chars)
    BY <1>3, <2>1
  <2>3. P[m + 1] = P[m] \o Pattern(tokens[m + 1])
    BY <1>11, <2>1
  <2> QED BY <2>1, <2>2, <2>3
<1> HIDE DEF T
<1>14. \A m \in Nat : m \in T
  <2>1. T \in SUBSET Nat
    BY DEF T
  <2> QED BY <1>12, <1>13, <2>1, Induction
<1>15. P \in [0..n -> Seq(Chars)]
  <2>1. \A m \in 0..n : P[m] \in Seq(Chars)
    <3> HIDE DEF P
    <3> QED BY <1>1, <1>14 DEF T
  <2>2. P = [m \in 0..n |-> P[m]]
    BY Zenon
  <2> HIDE DEF P
  <2> QED BY <2>1, <2>2, Zenon
<1>16. PatternOf(tokens) = P[n]
  BY <1>1, <1>2
<1> HIDE DEF P
<1>17. Beginnings(tokens, P)
  BY <1>10, <1>11, <1>15 DEF Beginnings, n
<1> QED BY <1>16, <1>17 DEF n

(* They lie at the sums of their lengths.                                  *)
LiesAt(pattern, at, part) ==
  at + Len(part) <= Len(pattern) /\ \A k \in 1..Len(part) : pattern[at + k] = part[k]

Lies(tokens, pattern, B) ==
  /\ pattern \in Seq(Chars)
  /\ B \in [0..Len(tokens) -> Nat] /\ B[0] = 0 /\ B[Len(tokens)] = Len(pattern)
  /\ \A m \in 1..Len(tokens) : /\ B[m] = B[m - 1] + Len(Pattern(tokens[m]))
                               /\ LiesAt(pattern, B[m - 1], Pattern(tokens[m]))

Begins(p, q) == Len(p) <= Len(q) /\ \A k \in 1..Len(p) : q[k] = p[k]

LEMMA PatternsLie ==
  ASSUME NEW G, NEW tokens \in Seq(G), AllFormed(tokens)
  PROVE  \E B : Lies(tokens, PatternOf(tokens), B)
<1>1. PICK P : Beginnings(tokens, P) /\ PatternOf(tokens) = P[Len(tokens)]
  BY BeginningsAre
<1>2. PICK n \in Nat : n = Len(tokens)
  OBVIOUS
<1>3. ASSUME NEW m \in 0..n PROVE P[m] \in Seq(Chars) /\ Len(P[m]) \in Nat
  <2>1. P[m] \in Seq(Chars)
    BY <1>1, <1>2 DEF Beginnings
  <2> QED BY <2>1
<1>4. ASSUME NEW m \in 1..n
      PROVE  /\ m \in 0..n /\ m - 1 \in 0..n /\ Pattern(tokens[m]) \in Seq(Chars)
             /\ P[m] = P[m - 1] \o Pattern(tokens[m])
  <2>1. WellFormed(tokens[m])
    BY <1>2 DEF AllFormed
  <2>2. Pattern(tokens[m]) \in Seq(Chars)
    BY <2>1, PatternIs
  <2>3. m \in 0..n /\ m - 1 \in 0..n
    BY <1>2
  <2> QED BY <1>1, <1>2, <2>2, <2>3 DEF Beginnings
<1>5. ASSUME NEW m \in 1..n
      PROVE  Len(P[m]) = Len(P[m - 1]) + Len(Pattern(tokens[m])) /\ Begins(P[m - 1], P[m])
             /\ LiesAt(P[m], Len(P[m - 1]), Pattern(tokens[m]))
  <2> DEFINE p == P[m - 1]
             q == Pattern(tokens[m])
  <2>1. p \in Seq(Chars) /\ q \in Seq(Chars) /\ P[m] = p \o q
    BY <1>3, <1>4
  <2> HIDE DEF p, q
  <2>2. Len(P[m]) = Len(p) + Len(q) /\ Begins(p, P[m]) /\ LiesAt(P[m], Len(p), q)
    BY <2>1 DEF Begins, LiesAt
  <2> QED BY <2>2 DEF p, q
<1> DEFINE T == {d \in Nat : \A m \in 0..n : m + d <= n => Begins(P[m], P[m + d])}
<1>6. 0 \in T
  BY DEF Begins
<1>7. ASSUME NEW d \in T PROVE d + 1 \in T
  <2> SUFFICES ASSUME NEW m \in 0..n, m + (d + 1) <= n PROVE Begins(P[m], P[m + (d + 1)])
    OBVIOUS
  <2>1. Begins(P[m], P[m + d]) /\ m + (d + 1) \in 1..n /\ (m + (d + 1)) - 1 = m + d /\ m + d \in 0..n
    BY <1>2, <1>7
  <2>2. Begins(P[m + d], P[m + (d + 1)])
    BY <1>5, <2>1
  <2>3. Len(P[m]) \in Nat /\ Len(P[m + d]) \in Nat
    BY <1>3, <2>1
  <2> QED BY <2>1, <2>2, <2>3 DEF Begins
<1> HIDE DEF T
<1>8. \A m \in 0..n : Begins(P[m], P[n])
  <2>1. T \in SUBSET Nat
    BY DEF T
  <2>2. \A d \in Nat : d \in T
    BY <1>6, <1>7, <2>1, Induction
  <2> SUFFICES ASSUME NEW m \in 0..n PROVE Begins(P[m], P[n])
    OBVIOUS
  <2>3. n - m \in Nat /\ m + (n - m) = n /\ m + (n - m) <= n
    OBVIOUS
  <2>4. n - m \in T
    BY <2>2, <2>3
  <2>5. Begins(P[m], P[m + (n - m)])
    BY <2>3, <2>4 DEF T
  <2> QED BY <2>3, <2>5
<1> DEFINE B == [m \in 0..n |-> Len(P[m])]
<1>9. B \in [0..n -> Nat] /\ \A m \in 0..n : B[m] = Len(P[m])
  BY <1>3
<1> HIDE DEF B
<1>10. B[0] = 0
  <2>1. P[0] = <<>> /\ 0 \in 0..n
    BY <1>1 DEF Beginnings
  <2> QED BY <1>9, <2>1
<1>11. P[n] \in Seq(Chars) /\ B[n] = Len(P[n])
  <2>1. n \in 0..n
    OBVIOUS
  <2> QED BY <1>3, <1>9, <2>1
<1>12. ASSUME NEW m \in 1..n
       PROVE  B[m] = B[m - 1] + Len(Pattern(tokens[m])) /\ LiesAt(P[n], B[m - 1], Pattern(tokens[m]))
  <2>1. /\ B[m] = Len(P[m]) /\ B[m - 1] = Len(P[m - 1]) /\ Pattern(tokens[m]) \in Seq(Chars)
        /\ Len(P[m]) \in Nat /\ Len(P[m - 1]) \in Nat
    BY <1>3, <1>4, <1>9
  <2>2. PICK q \in Seq(Chars) : q = Pattern(tokens[m])
    BY <2>1
  <2>3. Len(P[m]) = Len(P[m - 1]) + Len(q) /\ LiesAt(P[m], Len(P[m - 1]), q) /\ Begins(P[m], P[n])
    BY <1>4, <1>5, <1>8, <2>2
  <2>4. PICK l \in Nat, k \in Nat : l = Len(P[m - 1]) /\ k = Len(q)
    BY <2>1
  <2>5. LiesAt(P[n], l, q)
    <3>1. \A i \in 1..k : l + i \in 1..Len(P[m])
      BY <2>1, <2>3, <2>4
    <3> QED BY <1>11, <2>1, <2>3, <2>4, <3>1 DEF Begins, LiesAt
  <2> QED BY <2>1, <2>2, <2>3, <2>4, <2>5
<1> QED BY <1>1, <1>2, <1>9, <1>10, <1>11, <1>12 DEF Lies

-----------------------------------------------------------------------------
(* A set in a pattern: the recursion that goes through it.                 *)
SetBody(pattern, char, set) ==
  [j \in 1..(Len(pattern) + 1) |->
     LET last == SetLast(pattern, j)
         has  == SetHas(pattern, j, char)
     IN  IF Nul \in {CharAt(pattern, j), CharAt(pattern, j + 1), CharAt(pattern, last)} THEN Error
         ELSE IF has \/ CharAt(pattern, last) = Close THEN [error |-> FALSE, has |-> has, at |-> last]
         ELSE set[last]]

IsSet(pattern, char, set) == set = SetBody(pattern, char, set)

SetFails(pattern, j) ==
  Nul \in {CharAt(pattern, j), CharAt(pattern, j + 1), CharAt(pattern, SetLast(pattern, j))}
SetStops(pattern, j, char) == SetHas(pattern, j, char) \/ CharAt(pattern, SetLast(pattern, j)) = Close
SetFound(pattern, j, char) == [error |-> FALSE, has |-> SetHas(pattern, j, char), at |-> SetLast(pattern, j)]

SetRules(pattern, char, set) ==
  \A j \in 1..(Len(pattern) + 1) :
    set[j] = IF SetFails(pattern, j) THEN Error
             ELSE IF SetStops(pattern, j, char) THEN SetFound(pattern, j, char)
             ELSE set[SetLast(pattern, j)]

(* A character is there if it is not Nul.                                  *)
LEMMA CharIs ==
  ASSUME NEW s \in Seq(Nat), NEW i \in Nat \ {0}
  PROVE  /\ CharAt(s, i) \in Nat
         /\ CharAt(s, i) # Nul => i <= Len(s)
         /\ i <= Len(s) => CharAt(s, i) = s[i]
         /\ i > Len(s) => CharAt(s, i) = Nul
BY DEF CharAt, Nul

LEMMA SetGoesOn ==
  ASSUME NEW pattern \in Seq(Nat), NEW j \in 1..(Len(pattern) + 1), ~SetFails(pattern, j)
  PROVE  /\ SetLast(pattern, j) \in 1..(Len(pattern) + 1) /\ SetLast(pattern, j) > j
         /\ SetLast(pattern, j) <= Len(pattern)
<1>1. j \in Nat \ {0} /\ j + 1 \in Nat \ {0} /\ j + 2 \in Nat \ {0} /\ Len(pattern) \in Nat
  OBVIOUS
<1>2. SetLast(pattern, j) \in {j + 1, j + 2}
  BY DEF SetLast
<1>3. CharAt(pattern, SetLast(pattern, j)) # Nul
  BY DEF SetFails
<1>4. SetLast(pattern, j) <= Len(pattern)
  BY <1>1, <1>2, <1>3, CharIs
<1> QED BY <1>1, <1>2, <1>4

LEMMA SetExists ==
  ASSUME NEW pattern \in Seq(Nat), NEW char
  PROVE  \E set : IsSet(pattern, char, set)
<1> DEFINE S == 1..(Len(pattern) + 1)
           n == Len(pattern) + 1
           ends(j) == SetFails(pattern, j) \/ SetStops(pattern, j, char)
           leaf == {j \in S : ends(j)}
           end(j) == IF SetFails(pattern, j) THEN Error ELSE SetFound(pattern, j, char)
           V == {end(j) : j \in S}
           rank == [j \in S |-> n - j]
           parent == [j \in S |-> IF ends(j) THEN j ELSE SetLast(pattern, j)]
           base == [j \in S |-> end(j)]
           step == [j \in S |-> [v \in V |-> v]]
<1>1. n \in Nat /\ S = 1..n
  OBVIOUS
<1> HIDE DEF n
<1>2. \A j \in S : ~ends(j) => SetLast(pattern, j) \in S /\ SetLast(pattern, j) > j
  BY SetGoesOn
<1> HIDE DEF ends
<1>3. rank \in [S -> Nat]
  BY <1>1
<1>4. parent \in [S -> S]
  <2> HIDE DEF S
  <2> QED BY <1>2
<1>5. base \in [S -> V] /\ step \in [S -> [V -> V]]
  <2> HIDE DEF S, end
  <2>1. base \in [S -> V]
    OBVIOUS
  <2> HIDE DEF V
  <2> QED BY <2>1, Zenon
<1>6. \A j \in S \ leaf : rank[parent[j]] < rank[j]
  <2> SUFFICES ASSUME NEW j \in S, ~ends(j) PROVE rank[parent[j]] < rank[j]
    OBVIOUS
  <2>1. parent[j] = SetLast(pattern, j)
    OBVIOUS
  <2>2. parent[j] \in S /\ parent[j] > j
    BY <1>2, <2>1
  <2> HIDE DEF parent
  <2> QED BY <1>1, <2>2
<1>7. /\ \A j \in S : (j \in leaf <=> ends(j)) /\ base[j] = end(j) /\ (~ends(j) => parent[j] = SetLast(pattern, j))
      /\ \A j \in S : \A v \in V : step[j][v] = v
  <2> HIDE DEF S, end, V
  <2> QED BY Zenon
<1> HIDE DEF S, leaf, V, rank, parent, base, step, end
<1>8. PICK set \in [S -> V] : \A j \in S : Follows(set, j, parent, leaf, base, step)
  BY <1>3, <1>4, <1>5, <1>6, Recursion
<1>9. ASSUME NEW j \in S
      PROVE  set[j] = IF SetFails(pattern, j) THEN Error
                      ELSE IF SetStops(pattern, j, char) THEN SetFound(pattern, j, char)
                      ELSE set[SetLast(pattern, j)]
  <2>1. set[j] = IF j \in leaf THEN base[j] ELSE step[j][set[parent[j]]]
    BY <1>8 DEF Follows
  <2>2. CASE ends(j)
    <3>1. set[j] = end(j)
      BY <1>7, <2>1, <2>2
    <3> QED BY <2>2, <3>1 DEF ends, end
  <2>3. CASE ~ends(j)
    <3>1. parent[j] = SetLast(pattern, j) /\ parent[j] \in S
      BY <1>2, <1>7, <2>3
    <3>2. set[parent[j]] \in V
      BY <1>8, <3>1
    <3>3. set[j] = set[SetLast(pattern, j)]
      BY <1>7, <2>1, <2>3, <3>1, <3>2
    <3> QED BY <2>3, <3>3 DEF ends
  <2> QED BY <2>2, <2>3
<1>10. set = SetBody(pattern, char, set)
  <2>1. set = [j \in S |-> set[j]]
    BY <1>8
  <2>2. \A j \in S : set[j] = LET last == SetLast(pattern, j)
                                  has  == SetHas(pattern, j, char)
                              IN  IF Nul \in {CharAt(pattern, j), CharAt(pattern, j + 1), CharAt(pattern, last)} THEN Error
                                  ELSE IF has \/ CharAt(pattern, last) = Close THEN [error |-> FALSE, has |-> has, at |-> last]
                                  ELSE set[last]
    BY <1>9, Zenon DEF SetFails, SetStops, SetFound
  <2> QED BY <2>1, <2>2, Zenon DEF SetBody, S
<1> QED BY <1>10, Zenon DEF IsSet

LEMMA SetIs ==
  ASSUME NEW pattern \in Seq(Nat), NEW char
  PROVE  \E set : SetRules(pattern, char, set) /\ \A from : InSet(pattern, from, char) = set[from]
<1> DEFINE set == CHOOSE s : s = SetBody(pattern, char, s)
<1>1. set = SetBody(pattern, char, set)
  <2>1. \E s : s = SetBody(pattern, char, s)
    BY SetExists, Zenon DEF IsSet
  <2> QED BY <2>1, Zenon
<1>2. \A from : InSet(pattern, from, char) = set[from]
  BY Zenon DEF InSet, SetBody
<1> HIDE DEF set
<1>3. \A j \in 1..(Len(pattern) + 1) : SetBody(pattern, char, set)[j] =
         IF SetFails(pattern, j) THEN Error
         ELSE IF SetStops(pattern, j, char) THEN SetFound(pattern, j, char) ELSE set[SetLast(pattern, j)]
  BY Zenon DEF SetBody, SetFails, SetStops, SetFound
<1>4. SetRules(pattern, char, set)
  BY <1>1, <1>3, Zenon DEF SetRules
<1> QED BY <1>2, <1>4

(* What is found is further on, in the pattern.                            *)
SetGives(set, j, holds, close) ==
  \E h \in BOOLEAN, at \in (j + 1)..close : set[j] = [error |-> FALSE, has |-> h, at |-> at] /\ (h <=> holds)

LEMMA SetFoundIs ==
  ASSUME NEW pattern, NEW j, NEW char
  PROVE  \E h \in BOOLEAN : /\ SetFound(pattern, j, char) = [error |-> FALSE, has |-> h, at |-> SetLast(pattern, j)]
                            /\ h <=> SetHas(pattern, j, char)
<1>1. CASE SetHas(pattern, j, char)
  <2>1. SetHas(pattern, j, char) = TRUE
    BY <1>1, Zenon DEF SetHas
  <2> QED BY <2>1, Zenon DEF SetFound
<1>2. CASE ~SetHas(pattern, j, char)
  <2>1. SetHas(pattern, j, char) = FALSE
    BY <1>2, Zenon DEF SetHas
  <2> QED BY <2>1, Zenon DEF SetFound
<1> QED BY <1>1, <1>2

LEMMA SetPlaces ==
  ASSUME NEW pattern \in Seq(Nat), NEW char, NEW set, SetRules(pattern, char, set), NEW from \in 1..(Len(pattern) + 1)
  PROVE  set[from] = Error \/ \E holds \in BOOLEAN : SetGives(set, from, holds, Len(pattern))
<1> DEFINE Q(j) == set[j] = Error \/ \E holds \in BOOLEAN : SetGives(set, j, holds, Len(pattern))
<1>1. PICK n \in Nat : n = Len(pattern) + 1
  OBVIOUS
<1> DEFINE T == {d \in Nat : \A j \in 1..n : n - j = d => Q(j)}
<1>2. ASSUME NEW d \in Nat, \A k \in Nat : k < d => k \in T
      PROVE  d \in T
  <2> SUFFICES ASSUME NEW j \in 1..n, n - j = d PROVE Q(j)
    OBVIOUS
  <2>1. set[j] = IF SetFails(pattern, j) THEN Error
                 ELSE IF SetStops(pattern, j, char) THEN SetFound(pattern, j, char) ELSE set[SetLast(pattern, j)]
    BY <1>1, Zenon DEF SetRules
  <2>2. CASE SetFails(pattern, j)
    BY <2>1, <2>2
  <2>3. CASE ~SetFails(pattern, j)
    <3>1. SetLast(pattern, j) \in 1..n /\ SetLast(pattern, j) > j /\ SetLast(pattern, j) <= Len(pattern)
      BY <1>1, <2>3, SetGoesOn
    <3>2. PICK l \in 1..n : l = SetLast(pattern, j) /\ l > j /\ l <= Len(pattern)
      BY <3>1
    <3>3. CASE SetStops(pattern, j, char)
      <4>1. PICK h \in BOOLEAN : SetFound(pattern, j, char) = [error |-> FALSE, has |-> h, at |-> l]
        BY <3>2, SetFoundIs
      <4>2. set[j] = [error |-> FALSE, has |-> h, at |-> l]
        BY <2>1, <2>3, <3>3, <4>1
      <4>3. l \in (j + 1)..Len(pattern)
        BY <1>1, <3>2
      <4>4. SetGives(set, j, h, Len(pattern))
        BY <4>2, <4>3, Zenon DEF SetGives
      <4> QED BY <4>4
    <3>4. CASE ~SetStops(pattern, j, char)
      <4>1. set[j] = set[l]
        BY <2>1, <2>3, <3>2, <3>4
      <4>2. n - l \in Nat /\ n - l < d
        BY <1>1, <3>2
      <4>3. Q(l)
        BY <1>2, <4>2
      <4>4. CASE set[l] = Error
        BY <4>1, <4>4
      <4>5. CASE \E holds \in BOOLEAN : SetGives(set, l, holds, Len(pattern))
        <5>1. PICK holds \in BOOLEAN : SetGives(set, l, holds, Len(pattern))
          BY <4>5
        <5>2. \A at \in (l + 1)..Len(pattern) : at \in (j + 1)..Len(pattern)
          BY <1>1, <3>2
        <5>3. SetGives(set, j, holds, Len(pattern))
          BY <4>1, <5>1, <5>2, Zenon DEF SetGives
        <5> QED BY <5>3
      <4> QED BY <4>3, <4>4, <4>5
    <3> QED BY <3>3, <3>4
  <2> QED BY <2>2, <2>3
<1> HIDE DEF T
<1>3. \A d \in Nat : d \in T
  <2>1. T \in SUBSET Nat
    BY DEF T
  <2> QED BY <1>2, <2>1, StrongInduction
<1>4. n - from \in Nat /\ from \in 1..n
  BY <1>1
<1>5. n - from \in T
  BY <1>3, <1>4
<1> HIDE DEF Q
<1>6. Q(from)
  BY <1>4, <1>5 DEF T
<1> QED BY <1>6 DEF Q

(* The places behind a set, from what was found in it.                     *)
BehindSet(pattern, at) ==
  {k \in (at + 1)..(Len(pattern) + 1) :
     CharAt(pattern, k - 1) = Close /\ \A l \in at..(k - 2) : CharAt(pattern, l) # Close}

Negated(pattern, j) == CharAt(pattern, j + 1) = Caret
SetFrom(pattern, j) == IF Negated(pattern, j) THEN j + 2 ELSE j + 1

LEMMA AfterSetBy ==
  ASSUME NEW pattern \in Seq(Nat), NEW j \in 1..Len(pattern), NEW char
  PROVE  /\ SetFrom(pattern, j) \in 1..(Len(pattern) + 1) /\ SetFrom(pattern, j) > j
         /\ \E set : /\ SetRules(pattern, char, set)
                     /\ AfterSet(pattern, j, char) =
                          IF set[SetFrom(pattern, j)].error THEN {}
                          ELSE IF set[SetFrom(pattern, j)].has = Negated(pattern, j) THEN {}
                          ELSE BehindSet(pattern, set[SetFrom(pattern, j)].at)
<1>1. CharAt(pattern, j + 1) = Caret => j + 1 <= Len(pattern)
  <2>1. Caret # Nul /\ j + 1 \in Nat \ {0}
    BY SignsDiffer DEF Chars, Nul
  <2> QED BY <2>1, CharIs
<1>2. SetFrom(pattern, j) \in 1..(Len(pattern) + 1) /\ SetFrom(pattern, j) > j
  <2>1. j + 1 \in 1..(Len(pattern) + 1)
    OBVIOUS
  <2>2. CharAt(pattern, j + 1) = Caret => j + 2 \in 1..(Len(pattern) + 1)
    BY <1>1
  <2> QED BY <2>1, <2>2 DEF SetFrom, Negated
<1>3. PICK set : SetRules(pattern, char, set) /\ \A from : InSet(pattern, from, char) = set[from]
  BY SetIs
<1>4. InSet(pattern, SetFrom(pattern, j), char) = set[SetFrom(pattern, j)]
  BY <1>3
<1>5. AfterSet(pattern, j, char) =
        LET in == InSet(pattern, SetFrom(pattern, j), char)
        IN  IF in.error THEN {} ELSE IF in.has = Negated(pattern, j) THEN {} ELSE BehindSet(pattern, in.at)
  BY Zenon DEF AfterSet, SetFrom, Negated, BehindSet
<1> QED BY <1>2, <1>3, <1>4, <1>5

LEMMA AfterSetIn ==
  ASSUME NEW pattern \in Seq(Nat), NEW j \in 1..Len(pattern), NEW char
  PROVE  AfterSet(pattern, j, char) \subseteq (j + 1)..(Len(pattern) + 1)
<1> DEFINE from == SetFrom(pattern, j)
<1>1. from \in 1..(Len(pattern) + 1) /\ from > j
  BY AfterSetBy
<1>2. PICK set : /\ SetRules(pattern, char, set)
                 /\ AfterSet(pattern, j, char) = IF set[from].error THEN {}
                                                 ELSE IF set[from].has = Negated(pattern, j) THEN {}
                                                 ELSE BehindSet(pattern, set[from].at)
  BY AfterSetBy
<1> HIDE DEF from
<1>3. set[from] = Error \/ \E holds \in BOOLEAN : SetGives(set, from, holds, Len(pattern))
  BY <1>1, <1>2, SetPlaces
<1>4. CASE set[from] = Error
  <2>1. set[from].error
    BY <1>4 DEF Error
  <2> QED BY <1>2, <2>1
<1>5. CASE \E holds \in BOOLEAN : SetGives(set, from, holds, Len(pattern))
  <2>1. PICK h \in BOOLEAN, at \in (from + 1)..Len(pattern) : set[from] = [error |-> FALSE, has |-> h, at |-> at]
    BY <1>5, Zenon DEF SetGives
  <2>2. set[from].at = at /\ at \in Nat /\ at > j
    BY <1>1, <2>1
  <2>3. BehindSet(pattern, at) \subseteq (j + 1)..(Len(pattern) + 1)
    BY <2>2 DEF BehindSet
  <2> QED BY <1>2, <2>2, <2>3
<1> QED BY <1>3, <1>4, <1>5

(* A list of characters has those in it, up to where it is closed.         *)
LEMMA ListStep ==
  ASSUME NEW pattern \in Seq(Nat), NEW j \in 1..Len(pattern), NEW char, j + 1 <= Len(pattern),
         pattern[j] # Nul, pattern[j + 1] \notin {Nul, Dash}
  PROVE  /\ ~SetFails(pattern, j) /\ SetLast(pattern, j) = j + 1
         /\ CharAt(pattern, SetLast(pattern, j)) = pattern[j + 1]
         /\ pattern[j + 1] = Close => (SetHas(pattern, j, char) <=> char = pattern[j])
         /\ pattern[j + 1] # Close => (SetHas(pattern, j, char) <=> char \in {pattern[j], pattern[j + 1]})
<1>1. CharAt(pattern, j) = pattern[j] /\ CharAt(pattern, j + 1) = pattern[j + 1]
  BY DEF CharAt
<1>2. SetLast(pattern, j) = j + 1
  BY <1>1 DEF SetLast
<1>3. ~SetFails(pattern, j)
  BY <1>1, <1>2, Zenon DEF SetFails
<1> QED BY <1>1, <1>2, <1>3, Zenon DEF SetHas

ClosedList(pattern, from, chars) ==
  /\ from \in Nat \ {0} /\ chars \in Seq(Chars) /\ chars # <<>> /\ from + Len(chars) <= Len(pattern)
  /\ \A k \in 1..Len(chars) : pattern[from - 1 + k] = chars[k]
  /\ pattern[from + Len(chars)] = Close
  /\ \A k \in 2..Len(chars) : chars[k] \notin {Close, Dash}

LEMMA ListIs ==
  ASSUME NEW pattern \in Seq(Nat), NEW char, NEW set, SetRules(pattern, char, set),
         NEW from, NEW chars, ClosedList(pattern, from, chars)
  PROVE  SetGives(set, from, char \in Range(chars), from + Len(chars))
<1>1. PICK m \in Nat : m = Len(chars) /\ m >= 1
  BY DEF ClosedList
<1>2. PICK L \in Nat : L = Len(pattern)
  OBVIOUS
<1>3. from \in Nat /\ from >= 1 /\ from + m <= L /\ chars \in Seq(Chars)
  BY <1>1, <1>2 DEF ClosedList
<1> DEFINE In(k) == \E l \in k..m : char = chars[l]
           Q(k) == SetGives(set, from - 1 + k, In(k), from + m)
           T == {d \in Nat : \A k \in 1..m : m - k = d => Q(k)}
<1>4. ASSUME NEW k \in 1..m
      PROVE  LET j == from - 1 + k
             IN /\ j \in 1..L /\ j + 1 <= L /\ pattern[j] = chars[k]
                /\ k < m => pattern[j + 1] = chars[k + 1] /\ chars[k + 1] \notin {Close, Dash}
                /\ k = m => pattern[j + 1] = Close
                /\ chars[k] # Nul /\ pattern[j + 1] \notin {Nul, Dash}
  <2>1. from - 1 + k \in 1..L /\ (from - 1 + k) + 1 <= L /\ pattern[from - 1 + k] = chars[k]
    BY <1>1, <1>2, <1>3 DEF ClosedList
  <2>2. ASSUME k < m PROVE pattern[(from - 1 + k) + 1] = chars[k + 1] /\ chars[k + 1] \notin {Close, Dash, Nul}
    <3>1. k + 1 \in 2..m /\ k + 1 \in 1..m /\ (from - 1 + k) + 1 = from - 1 + (k + 1)
      BY <1>1, <1>3, <2>2
    <3>2. chars[k + 1] \in Chars
      BY <1>1, <1>3, <3>1
    <3> QED BY <1>1, <3>1, <3>2 DEF ClosedList, Chars, Nul
  <2>3. ASSUME k = m PROVE pattern[(from - 1 + k) + 1] = Close
    <3>1. (from - 1 + k) + 1 = from + m
      BY <1>3, <2>3
    <3> QED BY <1>1, <3>1 DEF ClosedList
  <2>4. chars[k] \in Chars
    BY <1>1, <1>3
  <2>5. Close \notin {Nul, Dash}
    BY SignsDiffer DEF Chars, Nul
  <2>6. k < m \/ k = m
    BY <1>1
  <2> QED BY <2>1, <2>2, <2>3, <2>4, <2>5, <2>6 DEF Chars, Nul
<1>5. ASSUME NEW d \in Nat, \A e \in Nat : e < d => e \in T
      PROVE  d \in T
  <2> SUFFICES ASSUME NEW k \in 1..m, m - k = d PROVE Q(k)
    OBVIOUS
  <2>1. PICK j \in Nat : j = from - 1 + k
    BY <1>3
  <2>2. /\ j \in 1..L /\ j + 1 <= L /\ j >= 1 /\ pattern[j] = chars[k]
        /\ k < m => pattern[j + 1] = chars[k + 1] /\ chars[k + 1] \notin {Close, Dash}
        /\ k = m => pattern[j + 1] = Close
        /\ pattern[j] # Nul /\ pattern[j + 1] \notin {Nul, Dash}
    BY <1>4, <2>1
  <2>3. /\ ~SetFails(pattern, j) /\ SetLast(pattern, j) = j + 1
        /\ CharAt(pattern, j + 1) = pattern[j + 1]
        /\ pattern[j + 1] = Close => (SetHas(pattern, j, char) <=> char = pattern[j])
        /\ pattern[j + 1] # Close => (SetHas(pattern, j, char) <=> char \in {pattern[j], pattern[j + 1]})
    BY <1>2, <2>2, ListStep
  <2>4. set[j] = IF SetStops(pattern, j, char) THEN SetFound(pattern, j, char) ELSE set[j + 1]
    <3>1. j \in 1..(Len(pattern) + 1)
      BY <1>2, <2>2
    <3> QED BY <2>3, <3>1, Zenon DEF SetRules
  <2>5. SetStops(pattern, j, char) <=> SetHas(pattern, j, char) \/ pattern[j + 1] = Close
    BY <2>3, Zenon DEF SetStops
  <2>6. PICK h \in BOOLEAN : /\ SetFound(pattern, j, char) = [error |-> FALSE, has |-> h, at |-> j + 1]
                             /\ h <=> SetHas(pattern, j, char)
    BY <2>3, SetFoundIs
  <2>7. j + 1 \in (j + 1)..(from + m)
    BY <1>3, <2>1
  <2>8. ASSUME SetStops(pattern, j, char), h <=> In(k) PROVE Q(k)
    <3>1. set[j] = [error |-> FALSE, has |-> h, at |-> j + 1]
      BY <2>4, <2>6, <2>8
    <3>2. SetGives(set, j, In(k), from + m)
      BY <2>7, <2>8, <3>1, Zenon DEF SetGives
    <3> QED BY <2>1, <3>2
  <2>9. CASE k = m
    <3>1. In(k) <=> char = chars[k]
      BY <2>9
    <3> QED BY <2>2, <2>3, <2>5, <2>6, <2>8, <2>9, <3>1
  <2>10. CASE k < m
    <3>1. k + 1 \in 1..m /\ m - (k + 1) \in Nat /\ m - (k + 1) < d /\ from - 1 + (k + 1) = j + 1
      BY <1>3, <2>1, <2>10
    <3>2. Q(k + 1)
      BY <1>5, <3>1
    <3>3. In(k) <=> char = chars[k] \/ In(k + 1)
      <4>1. \A l \in k..m : l = k \/ l \in (k + 1)..m
        OBVIOUS
      <4>2. k \in k..m /\ \A l \in (k + 1)..m : l \in k..m
        OBVIOUS
      <4> QED BY <4>1, <4>2
    <3>4. pattern[j + 1] = chars[k + 1] /\ pattern[j + 1] # Close
      BY <2>2, <2>10
    <3>5. CASE SetHas(pattern, j, char)
      <4>1. char \in {chars[k], chars[k + 1]}
        BY <2>2, <2>3, <3>4, <3>5
      <4>2. k + 1 \in (k + 1)..m
        BY <3>1
      <4>3. In(k)
        BY <3>3, <4>1, <4>2
      <4> QED BY <2>5, <2>6, <2>8, <3>5, <4>3
    <3>6. CASE ~SetHas(pattern, j, char)
      <4>1. char # chars[k]
        BY <2>2, <2>3, <3>4, <3>6
      <4>2. set[j] = set[j + 1]
        BY <2>4, <2>5, <3>4, <3>6
      <4>3. \A at \in ((j + 1) + 1)..(from + m) : at \in (j + 1)..(from + m)
        BY <1>3
      <4>4. SetGives(set, j + 1, In(k + 1), from + m)
        BY <3>1, <3>2
      <4>5. In(k) <=> In(k + 1)
        BY <3>3, <4>1
      <4> HIDE DEF In
      <4>6. SetGives(set, j, In(k), from + m)
        BY <4>2, <4>3, <4>4, <4>5, Zenon DEF SetGives
      <4> QED BY <2>1, <4>6
    <3> QED BY <3>5, <3>6
  <2>11. k = m \/ k < m
    BY <1>1
  <2> QED BY <2>9, <2>10, <2>11
<1> HIDE DEF T
<1>6. \A d \in Nat : d \in T
  <2>1. T \in SUBSET Nat
    BY DEF T
  <2> QED BY <1>5, <2>1, StrongInduction
<1>7. m - 1 \in T /\ 1 \in 1..m /\ m - 1 \in Nat /\ from - 1 + 1 = from
  BY <1>1, <1>3, <1>6
<1> HIDE DEF Q
<1>8. Q(1)
  BY <1>7 DEF T
<1>9. In(1) <=> char \in Range(chars)
  <2>1. Range(chars) = {chars[l] : l \in 1..m}
    BY <1>1, <1>3, SMTT(30) DEF Range
  <2> QED BY <2>1
<1>10. SetGives(set, from, In(1), from + m)
  BY <1>7, <1>8 DEF Q
<1> HIDE DEF In
<1> QED BY <1>1, <1>9, <1>10, Zenon DEF SetGives

(* The set ends at the first place where it is closed.                     *)
LEMMA ClosesAt ==
  ASSUME NEW pattern \in Seq(Nat), NEW at \in Nat, NEW close \in Nat, at <= close, close <= Len(pattern),
         CharAt(pattern, close) = Close, \A k \in at..(close - 1) : CharAt(pattern, k) # Close
  PROVE  BehindSet(pattern, at) = {close + 1}
<1>1. close + 1 \in BehindSet(pattern, at)
  BY DEF BehindSet
<1>2. ASSUME NEW k \in BehindSet(pattern, at) PROVE k = close + 1
  <2>1. /\ k \in Nat /\ k >= at + 1 /\ k <= Len(pattern) + 1 /\ CharAt(pattern, k - 1) = Close
        /\ \A l \in at..(k - 2) : CharAt(pattern, l) # Close
    BY DEF BehindSet
  <2>2. ~(k - 1 < close)
    BY <2>1
  <2>3. ~(close < k - 1)
    <3> SUFFICES ASSUME close < k - 1 PROVE FALSE
      OBVIOUS
    <3>1. close \in at..(k - 2)
      BY <2>1
    <3> QED BY <2>1, <3>1
  <2> QED BY <2>1, <2>2, <2>3
<1> QED BY <1>1, <1>2

(* What a token lets pass, at the place where its pattern lies.            *)
LEMMA PatternAt ==
  ASSUME NEW pattern \in Seq(Nat), NEW at \in Nat, NEW p \in Seq(Chars), LiesAt(pattern, at, p), NEW k \in 1..Len(p)
  PROVE  /\ at + k \in 1..Len(pattern) /\ pattern[at + k] = p[k] /\ CharAt(pattern, at + k) = p[k]
         /\ p[k] \in Nat /\ p[k] # Nul
<1>1. at + k \in 1..Len(pattern) /\ pattern[at + k] = p[k]
  BY DEF LiesAt
<1>2. p[k] \in Chars
  OBVIOUS
<1> QED BY <1>1, <1>2 DEF CharAt, Chars, Nul

LEMMA AfterList ==
  ASSUME NEW pattern \in Seq(Nat), NEW j \in 1..Len(pattern), NEW char, NEW chars,
         ClosedList(pattern, SetFrom(pattern, j), chars)
  PROVE  AfterSet(pattern, j, char) =
           IF char \in Range(chars) <=> Negated(pattern, j) THEN {} ELSE {SetFrom(pattern, j) + Len(chars) + 1}
<1>1. PICK from \in Nat : from = SetFrom(pattern, j) /\ from > j
  BY AfterSetBy
<1>2. PICK set : /\ SetRules(pattern, char, set)
                 /\ AfterSet(pattern, j, char) = IF set[from].error THEN {}
                                                 ELSE IF set[from].has = Negated(pattern, j) THEN {}
                                                 ELSE BehindSet(pattern, set[from].at)
  BY <1>1, AfterSetBy
<1>3. PICK m \in Nat : m = Len(chars)
  BY DEF ClosedList
<1>4. SetGives(set, from, char \in Range(chars), from + m)
  BY <1>1, <1>2, <1>3, ListIs
<1>5. PICK h \in BOOLEAN, at \in (from + 1)..(from + m) :
        set[from] = [error |-> FALSE, has |-> h, at |-> at] /\ (h <=> char \in Range(chars))
  BY <1>4, Zenon DEF SetGives
<1>6. set[from].error = FALSE /\ set[from].has = h /\ set[from].at = at
  BY <1>5
<1>7. BehindSet(pattern, at) = {from + m + 1}
  <2>1. /\ from + m <= Len(pattern) /\ pattern[from + m] = Close
        /\ \A k \in 1..m : pattern[from - 1 + k] = chars[k]
        /\ \A k \in 2..m : chars[k] # Close
    BY <1>1, <1>3 DEF ClosedList
  <2>2. CharAt(pattern, from + m) = Close
    BY <2>1 DEF CharAt
  <2>3. ASSUME NEW k \in at..(from + m - 1) PROVE CharAt(pattern, k) # Close
    <3>1. k - from + 1 \in 2..m /\ k - from + 1 \in 1..m /\ from - 1 + (k - from + 1) = k /\ k <= Len(pattern)
      BY <2>1
    <3>2. pattern[k] # Close
      BY <2>1, <3>1
    <3> QED BY <3>1, <3>2 DEF CharAt
  <2>4. at \in Nat /\ from + m \in Nat /\ at <= from + m
    OBVIOUS
  <2>5. BehindSet(pattern, at) = {(from + m) + 1}
    BY <2>1, <2>2, <2>3, <2>4, ClosesAt
  <2> QED BY <2>5
<1>8. (h = Negated(pattern, j)) <=> (char \in Range(chars) <=> Negated(pattern, j))
  <2>1. Negated(pattern, j) \in BOOLEAN
    BY Zenon DEF Negated
  <2> QED BY <1>5, <2>1
<1> QED BY <1>1, <1>2, <1>3, <1>6, <1>7, <1>8

LEMMA AfterRange ==
  ASSUME NEW pattern \in Seq(Nat), NEW j \in 1..Len(pattern), NEW char, NEW low \in Nat, NEW high \in Nat,
         j + 4 <= Len(pattern), pattern[j + 1] = low, pattern[j + 2] = Dash, pattern[j + 3] = high,
         pattern[j + 4] = Close, low \notin {Nul, Caret}, high \notin {Nul, Close}, low <= high
  PROVE  AfterSet(pattern, j, char) = IF char \in low..high THEN {j + 5} ELSE {}
<1>1. /\ CharAt(pattern, j + 1) = low /\ CharAt(pattern, j + 2) = Dash /\ CharAt(pattern, j + 3) = high
      /\ CharAt(pattern, j + 4) = Close
  BY DEF CharAt
<1>2. Negated(pattern, j) = FALSE /\ SetFrom(pattern, j) = j + 1
  BY <1>1 DEF Negated, SetFrom
<1>3. PICK set : /\ SetRules(pattern, char, set)
                 /\ AfterSet(pattern, j, char) = IF set[j + 1].error THEN {}
                                                 ELSE IF set[j + 1].has = FALSE THEN {}
                                                 ELSE BehindSet(pattern, set[j + 1].at)
  BY <1>2, AfterSetBy
<1>4. (j + 1) + 1 = j + 2 /\ (j + 1) + 2 = j + 3 /\ (j + 3) + 1 = j + 4
  OBVIOUS
<1>5. SetLast(pattern, j + 1) = j + 3
  BY <1>1, <1>4 DEF SetLast
<1>6. Close \notin {Nul, Dash} /\ Dash # Nul
  BY SignsDiffer DEF Chars, Nul
<1>7. ~SetFails(pattern, j + 1)
  BY <1>1, <1>4, <1>5, <1>6, Zenon DEF SetFails
<1>8. SetHas(pattern, j + 1, char) <=> char \in low..high
  <2>1. SetHas(pattern, j + 1, char) <=> char \in {low, high} \/ char \in low..high
    BY <1>1, <1>4, <1>5, Zenon DEF SetHas
  <2> QED BY <2>1
<1>9. SetStops(pattern, j + 1, char) <=> char \in low..high
  BY <1>1, <1>5, <1>8, Zenon DEF SetStops
<1>10. set[j + 1] = IF char \in low..high THEN SetFound(pattern, j + 1, char) ELSE set[j + 3]
  <2>1. j + 1 \in 1..(Len(pattern) + 1)
    OBVIOUS
  <2> QED BY <1>3, <1>5, <1>7, <1>9, <2>1, Zenon DEF SetRules
<1>11. CASE char \in low..high
  <2>1. PICK h \in BOOLEAN : /\ SetFound(pattern, j + 1, char) = [error |-> FALSE, has |-> h, at |-> j + 3]
                             /\ h <=> SetHas(pattern, j + 1, char)
    BY <1>5, SetFoundIs
  <2>2. set[j + 1].error = FALSE /\ set[j + 1].has = TRUE /\ set[j + 1].at = j + 3
    BY <1>8, <1>10, <1>11, <2>1, SMTT(30)
  <2>3. BehindSet(pattern, j + 3) = {(j + 4) + 1}
    <3>1. \A k \in (j + 3)..((j + 4) - 1) : k = j + 3
      OBVIOUS
    <3>2. j + 3 \in Nat /\ j + 4 \in Nat /\ j + 3 <= j + 4
      OBVIOUS
    <3>3. \A k \in (j + 3)..((j + 4) - 1) : CharAt(pattern, k) # Close
      BY <1>1, <3>1
    <3> QED BY <1>1, <3>2, <3>3, ClosesAt
  <2> QED BY <1>3, <1>11, <2>2, <2>3, SMTT(30)
<1>12. CASE char \notin low..high
  <2>1. /\ ~SetFails(pattern, j + 3) /\ SetLast(pattern, j + 3) = j + 4
        /\ CharAt(pattern, SetLast(pattern, j + 3)) = Close
        /\ SetHas(pattern, j + 3, char) <=> char = high
    <3>1. j + 3 \in 1..Len(pattern) /\ (j + 3) + 1 <= Len(pattern)
      OBVIOUS
    <3>2. pattern[j + 3] # Nul /\ pattern[(j + 3) + 1] = Close
      BY <1>4
    <3> QED BY <1>1, <1>4, <1>6, <3>1, <3>2, ListStep
  <2>2. char # high
    BY <1>12
  <2>3. set[j + 3] = SetFound(pattern, j + 3, char)
    <3>1. j + 3 \in 1..(Len(pattern) + 1)
      OBVIOUS
    <3> QED BY <1>3, <2>1, <3>1, Zenon DEF SetRules, SetStops
  <2>4. PICK h \in BOOLEAN : /\ SetFound(pattern, j + 3, char) = [error |-> FALSE, has |-> h, at |-> j + 4]
                             /\ h <=> SetHas(pattern, j + 3, char)
    BY <2>1, SetFoundIs
  <2>5. set[j + 1].has = FALSE
    BY <1>10, <1>12, <2>1, <2>2, <2>3, <2>4
  <2> QED BY <1>3, <1>12, <2>5
<1> QED BY <1>11, <1>12

LEMMA AfterCharBy ==
  ASSUME NEW pattern, NEW j, NEW char
  PROVE  /\ CharAt(pattern, j) = Query => AfterChar(pattern, j, char) = {j + 1}
         /\ CharAt(pattern, j) = Open => AfterChar(pattern, j, char) = AfterSet(pattern, j, char)
         /\ CharAt(pattern, j) = Escape /\ CharAt(pattern, j + 1) # Nul =>
              AfterChar(pattern, j, char) = IF char = CharAt(pattern, j + 1) THEN {j + 2} ELSE {}
         /\ \/ CharAt(pattern, j) \notin {Query, Open, Escape}
            \/ CharAt(pattern, j) = Escape /\ CharAt(pattern, j + 1) = Nul
            => AfterChar(pattern, j, char) = IF char = CharAt(pattern, j) THEN {j + 1} ELSE {}
<1>1. Query # Open /\ Query # Escape /\ Open # Escape
  BY SignsDiffer
<1> QED BY <1>1 DEF AfterChar

LEMMA AfterCharIn ==
  ASSUME NEW pattern \in Seq(Nat), NEW j \in 1..Len(pattern), NEW char
  PROVE  AfterChar(pattern, j, char) \subseteq (j + 1)..(Len(pattern) + 1)
<1>1. j + 1 \in (j + 1)..(Len(pattern) + 1)
  OBVIOUS
<1>2. CharAt(pattern, j + 1) # Nul => j + 2 \in (j + 1)..(Len(pattern) + 1)
  <2>1. j + 1 \in Nat \ {0}
    OBVIOUS
  <2> QED BY <2>1, CharIs
<1>3. AfterSet(pattern, j, char) \subseteq (j + 1)..(Len(pattern) + 1)
  BY AfterSetIn
<1> QED BY <1>1, <1>2, <1>3, AfterCharBy

(* A token that is not a star lies where there is no star, and lets pass   *)
(* what it takes.                                                          *)
Lets(pattern, at, token, char) ==
  /\ CharAt(pattern, at + 1) \notin {Star, Nul}
  /\ AfterChar(pattern, at + 1, char) = IF Takes(token, char) THEN {at + Len(Pattern(token)) + 1} ELSE {}

LEMMA TwoParts ==
  ASSUME NEW p \in Seq(Chars), NEW q \in Seq(Chars), Len(p) = 1, Len(q) = 1
  PROVE  Len(p \o q) = 2 /\ (p \o q)[1] = p[1] /\ (p \o q)[2] = q[1]
<1>1. Len(p \o q) = 2
  OBVIOUS
<1>2. (p \o q)[1] = p[1]
  <2>1. \A i \in 1..(Len(p) + Len(q)) : (p \o q)[i] = IF i <= Len(p) THEN p[i] ELSE q[i - Len(p)]
    BY ConcatProperties
  <2>2. 1 \in 1..(Len(p) + Len(q)) /\ 1 <= Len(p)
    OBVIOUS
  <2>3. (p \o q)[1] = IF 1 <= Len(p) THEN p[1] ELSE q[1 - Len(p)]
    BY <2>1, <2>2, Zenon
  <2> QED BY <2>2, <2>3, Zenon
<1>3. (p \o q)[2] = q[1]
  <2>1. (p \o q)[2] = q[2 - Len(p)] /\ 2 - Len(p) = 1
    BY <1>1
  <2> QED BY <2>1
<1> QED BY <1>1, <1>2, <1>3

LEMMA CharLets ==
  ASSUME NEW pattern \in Seq(Nat), NEW at \in Nat, NEW token, WellFormed(token), token.kind = "char",
         LiesAt(pattern, at, Pattern(token)), NEW char
  PROVE  Lets(pattern, at, token, char)
<1>1. token.chars \in Seq(Chars) /\ Len(token.chars) = 1
  BY DEF WellFormed
<1>2. PICK c \in Chars : c = token.chars[1]
  BY <1>1
<1>3. Takes(token, char) <=> char = c
  <2>1. Range(token.chars) = {c}
    BY <1>1, <1>2 DEF Range
  <2> QED BY <2>1 DEF Takes
<1>4. CASE c \in {Star, Query, Open, Escape}
  <2>1. Pattern(token) = <<Escape>> \o token.chars
    BY <1>2, <1>4 DEF Pattern
  <2>2. PICK p \in Seq(Chars) : p = Pattern(token)
    BY PatternIs
  <2>3. Len(p) = 2 /\ p[1] = Escape /\ p[2] = c
    <3>1. <<Escape>> \in Seq(Chars) /\ Len(<<Escape>>) = 1 /\ <<Escape>>[1] = Escape
      BY SignsDiffer
    <3>2. PICK e \in Seq(Chars), q \in Seq(Chars) : e = <<Escape>> /\ q = token.chars /\ Len(q) = 1 /\ q[1] = c
      BY <1>1, <1>2, <3>1
    <3>3. Len(e \o q) = 2 /\ (e \o q)[1] = Escape /\ (e \o q)[2] = c
      <4>1. Len(e) = 1 /\ e[1] = Escape
        BY <3>1, <3>2
      <4> QED BY <3>2, <4>1, TwoParts
    <3> QED BY <2>1, <2>2, <3>2, <3>3
  <2>4. LiesAt(pattern, at, p) /\ 1 \in 1..Len(p) /\ 2 \in 1..Len(p)
    BY <2>2, <2>3
  <2>5. CharAt(pattern, at + 1) = Escape /\ CharAt(pattern, at + 2) = c /\ c # Nul /\ Escape # Nul
    BY <2>3, <2>4, PatternAt
  <2>6. (at + 1) + 1 = at + 2 /\ (at + 1) + 2 = at + Len(p) + 1
    BY <2>3
  <2>7. AfterChar(pattern, at + 1, char) = IF char = c THEN {at + Len(p) + 1} ELSE {}
    <3>1. CharAt(pattern, (at + 1) + 1) = c
      BY <2>5, <2>6
    <3>2. AfterChar(pattern, at + 1, char) =
            IF char = CharAt(pattern, (at + 1) + 1) THEN {(at + 1) + 2} ELSE {}
      BY <2>5, <3>1, AfterCharBy, Zenon
    <3> QED BY <2>6, <3>1, <3>2
  <2>8. Escape # Star
    BY SignsDiffer
  <2> QED BY <1>3, <2>2, <2>5, <2>7, <2>8 DEF Lets
<1>5. CASE c \notin {Star, Query, Open, Escape}
  <2>1. Pattern(token) = <<>> \o token.chars
    BY <1>2, <1>5 DEF Pattern
  <2>2. PICK p \in Seq(Chars) : p = Pattern(token)
    BY PatternIs
  <2>3. Len(p) = 1 /\ p[1] = c
    BY <1>1, <1>2, <2>1, <2>2
  <2>4. LiesAt(pattern, at, p) /\ 1 \in 1..Len(p)
    BY <2>2, <2>3
  <2>5. CharAt(pattern, at + 1) = c /\ c # Nul
    BY <2>3, <2>4, PatternAt
  <2>6. (at + 1) + 1 = at + Len(p) + 1
    BY <2>3
  <2>7. AfterChar(pattern, at + 1, char) = IF char = c THEN {at + Len(p) + 1} ELSE {}
    <3>1. CharAt(pattern, at + 1) \notin {Query, Open, Escape}
      BY <1>5, <2>5
    <3>2. AfterChar(pattern, at + 1, char) = IF char = CharAt(pattern, at + 1) THEN {(at + 1) + 1} ELSE {}
      BY <3>1, AfterCharBy, Zenon
    <3> QED BY <2>5, <2>6, <3>2
  <2> QED BY <1>3, <1>5, <2>2, <2>5, <2>7 DEF Lets
<1> QED BY <1>4, <1>5

LEMMA SetPattern ==
  ASSUME NEW head \in Seq(Chars), NEW chars \in Seq(Chars)
  PROVE  LET p == head \o chars \o <<Close>>
         IN  /\ p \in Seq(Chars) /\ Len(p) = Len(head) + Len(chars) + 1 /\ p[Len(head) + Len(chars) + 1] = Close
             /\ \A k \in 1..Len(head) : p[k] = head[k]
             /\ \A k \in 1..Len(chars) : p[Len(head) + k] = chars[k]
<1>1. <<Close>> \in Seq(Chars)
  BY SignsDiffer
<1> QED BY <1>1

(* A set, or what is not in it, with the list of its characters.           *)
LEMMA ListLets ==
  ASSUME NEW pattern \in Seq(Nat), NEW at \in Nat, NEW token, WellFormed(token), token.kind \in {"set", "not"},
         LiesAt(pattern, at, Pattern(token)), NEW char
  PROVE  Lets(pattern, at, token, char)
<1> DEFINE chars == token.chars
           head == IF token.kind = "set" THEN <<Open>> ELSE <<Open, Caret>>
<1>1. /\ chars \in Seq(Chars) /\ chars # <<>> /\ \A k \in 2..Len(chars) : chars[k] \notin {Close, Dash}
      /\ token.kind = "set" => chars[1] # Caret
  BY DEF WellFormed
<1>2. Pattern(token) = head \o chars \o <<Close>>
  BY DEF Pattern
<1>3. head \in Seq(Chars) /\ head[1] = Open /\ Len(head) = (IF token.kind = "set" THEN 1 ELSE 2)
      /\ (token.kind = "not" => head[2] = Caret)
  BY SignsDiffer
<1>4. Takes(token, char) <=> (char \in Range(chars) <=> token.kind = "set")
  BY DEF Takes
<1> HIDE DEF head, chars
<1>5. PICK p \in Seq(Chars) : p = Pattern(token)
  BY PatternIs
<1>6. PICK m \in Nat, a \in Nat : m = Len(chars) /\ a = Len(head) /\ m >= 1 /\ a = (IF token.kind = "set" THEN 1 ELSE 2)
  BY <1>1, <1>3
<1>7. /\ Len(p) = a + m + 1 /\ p[a + m + 1] = Close /\ \A k \in 1..a : p[k] = head[k]
      /\ \A k \in 1..m : p[a + k] = chars[k]
  <2>1. LET q == head \o chars \o <<Close>>
        IN  /\ Len(q) = Len(head) + Len(chars) + 1 /\ q[Len(head) + Len(chars) + 1] = Close
            /\ \A k \in 1..Len(head) : q[k] = head[k]
            /\ \A k \in 1..Len(chars) : q[Len(head) + k] = chars[k]
    BY <1>1, <1>3, SetPattern
  <2> QED BY <1>2, <1>5, <1>6, <2>1
<1>8. \A k \in 1..(a + m + 1) : /\ at + k \in 1..Len(pattern) /\ pattern[at + k] = p[k]
                                /\ CharAt(pattern, at + k) = p[k] /\ p[k] # Nul
  BY <1>5, <1>7, PatternAt
<1>9. CharAt(pattern, at + 1) = Open /\ Open \notin {Nul, Star}
  <2>1. 1 \in 1..(a + m + 1) /\ 1 \in 1..a
    BY <1>6
  <2>2. CharAt(pattern, at + 1) = Open
    BY <1>3, <1>7, <1>8, <2>1
  <2> QED BY <2>2, SignsDiffer DEF Chars, Nul
<1>10. at + 1 \in 1..Len(pattern) /\ (at + 1) + 1 = at + 2 /\ (at + 1) + 2 = at + 3
  <2>1. 1 \in 1..(a + m + 1)
    OBVIOUS
  <2> QED BY <1>8, <2>1
<1>11. (Negated(pattern, at + 1) <=> token.kind = "not") /\ SetFrom(pattern, at + 1) = at + a + 1
  <2>1. 2 \in 1..(a + m + 1) /\ CharAt(pattern, at + 2) = p[2]
    BY <1>6, <1>8
  <2>2. CASE token.kind = "set"
    <3>1. 1 \in 1..m /\ a + 1 = 2
      BY <1>6, <2>2
    <3>2. p[2] = chars[1]
      BY <1>7, <3>1
    <3>3. CharAt(pattern, at + 2) # Caret
      BY <1>1, <2>1, <2>2, <3>2
    <3> QED BY <1>6, <1>10, <2>2, <3>3 DEF Negated, SetFrom
  <2>3. CASE token.kind = "not"
    <3>1. 2 \in 1..a
      BY <1>6, <2>3
    <3>2. p[2] = Caret
      BY <1>3, <1>7, <2>3, <3>1
    <3> QED BY <1>6, <1>10, <2>1, <2>3, <3>2 DEF Negated, SetFrom
  <2> QED BY <2>2, <2>3
<1>12. ClosedList(pattern, at + a + 1, chars)
  <2>1. ASSUME NEW k \in 1..m PROVE pattern[(at + a + 1) - 1 + k] = chars[k]
    <3>1. a + k \in 1..(a + m + 1) /\ (at + a + 1) - 1 + k = at + (a + k)
      OBVIOUS
    <3> QED BY <1>7, <1>8, <3>1
  <2>2. (at + a + 1) + m = at + (a + m + 1) /\ a + m + 1 \in 1..(a + m + 1)
    OBVIOUS
  <2>3. pattern[(at + a + 1) + m] = Close /\ (at + a + 1) + m <= Len(pattern)
    BY <1>7, <1>8, <2>2
  <2>4. at + a + 1 \in Nat \ {0}
    OBVIOUS
  <2> QED BY <1>1, <1>6, <2>1, <2>3, <2>4 DEF ClosedList
<1>13. AfterSet(pattern, at + 1, char) =
         IF char \in Range(chars) <=> Negated(pattern, at + 1) THEN {} ELSE {at + a + 1 + m + 1}
  <2>1. ClosedList(pattern, SetFrom(pattern, at + 1), chars)
    BY <1>11, <1>12
  <2>2. AfterSet(pattern, at + 1, char) = IF char \in Range(chars) <=> Negated(pattern, at + 1) THEN {}
                                          ELSE {SetFrom(pattern, at + 1) + Len(chars) + 1}
    BY <1>10, <2>1, AfterList
  <2> QED BY <1>6, <1>11, <2>2
<1>14. at + a + 1 + m + 1 = at + Len(p) + 1
  BY <1>7
<1>15. AfterChar(pattern, at + 1, char) = IF Takes(token, char) THEN {at + Len(p) + 1} ELSE {}
  <2>1. AfterChar(pattern, at + 1, char) = AfterSet(pattern, at + 1, char)
    BY <1>9, AfterCharBy
  <2>2. (char \in Range(chars) <=> Negated(pattern, at + 1)) <=> ~Takes(token, char)
    BY <1>4, <1>11
  <2> QED BY <1>13, <1>14, <2>1, <2>2
<1> QED BY <1>5, <1>9, <1>15 DEF Lets

LEMMA TokenLets ==
  ASSUME NEW pattern \in Seq(Nat), NEW at \in Nat, NEW token, WellFormed(token), token.kind # "any",
         LiesAt(pattern, at, Pattern(token)), NEW char
  PROVE  Lets(pattern, at, token, char)
<1>1. PICK p \in Seq(Chars) : p = Pattern(token)
  BY PatternIs
<1>2. CASE token.kind = "one"
  <2>1. p = <<Query>> /\ Query \notin {Star, Nul}
    BY <1>1, <1>2, SignsDiffer DEF Pattern, Chars, Nul
  <2>2. Len(p) = 1 /\ p[1] = Query /\ LiesAt(pattern, at, p) /\ 1 \in 1..Len(p)
    BY <1>1, <2>1
  <2>3. CharAt(pattern, at + 1) = Query
    BY <2>2, PatternAt
  <2>4. AfterChar(pattern, at + 1, char) = {(at + 1) + 1} /\ (at + 1) + 1 = at + Len(p) + 1
    BY <2>2, <2>3, AfterCharBy
  <2>5. Takes(token, char)
    BY <1>2 DEF Takes
  <2> QED BY <1>1, <2>1, <2>3, <2>4, <2>5 DEF Lets
<1>3. CASE token.kind = "range"
  <2>1. /\ token.chars \in Seq(Chars) /\ Len(token.chars) = 2 /\ token.chars[1] # Caret
        /\ token.chars[2] # Close /\ token.chars[1] <= token.chars[2]
    BY <1>3 DEF WellFormed
  <2>2. PICK low \in Chars, high \in Chars : low = token.chars[1] /\ high = token.chars[2]
    BY <2>1
  <2>3. p = <<Open, low, Dash, high, Close>>
    BY <1>1, <1>3, <2>2 DEF Pattern
  <2>4. /\ Len(p) = 5 /\ p[1] = Open /\ p[2] = low /\ p[3] = Dash /\ p[4] = high /\ p[5] = Close
        /\ LiesAt(pattern, at, p)
    BY <1>1, <2>3
  <2>5. \A k \in 1..5 : at + k \in 1..Len(pattern) /\ pattern[at + k] = p[k] /\ CharAt(pattern, at + k) = p[k]
    BY <2>4, PatternAt, ZenonT(30)
  <2>6. PICK j \in 1..Len(pattern) : j = at + 1
    BY <2>5
  <2>7. /\ j + 4 <= Len(pattern) /\ pattern[j + 1] = low /\ pattern[j + 2] = Dash /\ pattern[j + 3] = high
        /\ pattern[j + 4] = Close /\ CharAt(pattern, j) = Open
    <3>1. j + 1 = at + 2 /\ j + 2 = at + 3 /\ j + 3 = at + 4 /\ j + 4 = at + 5
      BY <2>6
    <3> QED BY <2>4, <2>5, <2>6, <3>1
  <2>8. /\ low \in Nat /\ high \in Nat /\ low \notin {Nul, Caret} /\ high \notin {Nul, Close} /\ low <= high
        /\ Open \notin {Star, Nul}
    BY <2>1, <2>2, SignsDiffer DEF Chars, Nul
  <2>9. AfterSet(pattern, j, char) = IF char \in low..high THEN {j + 5} ELSE {}
    BY <2>7, <2>8, AfterRange
  <2>10. Takes(token, char) <=> char \in low..high
    BY <1>3, <2>2 DEF Takes
  <2>11. AfterChar(pattern, j, char) = AfterSet(pattern, j, char) /\ j + 5 = at + Len(p) + 1
    BY <2>4, <2>6, <2>7, AfterCharBy
  <2> QED BY <1>1, <2>6, <2>7, <2>8, <2>9, <2>10, <2>11 DEF Lets
<1> QED BY <1>2, <1>3, CharLets, ListLets DEF WellFormed

(* Stars.                                                                  *)
LEMMA StarsAre ==
  ASSUME NEW pattern \in Seq(Nat), NEW j \in 1..Len(pattern), NEW k \in (j + 1)..(Len(pattern) + 1),
         CharAt(pattern, k) # Star, \A l \in j..(k - 1) : CharAt(pattern, l) = Star
  PROVE  AfterStars(pattern, j) = k
<1> DEFINE Q(m) == CharAt(pattern, m) # Star /\ \A l \in j..(m - 1) : CharAt(pattern, l) = Star
<1>1. ASSUME NEW m \in (j + 1)..(Len(pattern) + 1), Q(m) PROVE m = k
  <2>1. ~(m < k)
    <3> SUFFICES ASSUME m < k PROVE FALSE
      OBVIOUS
    <3>1. m \in j..(k - 1)
      OBVIOUS
    <3> QED BY <1>1, <3>1
  <2>2. ~(k < m)
    <3> SUFFICES ASSUME k < m PROVE FALSE
      OBVIOUS
    <3>1. k \in j..(m - 1)
      OBVIOUS
    <3> QED BY <1>1, <3>1
  <2> QED BY <2>1, <2>2
<1>2. Q(k)
  OBVIOUS
<1>3. AfterStars(pattern, j) = CHOOSE m \in (j + 1)..(Len(pattern) + 1) : Q(m)
  BY Zenon DEF AfterStars
<1> HIDE DEF Q
<1> QED BY <1>1, <1>2, <1>3

LEMMA StarsEnd ==
  ASSUME NEW pattern \in Seq(Nat), NEW j \in 1..Len(pattern), CharAt(pattern, j) = Star
  PROVE  /\ AfterStars(pattern, j) \in (j + 1)..(Len(pattern) + 1)
         /\ CharAt(pattern, j + 1) # Star => AfterStars(pattern, j) = j + 1
         /\ CharAt(pattern, j + 1) = Star => /\ j + 1 \in 1..Len(pattern)
                                             /\ AfterStars(pattern, j) = AfterStars(pattern, j + 1)
<1>1. PICK L \in Nat : L = Len(pattern)
  OBVIOUS
<1> DEFINE S == {k \in (j + 1)..(L + 1) : CharAt(pattern, k) # Star}
<1>2. Star # Nul
  BY SignsDiffer DEF Chars, Nul
<1>3. L + 1 \in S
  BY <1>1, <1>2 DEF CharAt
<1>4. S \in SUBSET Nat
  OBVIOUS
<1>5. PICK k \in S : \A l \in S : k <= l
  <2> HIDE DEF S
  <2> QED BY <1>3, <1>4, LeastNumber
<1>6. ASSUME NEW l \in j..(k - 1) PROVE CharAt(pattern, l) = Star
  <2>1. CASE l = j
    BY <2>1
  <2>2. CASE l # j
    <3>1. l \in (j + 1)..(L + 1) /\ l < k
      BY <2>2
    <3> QED BY <1>5, <3>1
  <2> QED BY <2>1, <2>2
<1>7. k \in (j + 1)..(L + 1) /\ CharAt(pattern, k) # Star
  OBVIOUS
<1>8. AfterStars(pattern, j) = k
  <2> HIDE DEF S
  <2> QED BY <1>1, <1>6, <1>7, StarsAre
<1>9. ASSUME CharAt(pattern, j + 1) # Star PROVE k = j + 1
  <2>1. j + 1 \in S
    BY <1>1, <1>9
  <2> QED BY <1>5, <1>7, <2>1
<1>10. ASSUME CharAt(pattern, j + 1) = Star
       PROVE  j + 1 \in 1..Len(pattern) /\ AfterStars(pattern, j + 1) = k
  <2>1. j + 1 \in 1..Len(pattern)
    <3>1. j + 1 \in Nat \ {0}
      OBVIOUS
    <3> QED BY <1>2, <1>10, <3>1, CharIs
  <2>2. k \in ((j + 1) + 1)..(L + 1) /\ \A l \in (j + 1)..(k - 1) : l \in j..(k - 1)
    BY <1>7, <1>10
  <2> HIDE DEF S
  <2> QED BY <1>1, <1>6, <1>7, <2>1, <2>2, StarsAre
<1> QED BY <1>1, <1>7, <1>8, <1>9, <1>10

(* The recursion of the matcher, from the end of the pattern on.           *)
MatchRow(string, pattern, match, j) ==
  [i \in 1..(Len(string) + 1) |->
     LET stars == AfterStars(pattern, j)
     IN  IF CharAt(pattern, j) = Star
         THEN CharAt(pattern, stars) = Nul \/ \E n \in i..Len(string) : match[stars][n]
         ELSE IF Nul \in {CharAt(string, i), CharAt(pattern, j)} THEN CharAt(string, i) = CharAt(pattern, j)
         ELSE \E next \in AfterChar(pattern, j, CharAt(string, i)) : match[next][i + 1]]

MatchOf(string, pattern, match) == [j \in 1..(Len(pattern) + 1) |-> MatchRow(string, pattern, match, j)]

LEMMA RowsAlike ==
  ASSUME NEW string, NEW pattern \in Seq(Nat), NEW v, NEW w, NEW j \in 1..(Len(pattern) + 1),
         \A k \in (j + 1)..(Len(pattern) + 1) : v[k] = w[k]
  PROVE  MatchRow(string, pattern, v, j) = MatchRow(string, pattern, w, j)
<1> DEFINE stars == AfterStars(pattern, j)
           Cell(u, i) == IF CharAt(pattern, j) = Star
                         THEN CharAt(pattern, stars) = Nul \/ \E n \in i..Len(string) : u[stars][n]
                         ELSE IF Nul \in {CharAt(string, i), CharAt(pattern, j)}
                         THEN CharAt(string, i) = CharAt(pattern, j)
                         ELSE \E next \in AfterChar(pattern, j, CharAt(string, i)) : u[next][i + 1]
<1>1. MatchRow(string, pattern, v, j) = [i \in 1..(Len(string) + 1) |-> Cell(v, i)]
  BY Zenon DEF MatchRow
<1>2. MatchRow(string, pattern, w, j) = [i \in 1..(Len(string) + 1) |-> Cell(w, i)]
  BY Zenon DEF MatchRow
<1>3. CharAt(pattern, j) # Nul => j \in 1..Len(pattern)
  <2>1. j \in Nat \ {0}
    OBVIOUS
  <2> QED BY <2>1, CharIs
<1>4. ASSUME CharAt(pattern, j) = Star PROVE v[stars] = w[stars]
  <2>1. Star # Nul
    BY SignsDiffer DEF Chars, Nul
  <2>2. stars \in (j + 1)..(Len(pattern) + 1)
    BY <1>3, <1>4, <2>1, StarsEnd
  <2> QED BY <2>2
<1> HIDE DEF stars
<1>5. ASSUME NEW i PROVE Cell(v, i) = Cell(w, i)
  <2>1. CASE CharAt(pattern, j) = Star
    BY <1>4, <2>1, Zenon
  <2>2. CASE CharAt(pattern, j) # Star /\ Nul \in {CharAt(string, i), CharAt(pattern, j)}
    BY <2>2, Zenon
  <2>3. CASE CharAt(pattern, j) # Star /\ Nul \notin {CharAt(string, i), CharAt(pattern, j)}
    <3>1. AfterChar(pattern, j, CharAt(string, i)) \subseteq (j + 1)..(Len(pattern) + 1)
      BY <1>3, <2>3, AfterCharIn
    <3>2. \A next \in AfterChar(pattern, j, CharAt(string, i)) : v[next] = w[next]
      BY <3>1
    <3>3. (\E next \in AfterChar(pattern, j, CharAt(string, i)) : v[next][i + 1])
            = (\E next \in AfterChar(pattern, j, CharAt(string, i)) : w[next][i + 1])
      BY <3>2, Zenon
    <3> QED BY <2>3, <3>3, Zenon
  <2> QED BY <2>1, <2>2, <2>3, Zenon
<1> HIDE DEF Cell
<1> QED BY <1>1, <1>2, <1>5, Zenon

LEMMA MatchExists ==
  ASSUME NEW string, NEW pattern \in Seq(Nat)
  PROVE  \E match : match = MatchOf(string, pattern, match)
<1>1. PICK n \in Nat : n = Len(pattern) + 1
  OBVIOUS
<1> DEFINE Good(v, d) == v = [j \in 1..n |-> v[j]] /\ \A j \in 1..n : j > n - d => v[j] = MatchRow(string, pattern, v, j)
           T == {d \in Nat : d <= n => \E v : Good(v, d)}
<1>2. 0 \in T
  <2> DEFINE v == [j \in 1..n |-> 0]
  <2>1. v = [j \in 1..n |-> v[j]]
    BY Zenon
  <2>2. \A j \in 1..n : ~(j > n - 0)
    OBVIOUS
  <2> HIDE DEF v
  <2>3. Good(v, 0)
    BY <2>1, <2>2
  <2> QED BY <2>3
<1>3. ASSUME NEW d \in T PROVE d + 1 \in T
  <2> SUFFICES ASSUME d + 1 <= n PROVE \E v : Good(v, d + 1)
    OBVIOUS
  <2>1. PICK v : Good(v, d)
    OBVIOUS
  <2>2. PICK k \in 1..n : k = n - d
    OBVIOUS
  <2> DEFINE w == [j \in 1..n |-> IF j = k THEN MatchRow(string, pattern, v, k) ELSE v[j]]
  <2>3. w = [j \in 1..n |-> w[j]] /\ w[k] = MatchRow(string, pattern, v, k) /\ \A j \in 1..n : j # k => w[j] = v[j]
    BY Zenon
  <2> HIDE DEF w
  <2>4. ASSUME NEW j \in 1..n, j > n - (d + 1) PROVE w[j] = MatchRow(string, pattern, w, j)
    <3>1. j >= k
      BY <2>2, <2>4
    <3>2. \A l \in (j + 1)..n : v[l] = w[l]
      BY <2>3, <3>1
    <3>3. MatchRow(string, pattern, v, j) = MatchRow(string, pattern, w, j)
      BY <1>1, <3>2, RowsAlike
    <3>4. CASE j = k
      BY <2>3, <3>3, <3>4
    <3>5. CASE j # k
      <4>1. j > n - d
        BY <2>2, <3>1, <3>5
      <4>2. v[j] = MatchRow(string, pattern, v, j)
        BY <2>1, <4>1
      <4> QED BY <2>3, <3>3, <3>5, <4>2
    <3> QED BY <3>4, <3>5
  <2>5. Good(w, d + 1)
    BY <2>3, <2>4
  <2> QED BY <2>5
<1> HIDE DEF T
<1>4. n \in T
  <2>1. T \in SUBSET Nat
    BY DEF T
  <2> QED BY <1>2, <1>3, <2>1, Induction
<1>5. PICK v : Good(v, n)
  BY <1>4 DEF T
<1>6. \A j \in 1..n : v[j] = MatchRow(string, pattern, v, j)
  <2>1. \A j \in 1..n : j > n - n
    OBVIOUS
  <2> QED BY <1>5, <2>1
<1>7. v = [j \in 1..n |-> v[j]]
  BY <1>5
<1> HIDE DEF Good
<1>8. v = [j \in 1..n |-> MatchRow(string, pattern, v, j)]
  BY <1>6, <1>7, Zenon
<1>9. v = MatchOf(string, pattern, v)
  BY <1>1, <1>8 DEF MatchOf
<1> QED BY <1>9

LEMMA MatchIs ==
  ASSUME NEW string, NEW pattern \in Seq(Nat)
  PROVE  \E match : /\ \A j \in 1..(Len(pattern) + 1) : match[j] = MatchRow(string, pattern, match, j)
                    /\ GlobMatch(string, pattern) = match[1][1]
<1> DEFINE match == CHOOSE v : v = MatchOf(string, pattern, v)
<1>1. match = MatchOf(string, pattern, match)
  BY MatchExists, Zenon
<1>2. GlobMatch(string, pattern) = match[1][1]
  BY Zenon DEF GlobMatch, MatchOf, MatchRow
<1> HIDE DEF match
<1>3. \A j \in 1..(Len(pattern) + 1) : match[j] = MatchRow(string, pattern, match, j)
  <2>1. \A j \in 1..(Len(pattern) + 1) : MatchOf(string, pattern, match)[j] = MatchRow(string, pattern, match, j)
    BY Zenon DEF MatchOf
  <2> QED BY <1>1, <2>1, Zenon
<1> QED BY <1>2, <1>3

(* The string from its i-th place on, cut at the tokens from the t-th on.  *)
CutAt(tokens, string, t, i, cut) ==
  /\ cut \in [t..Len(tokens) -> 0..Len(string)] /\ cut[t] = i - 1 /\ cut[Len(tokens)] = Len(string)
  /\ \A m \in (t + 1)..Len(tokens) :
       cut[m - 1] <= cut[m] /\ Covers(tokens[m], SubSeq(string, cut[m - 1] + 1, cut[m]))

CanCut(tokens, string, t, i) == \E cut : CutAt(tokens, string, t, i, cut)

LEMMA CutFirst ==
  ASSUME NEW tokens, NEW string, Len(tokens) \in Nat, Len(string) \in Nat, NEW t \in 1..Len(tokens),
         NEW i \in 1..(Len(string) + 1)
  PROVE  CanCut(tokens, string, t - 1, i) <=>
           \E e \in (i - 1)..Len(string) : Covers(tokens[t], SubSeq(string, i, e)) /\ CanCut(tokens, string, t, e + 1)
<1>1. PICK n \in Nat, S \in Nat : n = Len(tokens) /\ S = Len(string)
  OBVIOUS
<1>2. (t - 1) + 1 = t /\ t - 1 \in (t - 1)..n /\ \A m \in t..n : m \in (t - 1)..n
  BY <1>1
<1>3. ASSUME NEW cut, CutAt(tokens, string, t - 1, i, cut)
      PROVE  \E e \in (i - 1)..S : Covers(tokens[t], SubSeq(string, i, e)) /\ CanCut(tokens, string, t, e + 1)
  <2>1. /\ cut \in [(t - 1)..n -> 0..S] /\ cut[t - 1] = i - 1 /\ cut[n] = S
        /\ \A m \in t..n : cut[m - 1] <= cut[m] /\ Covers(tokens[m], SubSeq(string, cut[m - 1] + 1, cut[m]))
    BY <1>1, <1>2, <1>3 DEF CutAt
  <2>2. PICK e \in 0..S : e = cut[t]
    BY <1>1, <1>2, <2>1
  <2>3. t \in t..n /\ (i - 1) + 1 = i
    BY <1>1
  <2>4. cut[t - 1] <= e /\ Covers(tokens[t], SubSeq(string, cut[t - 1] + 1, e))
    BY <2>1, <2>2, <2>3
  <2>5. e \in (i - 1)..S /\ Covers(tokens[t], SubSeq(string, i, e))
    BY <1>1, <2>1, <2>2, <2>3, <2>4
  <2> DEFINE rest == [m \in t..n |-> cut[m]]
  <2>6. rest \in [t..n -> 0..S] /\ \A m \in t..n : rest[m] = cut[m]
    BY <1>2, <2>1
  <2> HIDE DEF rest
  <2>7. rest[t] = (e + 1) - 1 /\ rest[n] = S
    <3>1. n \in t..n
      BY <1>1
    <3> QED BY <1>1, <2>1, <2>2, <2>3, <2>6, <3>1
  <2>8. ASSUME NEW m \in (t + 1)..n
        PROVE  rest[m - 1] <= rest[m] /\ Covers(tokens[m], SubSeq(string, rest[m - 1] + 1, rest[m]))
    <3>1. m \in t..n /\ m - 1 \in t..n
      BY <1>1
    <3> QED BY <2>1, <2>6, <3>1
  <2>9. CutAt(tokens, string, t, e + 1, rest)
    BY <1>1, <2>6, <2>7, <2>8 DEF CutAt
  <2> QED BY <2>5, <2>9 DEF CanCut
<1>4. ASSUME NEW e \in (i - 1)..S, Covers(tokens[t], SubSeq(string, i, e)), NEW rest, CutAt(tokens, string, t, e + 1, rest)
      PROVE  CanCut(tokens, string, t - 1, i)
  <2>1. /\ rest \in [t..n -> 0..S] /\ rest[t] = (e + 1) - 1 /\ rest[n] = S
        /\ \A m \in (t + 1)..n : /\ rest[m - 1] <= rest[m]
                                 /\ Covers(tokens[m], SubSeq(string, rest[m - 1] + 1, rest[m]))
    BY <1>1, <1>4 DEF CutAt
  <2> DEFINE cut == [m \in (t - 1)..n |-> IF m = t - 1 THEN i - 1 ELSE rest[m]]
  <2>2. i - 1 \in 0..S /\ \A m \in (t - 1)..n : m # t - 1 => m \in t..n
    BY <1>1
  <2>3. cut \in [(t - 1)..n -> 0..S] /\ cut[t - 1] = i - 1 /\ \A m \in t..n : cut[m] = rest[m]
    <3>1. \A m \in t..n : m # t - 1
      BY <1>1
    <3> QED BY <1>2, <2>1, <2>2, <3>1
  <2> HIDE DEF cut
  <2>4. n \in t..n /\ t \in t..n
    BY <1>1
  <2>5. rest[t] = e
    BY <1>1, <2>1
  <2>6. ASSUME NEW m \in ((t - 1) + 1)..n
        PROVE  cut[m - 1] <= cut[m] /\ Covers(tokens[m], SubSeq(string, cut[m - 1] + 1, cut[m]))
    <3>1. CASE m = t
      <4>1. cut[m] = e /\ cut[m - 1] = i - 1 /\ (i - 1) + 1 = i /\ i - 1 <= e
        BY <1>1, <2>3, <2>4, <2>5, <3>1
      <4> QED BY <1>4, <3>1, <4>1
    <3>2. CASE m # t
      <4>1. m \in (t + 1)..n /\ m \in t..n /\ m - 1 \in t..n
        BY <1>1, <1>2, <3>2
      <4> QED BY <2>1, <2>3, <4>1
    <3> QED BY <3>1, <3>2
  <2>7. CutAt(tokens, string, t - 1, i, cut)
    BY <1>1, <2>1, <2>3, <2>4, <2>6 DEF CutAt
  <2> QED BY <2>7 DEF CanCut
<1> QED BY <1>1, <1>3, <1>4 DEF CanCut

LEMMA CutLast ==
  ASSUME NEW tokens, NEW string, Len(tokens) \in Nat, Len(string) \in Nat, NEW i \in 1..(Len(string) + 1)
  PROVE  CanCut(tokens, string, Len(tokens), i) <=> i = Len(string) + 1
<1>1. PICK n \in Nat, S \in Nat : n = Len(tokens) /\ S = Len(string)
  OBVIOUS
<1>2. CanCut(tokens, string, n, i) => i = S + 1
  BY <1>1 DEF CanCut, CutAt
<1>3. ASSUME i = S + 1 PROVE CanCut(tokens, string, n, i)
  <2> DEFINE cut == [m \in n..n |-> S]
  <2>1. cut \in [n..n -> 0..S] /\ cut[n] = S /\ S = i - 1 /\ \A m \in (n + 1)..n : FALSE
    BY <1>3
  <2> HIDE DEF cut
  <2>2. CutAt(tokens, string, n, i, cut)
    BY <1>1, <2>1 DEF CutAt
  <2> QED BY <2>2 DEF CanCut
<1> QED BY <1>1, <1>2, <1>3

(* A star lets any part pass, another token one character that it takes.   *)
LEMMA CutAny ==
  ASSUME NEW tokens, NEW string, Len(tokens) \in Nat, Len(string) \in Nat, NEW t \in 1..Len(tokens),
         NEW i \in 1..(Len(string) + 1), tokens[t].kind = "any"
  PROVE  CanCut(tokens, string, t - 1, i) <=> \E k \in i..(Len(string) + 1) : CanCut(tokens, string, t, k)
<1>1. CanCut(tokens, string, t - 1, i) <=> \E e \in (i - 1)..Len(string) : CanCut(tokens, string, t, e + 1)
  BY CutFirst DEF Covers
<1>2. ASSUME NEW e \in (i - 1)..Len(string) PROVE e + 1 \in i..(Len(string) + 1)
  OBVIOUS
<1>3. ASSUME NEW k \in i..(Len(string) + 1) PROVE k - 1 \in (i - 1)..Len(string) /\ (k - 1) + 1 = k
  OBVIOUS
<1> QED BY <1>1, <1>2, <1>3

LEMMA CutOne ==
  ASSUME NEW tokens, NEW string \in Seq(Chars), Len(tokens) \in Nat, NEW t \in 1..Len(tokens),
         NEW i \in 1..(Len(string) + 1), tokens[t].kind # "any"
  PROVE  CanCut(tokens, string, t - 1, i) <=>
           i <= Len(string) /\ Takes(tokens[t], string[i]) /\ CanCut(tokens, string, t, i + 1)
<1>1. Len(string) \in Nat
  OBVIOUS
<1>2. ASSUME NEW e \in (i - 1)..Len(string)
      PROVE  Covers(tokens[t], SubSeq(string, i, e)) <=> e = i /\ Takes(tokens[t], string[i])
  <2>1. Len(SubSeq(string, i, e)) = e - i + 1
    BY <1>1
  <2>2. e = i => SubSeq(string, i, e)[1] = string[i]
    BY <1>1
  <2>3. Covers(tokens[t], SubSeq(string, i, e)) <=>
          Len(SubSeq(string, i, e)) = 1 /\ Takes(tokens[t], SubSeq(string, i, e)[1])
    BY DEF Covers
  <2>4. e - i + 1 = 1 <=> e = i
    BY <1>1
  <2> QED BY <2>1, <2>2, <2>3, <2>4
<1>3. CanCut(tokens, string, t - 1, i) <=>
        \E e \in (i - 1)..Len(string) : Covers(tokens[t], SubSeq(string, i, e)) /\ CanCut(tokens, string, t, e + 1)
  BY <1>1, CutFirst
<1>4. i <= Len(string) <=> i \in (i - 1)..Len(string)
  BY <1>1
<1> QED BY <1>2, <1>3, <1>4

(* What a row of the matcher is, where it is the one of a token.           *)
LEMMA RowOne ==
  ASSUME NEW pattern \in Seq(Nat), NEW string \in Seq(Chars), NEW match, NEW at \in Nat, NEW token, WellFormed(token),
         token.kind # "any", LiesAt(pattern, at, Pattern(token)), NEW i \in 1..(Len(string) + 1)
  PROVE  MatchRow(string, pattern, match, at + 1)[i] <=>
           i <= Len(string) /\ Takes(token, string[i]) /\ match[at + Len(Pattern(token)) + 1][i + 1]
<1> DEFINE c == CharAt(string, i)
           end == at + Len(Pattern(token)) + 1
<1>1. /\ CharAt(pattern, at + 1) \notin {Star, Nul}
      /\ AfterChar(pattern, at + 1, c) = IF Takes(token, c) THEN {end} ELSE {}
  BY TokenLets DEF Lets
<1>2. IF i <= Len(string) THEN c = string[i] /\ c # Nul ELSE c = Nul
  <2>1. i <= Len(string) => string[i] \in Chars
    OBVIOUS
  <2> QED BY <2>1 DEF CharAt, Chars, Nul
<1> HIDE DEF c, end
<1>3. MatchRow(string, pattern, match, at + 1)[i] =
        IF Nul \in {c, CharAt(pattern, at + 1)} THEN c = CharAt(pattern, at + 1)
        ELSE \E next \in AfterChar(pattern, at + 1, c) : match[next][i + 1]
  BY <1>1, Zenon DEF MatchRow, c
<1>4. CASE i <= Len(string)
  <2>1. MatchRow(string, pattern, match, at + 1)[i] = (\E next \in AfterChar(pattern, at + 1, c) : match[next][i + 1])
    BY <1>1, <1>2, <1>3, <1>4, Zenon
  <2>2. (\E next \in AfterChar(pattern, at + 1, c) : match[next][i + 1]) <=> Takes(token, c) /\ match[end][i + 1]
    BY <1>1, Zenon
  <2> QED BY <1>2, <1>4, <2>1, <2>2, Zenon DEF end
<1>5. CASE ~(i <= Len(string))
  <2>1. ~MatchRow(string, pattern, match, at + 1)[i]
    BY <1>1, <1>2, <1>3, <1>5, Zenon
  <2> QED BY <1>5, <2>1, Zenon
<1> QED BY <1>4, <1>5, Zenon

LEMMA RowAny ==
  ASSUME NEW pattern \in Seq(Nat), NEW string, NEW match, NEW j \in 1..Len(pattern),
         CharAt(pattern, j) = Star, NEW i \in 1..(Len(string) + 1)
  PROVE  MatchRow(string, pattern, match, j)[i] =
           (CharAt(pattern, AfterStars(pattern, j)) = Nul \/ \E n \in i..Len(string) : match[AfterStars(pattern, j)][n])
BY Zenon DEF MatchRow

(* From each token on the matcher finds what can be cut.                   *)
MatchCuts(tokens, string, match, B, t) ==
  \A i \in 1..(Len(string) + 1) : match[B[t] + 1][i] <=> CanCut(tokens, string, t, i)

LEMMA AnyCuts ==
  ASSUME NEW G, NEW tokens \in Seq(G), AllFormed(tokens), NEW string \in Seq(Chars), NEW pattern, NEW B,
         Lies(tokens, pattern, B), NEW match,
         \A j \in 1..(Len(pattern) + 1) : match[j] = MatchRow(string, pattern, match, j),
         NEW t \in 1..Len(tokens), tokens[t].kind = "any", MatchCuts(tokens, string, match, B, t),
         NEW i \in 1..(Len(string) + 1)
  PROVE  match[B[t - 1] + 1][i] <=> CanCut(tokens, string, t - 1, i)
<1>1. PICK n \in Nat, S \in Nat, L \in Nat : n = Len(tokens) /\ S = Len(string) /\ L = Len(pattern)
  BY DEF Lies
<1>2. pattern \in Seq(Nat)
  BY DEF Lies, Chars
<1>3. t - 1 \in 0..n /\ t \in 0..n
  BY <1>1
<1>4. PICK at \in Nat : at = B[t - 1]
  BY <1>1, <1>3 DEF Lies
<1>5. Pattern(tokens[t]) = <<Star>> /\ Len(<<Star>>) = 1 /\ <<Star>>[1] = Star
  BY DEF Pattern
<1>6. B[t] = at + 1 /\ at + 1 \in 1..L /\ CharAt(pattern, at + 1) = Star
  <2>1. B[t] = at + 1 /\ LiesAt(pattern, at, <<Star>>)
    BY <1>1, <1>4, <1>5 DEF Lies
  <2>2. <<Star>> \in Seq(Chars) /\ 1 \in 1..Len(<<Star>>)
    BY SignsDiffer
  <2>3. at + 1 \in 1..L /\ CharAt(pattern, at + 1) = <<Star>>[1]
    BY <1>1, <1>2, <2>1, <2>2, PatternAt
  <2> QED BY <1>5, <2>1, <2>3
<1>7. PICK j \in 1..L : j = at + 1 /\ B[t] = j /\ CharAt(pattern, j) = Star /\ j \in Nat
  BY <1>6
<1> DEFINE Going(s, k) == CharAt(pattern, s) = Nul \/ \E m \in k..S : match[s][m]
<1>8. \A k \in 1..(S + 1) : match[j][k] <=> Going(AfterStars(pattern, j), k)
  <2>1. match[j] = MatchRow(string, pattern, match, j)
    BY <1>1, <1>7
  <2>2. \A k \in 1..(S + 1) : MatchRow(string, pattern, match, j)[k] = Going(AfterStars(pattern, j), k)
    BY <1>1, <1>2, <1>7, RowAny, ZenonT(30)
  <2> HIDE DEF Going
  <2> QED BY <2>1, <2>2, Zenon
<1>9. CanCut(tokens, string, t - 1, i) <=> \E k \in i..(S + 1) : CanCut(tokens, string, t, k)
  BY <1>1, CutAny
<1>10. \A k \in 1..(S + 1) : match[j + 1][k] <=> CanCut(tokens, string, t, k)
  BY <1>1, <1>7 DEF MatchCuts
<1>11. CASE CharAt(pattern, j + 1) # Star
  <2>1. AfterStars(pattern, j) = j + 1
    BY <1>1, <1>2, <1>7, <1>11, StarsEnd
  <2>2. match[j][i] <=> Going(j + 1, i)
    BY <1>1, <1>8, <2>1
  <2>3. \A m \in i..S : m \in 1..(S + 1)
    BY <1>1
  <2>4. Going(j + 1, i) <=> CharAt(pattern, j + 1) = Nul \/ \E m \in i..S : CanCut(tokens, string, t, m)
    BY <1>10, <2>3
  <2>5. CASE t = n
    <3>1. j = L
      BY <1>1, <1>7, <2>5 DEF Lies
    <3>2. CharAt(pattern, j + 1) = Nul
      BY <1>1, <3>1 DEF CharAt
    <3>3. CanCut(tokens, string, t, S + 1)
      BY <1>1, <2>5, CutLast
    <3>4. S + 1 \in i..(S + 1)
      BY <1>1
    <3> QED BY <1>4, <1>7, <1>9, <2>2, <2>4, <3>2, <3>3, <3>4
  <2>6. CASE t # n
    <3>1. t + 1 \in 1..Len(tokens) /\ (t + 1) - 1 = t
      BY <1>1, <2>6
    <3>2. WellFormed(tokens[t + 1]) /\ LiesAt(pattern, j, Pattern(tokens[t + 1]))
      BY <1>7, <3>1 DEF Lies, AllFormed
    <3>3. tokens[t + 1].kind # "any"
      <4> SUFFICES ASSUME tokens[t + 1].kind = "any" PROVE FALSE
        OBVIOUS
      <4>1. Pattern(tokens[t + 1]) = <<Star>>
        BY DEF Pattern
      <4>2. <<Star>> \in Seq(Chars) /\ 1 \in 1..Len(<<Star>>) /\ LiesAt(pattern, j, <<Star>>)
        BY <3>2, <4>1, SignsDiffer
      <4>3. CharAt(pattern, j + 1) = <<Star>>[1]
        BY <1>2, <1>7, <4>2, PatternAt
      <4> QED BY <1>5, <1>11, <4>3
    <3>4. CharAt(pattern, j + 1) # Nul
      BY <1>2, <1>7, <3>2, <3>3, TokenLets DEF Lets
    <3>5. ~CanCut(tokens, string, t, S + 1)
      <4>1. S + 1 \in 1..(Len(string) + 1) /\ ~(S + 1 <= Len(string))
        BY <1>1
      <4>2. CanCut(tokens, string, (t + 1) - 1, S + 1) => S + 1 <= Len(string)
        BY <1>1, <3>1, <3>3, <4>1, CutOne
      <4> QED BY <3>1, <4>1, <4>2
    <3>6. \A k \in i..(S + 1) : k \in i..S \/ k = S + 1
      BY <1>1
    <3>7. \A k \in i..S : k \in i..(S + 1)
      BY <1>1
    <3> QED BY <1>4, <1>7, <1>9, <2>2, <2>4, <3>4, <3>5, <3>6, <3>7
  <2> QED BY <2>5, <2>6
<1>12. CASE CharAt(pattern, j + 1) = Star
  <2>1. j + 1 \in 1..L /\ AfterStars(pattern, j) = AfterStars(pattern, j + 1)
    BY <1>1, <1>2, <1>7, <1>12, StarsEnd
  <2>2. match[j + 1] = MatchRow(string, pattern, match, j + 1)
    BY <1>1, <2>1
  <2>3. match[j][i] <=> match[j + 1][i]
    <3>1. MatchRow(string, pattern, match, j + 1)[i] = Going(AfterStars(pattern, j + 1), i)
      BY <1>1, <1>2, <1>12, <2>1, RowAny
    <3> HIDE DEF Going
    <3> QED BY <1>1, <1>8, <2>1, <2>2, <3>1, Zenon
  <2>4. t + 1 \in 1..Len(tokens) /\ (t + 1) - 1 = t
    <3>1. t # n
      BY <1>1, <1>7, <2>1 DEF Lies
    <3> QED BY <1>1, <3>1
  <2>5. tokens[t + 1].kind = "any"
    <3> SUFFICES ASSUME tokens[t + 1].kind # "any" PROVE FALSE
      OBVIOUS
    <3>1. WellFormed(tokens[t + 1]) /\ LiesAt(pattern, j, Pattern(tokens[t + 1]))
      BY <1>7, <2>4 DEF Lies, AllFormed
    <3>2. CharAt(pattern, j + 1) # Star
      BY <1>2, <1>7, <3>1, TokenLets DEF Lets
    <3> QED BY <1>12, <3>2
  <2>6. \A k \in 1..(S + 1) : CanCut(tokens, string, t, k) <=> \E l \in k..(S + 1) : CanCut(tokens, string, t + 1, l)
    BY <1>1, <2>4, <2>5, CutAny
  <2>7. (\E k \in i..(S + 1) : CanCut(tokens, string, t, k)) <=> CanCut(tokens, string, t, i)
    <3>1. \A k \in i..(S + 1) : k \in 1..(S + 1) /\ \A l \in k..(S + 1) : l \in i..(S + 1)
      BY <1>1
    <3>2. i \in i..(S + 1)
      BY <1>1
    <3> QED BY <1>1, <2>6, <3>1, <3>2
  <2> QED BY <1>1, <1>4, <1>7, <1>9, <1>10, <2>3, <2>7
<1> QED BY <1>11, <1>12

LEMMA TokenCuts ==
  ASSUME NEW G, NEW tokens \in Seq(G), AllFormed(tokens), NEW string \in Seq(Chars), NEW pattern, NEW B,
         Lies(tokens, pattern, B), NEW match,
         \A j \in 1..(Len(pattern) + 1) : match[j] = MatchRow(string, pattern, match, j),
         NEW t \in 1..Len(tokens), MatchCuts(tokens, string, match, B, t)
  PROVE  MatchCuts(tokens, string, match, B, t - 1)
<1> SUFFICES ASSUME NEW i \in 1..(Len(string) + 1)
             PROVE  match[B[t - 1] + 1][i] <=> CanCut(tokens, string, t - 1, i)
  BY DEF MatchCuts
<1>1. CASE tokens[t].kind = "any"
  BY <1>1, AnyCuts
<1>2. CASE tokens[t].kind # "any"
  <2>1. pattern \in Seq(Nat) /\ Len(pattern) \in Nat /\ Len(tokens) \in Nat /\ Len(string) \in Nat
    BY DEF Lies, Chars
  <2>2. t - 1 \in 0..Len(tokens)
    BY <2>1
  <2>3. PICK at \in Nat : at = B[t - 1]
    BY <2>2 DEF Lies
  <2>4. WellFormed(tokens[t]) /\ LiesAt(pattern, at, Pattern(tokens[t])) /\ B[t] = at + Len(Pattern(tokens[t]))
    BY <2>3 DEF Lies, AllFormed
  <2>5. PICK p \in Seq(Chars) : p = Pattern(tokens[t]) /\ Len(p) >= 1
    BY <2>4, PatternIs
  <2>6. at + 1 \in 1..(Len(pattern) + 1)
    BY <2>1, <2>4, <2>5 DEF LiesAt
  <2>7. match[at + 1][i] <=> i <= Len(string) /\ Takes(tokens[t], string[i]) /\ match[at + Len(Pattern(tokens[t])) + 1][i + 1]
    <3>1. match[at + 1] = MatchRow(string, pattern, match, at + 1)
      BY <2>6
    <3>2. MatchRow(string, pattern, match, at + 1)[i] <=>
            i <= Len(string) /\ Takes(tokens[t], string[i]) /\ match[at + Len(Pattern(tokens[t])) + 1][i + 1]
      BY <1>2, <2>1, <2>4, RowOne
    <3> QED BY <3>1, <3>2, Zenon
  <2>8. i <= Len(string) => (match[at + Len(Pattern(tokens[t])) + 1][i + 1] <=> CanCut(tokens, string, t, i + 1))
    <3>1. i <= Len(string) => i + 1 \in 1..(Len(string) + 1)
      BY <2>1
    <3> QED BY <2>4, <3>1 DEF MatchCuts
  <2>9. CanCut(tokens, string, t - 1, i) <=>
          i <= Len(string) /\ Takes(tokens[t], string[i]) /\ CanCut(tokens, string, t, i + 1)
    BY <1>2, <2>1, CutOne
  <2> QED BY <2>3, <2>7, <2>8, <2>9
<1> QED BY <1>1, <1>2

(* A glob matches a string if and only if the string can be cut into parts *)
(* that the tokens of the glob cover, one after the other, for any tokens: *)
(* stars, single characters, escaped ones, sets, their complements and     *)
(* ranges; ms_globmatch().                                                 *)
THEOREM GlobsCover ==
  ASSUME NEW G, NEW tokens \in Seq(G), AllFormed(tokens), NEW string \in Seq(Chars)
  PROVE  GlobCovers(tokens, string)
<1>1. PICK n \in Nat, S \in Nat : n = Len(tokens) /\ S = Len(string)
  OBVIOUS
<1>2. PICK pattern : pattern = PatternOf(tokens)
  OBVIOUS
<1>3. PICK B : Lies(tokens, pattern, B)
  BY <1>2, PatternsLie
<1>4. pattern \in Seq(Nat) /\ Len(pattern) \in Nat /\ B[0] = 0 /\ B[n] = Len(pattern)
  BY <1>1, <1>3 DEF Lies, Chars
<1>5. PICK match : /\ \A j \in 1..(Len(pattern) + 1) : match[j] = MatchRow(string, pattern, match, j)
                   /\ GlobMatch(string, pattern) = match[1][1]
  BY <1>4, MatchIs
<1>6. MatchCuts(tokens, string, match, B, n)
  <2> SUFFICES ASSUME NEW i \in 1..(S + 1)
               PROVE  match[Len(pattern) + 1][i] <=> CanCut(tokens, string, n, i)
    BY <1>1, <1>4 DEF MatchCuts
  <2>1. CharAt(pattern, Len(pattern) + 1) = Nul /\ Star # Nul
    BY <1>4, SignsDiffer DEF CharAt, Chars, Nul
  <2>2. MatchRow(string, pattern, match, Len(pattern) + 1)[i] = (CharAt(string, i) = Nul)
    BY <1>1, <2>1, Zenon DEF MatchRow
  <2>3. CharAt(string, i) = Nul <=> i = S + 1
    <3>1. i <= S => string[i] \in Chars
      BY <1>1
    <3> QED BY <1>1, <3>1 DEF CharAt, Chars, Nul
  <2>4. match[Len(pattern) + 1] = MatchRow(string, pattern, match, Len(pattern) + 1)
    <3>1. Len(pattern) + 1 \in 1..(Len(pattern) + 1)
      BY <1>4
    <3> QED BY <1>5, <3>1
  <2>5. CanCut(tokens, string, n, i) <=> i = S + 1
    BY <1>1, CutLast
  <2> QED BY <2>2, <2>3, <2>4, <2>5, Zenon
<1> DEFINE T == {d \in Nat : d <= n => MatchCuts(tokens, string, match, B, n - d)}
<1>7. 0 \in T
  <2>1. n - 0 = n
    OBVIOUS
  <2> QED BY <1>6, <2>1
<1>8. ASSUME NEW d \in T PROVE d + 1 \in T
  <2> SUFFICES ASSUME d + 1 <= n PROVE MatchCuts(tokens, string, match, B, n - (d + 1))
    OBVIOUS
  <2>1. PICK t \in 1..n : t = n - d /\ t - 1 = n - (d + 1)
    OBVIOUS
  <2>2. MatchCuts(tokens, string, match, B, t)
    BY <2>1
  <2>3. t \in 1..Len(tokens)
    BY <1>1
  <2>4. MatchCuts(tokens, string, match, B, t - 1)
    BY <1>3, <1>5, <2>2, <2>3, TokenCuts
  <2> QED BY <2>1, <2>4
<1> HIDE DEF T
<1>9. MatchCuts(tokens, string, match, B, 0)
  <2>1. T \in SUBSET Nat
    BY DEF T
  <2>2. n \in T
    BY <1>7, <1>8, <2>1, Induction
  <2>3. n - n = 0 /\ n <= n
    OBVIOUS
  <2> QED BY <2>2, <2>3 DEF T
<1>10. GlobMatch(string, pattern) <=> CanCut(tokens, string, 0, 1)
  <2>1. 1 \in 1..(Len(string) + 1) /\ 0 + 1 = 1
    BY <1>1
  <2>2. match[1][1] <=> CanCut(tokens, string, 0, 1)
    BY <1>4, <1>9, <2>1 DEF MatchCuts
  <2> QED BY <1>5, <2>2, Zenon
<1>11. CanCut(tokens, string, 0, 1) <=>
         \E cut \in [0..Len(tokens) -> 0..Len(string)] :
           /\ cut[0] = 0 /\ cut[Len(tokens)] = Len(string)
           /\ \A i \in DOMAIN tokens : cut[i - 1] <= cut[i]
                                       /\ Covers(tokens[i], SubSeq(string, cut[i - 1] + 1, cut[i]))
  <2>1. 1 - 1 = 0 /\ (0 + 1)..Len(tokens) = DOMAIN tokens
    BY <1>1
  <2> QED BY <2>1, Zenon DEF CanCut, CutAt
<1> QED BY <1>2, <1>10, <1>11, Zenon DEF GlobCovers, PatternOf
===============================================================================
