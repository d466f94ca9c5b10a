--------------------------- MODULE LineEditProofs ---------------------------
(***************************************************************************)
(* Proofs about LineEdit for every set of characters, completions, buffer  *)
(* and history: the line fits its buffer with the cursor in it, with its   *)
(* NUL unless that was pushed out by typing, the history fits its limit,   *)
(* and moving in the history keeps every line.  First come the keys, each  *)
(* of which makes a line of a line.                                        *)
(***************************************************************************)
EXTENDS LineEdit, Numbers, SequenceTheorems, TLAPS

(* Lines of at most n characters.                                          *)
Lines(n) == {l \in [buf : Seq(Char), pos : Nat] : Len(l.buf) <= n /\ l.pos <= Len(l.buf)}

LEMMA LineMade ==
  ASSUME NEW n \in Nat, NEW b \in Seq(Char), NEW p \in Nat, Len(b) <= n, p <= Len(b)
  PROVE  Line(b, p) \in Lines(n)
<1>1. Line(b, p) \in [buf : Seq(Char), pos : Nat] /\ Line(b, p).buf = b /\ Line(b, p).pos = p
  BY DEF Line
<1> QED BY <1>1 DEF Lines

LEMMA Concat ==
  ASSUME NEW a \in Seq(Char), NEW b \in Seq(Char)
  PROVE  a \o b \in Seq(Char) /\ Len(a \o b) = Len(a) + Len(b)
  BY ConcatProperties, Zenon

LEMMA LineRead ==
  ASSUME NEW n \in Nat, NEW l \in Lines(n)
  PROVE  /\ l.buf \in Seq(Char) /\ l.pos \in Nat /\ Len(l.buf) \in Nat
         /\ Len(l.buf) <= n /\ l.pos <= Len(l.buf)
         /\ \A i \in 1..Len(l.buf) : l.buf[i] \in Char
  BY LenProperties DEF Lines

(* A part of a line.                                                       *)
LEMMA Part ==
  ASSUME NEW S, NEW s \in Seq(S), NEW m \in Nat \ {0}, NEW n \in Nat, n <= Len(s)
  PROVE  /\ SubSeq(s, m, n) \in Seq(S)
         /\ Len(SubSeq(s, m, n)) = IF m <= n THEN n - m + 1 ELSE 0
         /\ \A i \in 1..(n - m + 1) : SubSeq(s, m, n)[i] = s[m + i - 1]
<1>1. \A i \in m..n : s[i] \in S
  BY LenProperties, ElementOfSeq
<1> QED BY <1>1, SubSeqProperties

(* What is before the cursor, up to p, and what is after it.               *)
LEMMA Halves ==
  ASSUME NEW n \in Nat, NEW l \in Lines(n), NEW p \in Nat, p <= l.pos
  PROVE  /\ SubSeq(l.buf, 1, p) \in Seq(Char) /\ Len(SubSeq(l.buf, 1, p)) = p
         /\ After(l) \in Seq(Char) /\ Len(After(l)) = Len(l.buf) - l.pos
         /\ SubSeq(l.buf, 1, p) \o After(l) \in Seq(Char)
         /\ Len(SubSeq(l.buf, 1, p) \o After(l)) = p + Len(l.buf) - l.pos
<1>1. /\ l.buf \in Seq(Char) /\ l.pos \in Nat /\ Len(l.buf) \in Nat
      /\ l.pos <= Len(l.buf)
  BY LineRead
<1>2. SubSeq(l.buf, 1, p) \in Seq(Char) /\ Len(SubSeq(l.buf, 1, p)) = p
  BY <1>1, Part
<1>3. After(l) \in Seq(Char) /\ Len(After(l)) = Len(l.buf) - l.pos
  <2>1. l.pos + 1 \in Nat \ {0} /\ Len(l.buf) <= Len(l.buf)
    BY <1>1
  <2>2. /\ SubSeq(l.buf, l.pos + 1, Len(l.buf)) \in Seq(Char)
        /\ Len(SubSeq(l.buf, l.pos + 1, Len(l.buf))) =
             IF l.pos + 1 <= Len(l.buf) THEN Len(l.buf) - (l.pos + 1) + 1 ELSE 0
    BY <1>1, <2>1, Part
  <2> QED BY <1>1, <2>2 DEF After
<1> QED
  BY <1>1, <1>2, <1>3, Concat

-----------------------------------------------------------------------------
(* The keys.                                                               *)
LEMMA Inserts ==
  ASSUME NEW l \in Lines(BufLen), NEW c \in Char
  PROVE  /\ Insert(l, c) \in Lines(BufLen)
         /\ Len(l.buf) < BufLen => Len(Insert(l, c).buf) = Len(l.buf) + 1
<1> BufLen \in Nat
  BY LineAssumption
<1>1. /\ l.buf \in Seq(Char) /\ l.pos \in Nat /\ Len(l.buf) \in Nat
      /\ Len(l.buf) <= BufLen /\ l.pos <= Len(l.buf)
  BY LineRead
<1>2. /\ Before(l) \in Seq(Char) /\ Len(Before(l)) = l.pos
      /\ After(l) \in Seq(Char) /\ Len(After(l)) = Len(l.buf) - l.pos
  BY <1>1, Halves DEF Before
<1> DEFINE b == Before(l) \o <<c>> \o After(l)
<1>3. <<c>> \in Seq(Char) /\ Len(<<c>>) = 1
  OBVIOUS
<1>4. Before(l) \o <<c>> \in Seq(Char) /\ Len(Before(l) \o <<c>>) = l.pos + 1
  BY <1>1, <1>2, <1>3, Concat
<1>5. b \in Seq(Char) /\ Len(b) = Len(l.buf) + 1
  <2>1. b \in Seq(Char) /\ Len(b) = Len(Before(l) \o <<c>>) + Len(After(l))
    BY <1>2, <1>4, Concat, Zenon
  <2> HIDE DEF b
  <2> QED BY <2>1, <1>1, <1>2, <1>4
<1>6. Len(l.buf) < BufLen => Insert(l, c) = Line(b, l.pos + 1)
  BY DEF Insert
<1> HIDE DEF b
<1>7. Len(l.buf) < BufLen => Line(b, l.pos + 1) \in Lines(BufLen) /\ Line(b, l.pos + 1).buf = b
  <2>1. Line(b, l.pos + 1).buf = b
    BY DEF Line
  <2> QED BY <1>1, <1>5, <2>1, LineMade
<1>8. CASE Len(l.buf) < BufLen
  BY <1>5, <1>6, <1>7, <1>8
<1>9. CASE ~(Len(l.buf) < BufLen)
  BY <1>9 DEF Insert
<1> QED BY <1>8, <1>9

LEMMA Moves ==
  ASSUME NEW n \in Nat, NEW l \in Lines(n)
  PROVE  /\ MoveLeft(l) \in Lines(n) /\ MoveRight(l) \in Lines(n)
         /\ Home(l) \in Lines(n) /\ End(l) \in Lines(n)
<1>1. /\ l.buf \in Seq(Char) /\ l.pos \in Nat /\ Len(l.buf) \in Nat
      /\ Len(l.buf) <= n /\ l.pos <= Len(l.buf)
  BY LineRead
<1>2. l.pos > 0 => Line(l.buf, l.pos - 1) \in Lines(n)
  BY <1>1, LineMade
<1>3. l.pos # Len(l.buf) => Line(l.buf, l.pos + 1) \in Lines(n)
  BY <1>1, LineMade
<1>4. Line(l.buf, 0) \in Lines(n) /\ Line(l.buf, Len(l.buf)) \in Lines(n)
  BY <1>1, LineMade
<1> QED
  BY <1>2, <1>3, <1>4 DEF MoveLeft, MoveRight, Home, End

LEMMA Deletes ==
  ASSUME NEW n \in Nat, NEW l \in Lines(n)
  PROVE  /\ EditDelete(l) \in Lines(n) /\ EditBackspace(l) \in Lines(n)
         /\ DeleteLine(l) \in Lines(n) /\ DeleteRest(l) \in Lines(n)
<1>1. /\ l.buf \in Seq(Char) /\ l.pos \in Nat /\ Len(l.buf) \in Nat
      /\ Len(l.buf) <= n /\ l.pos <= Len(l.buf)
  BY LineRead
<1>2. /\ Before(l) \in Seq(Char) /\ Len(Before(l)) = l.pos
      /\ After(l) \in Seq(Char) /\ Len(After(l)) = Len(l.buf) - l.pos
  BY <1>1, Halves DEF Before
<1>3. EditDelete(l) \in Lines(n)
  <2>1. CASE l.pos < Len(l.buf)
    <3> DEFINE b == Before(l) \o Tail(After(l))
    <3>1. Tail(After(l)) \in Seq(Char) /\ Len(Tail(After(l))) = Len(l.buf) - l.pos - 1
      <4>1. After(l) # <<>>
        BY <1>1, <1>2, <2>1
      <4> QED BY <4>1, <1>1, <1>2, HeadTailProperties
    <3>2. b \in Seq(Char) /\ Len(b) = Len(l.buf) - 1
      <4>1. b \in Seq(Char) /\ Len(b) = Len(Before(l)) + Len(Tail(After(l)))
        BY <1>2, <3>1, Concat, Zenon
      <4> HIDE DEF b
      <4> QED BY <4>1, <1>1, <1>2, <3>1
    <3> HIDE DEF b
    <3>3. Line(b, l.pos) \in Lines(n)
      BY <1>1, <3>2, <2>1, LineMade
    <3> QED BY <3>3, <2>1 DEF EditDelete, b
  <2> QED BY <2>1 DEF EditDelete
<1>4. EditBackspace(l) \in Lines(n)
  <2>1. CASE l.pos > 0
    <3> DEFINE b == SubSeq(l.buf, 1, l.pos - 1) \o After(l)
    <3>1. l.pos - 1 \in Nat /\ l.pos - 1 <= l.pos
      BY <1>1, <2>1
    <3>2. b \in Seq(Char) /\ Len(b) = l.pos - 1 + Len(l.buf) - l.pos
      BY <3>1, Halves
    <3> HIDE DEF b
    <3>3. Line(b, l.pos - 1) \in Lines(n)
      BY <1>1, <3>1, <3>2, LineMade
    <3> QED BY <3>3, <2>1 DEF EditBackspace, b
  <2> QED BY <2>1 DEF EditBackspace
<1>5. <<>> \in Seq(Char) /\ Len(<<>>) = 0
  OBVIOUS
<1>6. DeleteLine(l) \in Lines(n)
  <2>1. 0 \in Nat /\ Len(<<>>) <= n /\ 0 <= Len(<<>>)
    BY <1>1, <1>5
  <2>2. Line(<<>>, 0) \in Lines(n)
    BY <2>1, <1>5, LineMade, Zenon
  <2> QED BY <2>2 DEF DeleteLine
<1>7. DeleteRest(l) \in Lines(n)
  BY <1>1, <1>2, LineMade DEF DeleteRest
<1> QED
  BY <1>3, <1>4, <1>6, <1>7

(* The place of a word's start: what DeletePrevWord() chooses is there.    *)
WordAt(l, p) ==
  \E q \in p..l.pos :
    /\ \A i \in (q + 1)..l.pos : l.buf[i] = Space
    /\ \A i \in (p + 1)..q : l.buf[i] # Space
    /\ q = 0 \/ l.buf[q] # Space
    /\ p = 0 \/ (p < q /\ l.buf[p] = Space)

LEMMA WordFound ==
  ASSUME NEW n \in Nat, NEW l \in Lines(n)
  PROVE  \E p \in 0..l.pos : WordAt(l, p)
<1>1. l.pos \in Nat
  BY LineRead
<1> DEFINE Blanks == {q \in 0..l.pos : \A i \in (q + 1)..l.pos : l.buf[i] = Space}
<1>2. l.pos \in Blanks
  BY <1>1
<1>3. PICK q \in Blanks : \A k \in Blanks : q <= k
  <2>1. Blanks \in SUBSET Nat /\ Blanks # {}
    BY <1>1, <1>2
  <2> HIDE DEF Blanks
  <2> QED BY <2>1, LeastNumber
<1>4. q \in 0..l.pos /\ \A i \in (q + 1)..l.pos : l.buf[i] = Space
  BY <1>3
<1>5. q = 0 \/ l.buf[q] # Space
  <2> SUFFICES ASSUME q # 0, l.buf[q] = Space PROVE FALSE
    OBVIOUS
  <2>1. q - 1 \in 0..l.pos /\ \A i \in q..l.pos : l.buf[i] = Space
    BY <1>1, <1>4
  <2>2. q - 1 \in Blanks
    BY <2>1, <1>4, <1>1
  <2> QED BY <2>2, <1>3, <1>4, <1>1
<1> DEFINE Letters == {p \in 0..q : \A i \in (p + 1)..q : l.buf[i] # Space}
<1>6. q \in Letters
  BY <1>1, <1>4
<1>7. PICK p \in Letters : \A k \in Letters : p <= k
  <2>1. Letters \in SUBSET Nat /\ Letters # {}
    BY <1>1, <1>4, <1>6
  <2> HIDE DEF Letters, Blanks
  <2> QED BY <2>1, LeastNumber
<1>8. p \in 0..q /\ \A i \in (p + 1)..q : l.buf[i] # Space
  BY <1>7
<1>9. p = 0 \/ (p < q /\ l.buf[p] = Space)
  <2> SUFFICES ASSUME p # 0 PROVE p < q /\ l.buf[p] = Space
    OBVIOUS
  <2>1. p - 1 \notin Letters
    BY <1>7, <1>8, <1>4, <1>1
  <2>2. \E i \in p..q : l.buf[i] = Space
    BY <2>1, <1>8, <1>4, <1>1
  <2>3. l.buf[p] = Space
    BY <2>2, <1>8, <1>4, <1>1
  <2>4. p # q
    BY <2>3, <1>5, <1>8, <1>4, <1>1
  <2> QED BY <2>3, <2>4, <1>8, <1>4, <1>1
<1>10. p \in 0..l.pos /\ q \in p..l.pos
  BY <1>1, <1>4, <1>8
<1> HIDE DEF Blanks, Letters
<1>11. WordAt(l, p)
  BY <1>4, <1>5, <1>8, <1>9, <1>10 DEF WordAt
<1> QED BY <1>10, <1>11

LEMMA DeletesWord ==
  ASSUME NEW n \in Nat, NEW l \in Lines(n)
  PROVE  DeletePrevWord(l) \in Lines(n)
<1>1. /\ l.buf \in Seq(Char) /\ l.pos \in Nat /\ Len(l.buf) \in Nat
      /\ Len(l.buf) <= n /\ l.pos <= Len(l.buf)
  BY LineRead
<1> DEFINE w == CHOOSE p \in 0..l.pos : WordAt(l, p)
<1>2. w \in 0..l.pos
  BY WordFound
<1>3. DeletePrevWord(l) = Line(SubSeq(l.buf, 1, w) \o After(l), w)
  BY Zenon DEF DeletePrevWord, WordAt
<1> HIDE DEF w
<1>4. w \in Nat /\ w <= l.pos
  BY <1>1, <1>2
<1>5. /\ SubSeq(l.buf, 1, w) \o After(l) \in Seq(Char)
      /\ Len(SubSeq(l.buf, 1, w) \o After(l)) = w + Len(l.buf) - l.pos
  BY <1>4, Halves
<1>6. Line(SubSeq(l.buf, 1, w) \o After(l), w) \in Lines(n)
  <2>1. w + Len(l.buf) - l.pos <= n /\ w <= w + Len(l.buf) - l.pos
    BY <1>1, <1>4
  <2> QED BY <1>4, <1>5, <2>1, LineMade
<1> QED BY <1>3, <1>6

LEMMA Transposes ==
  ASSUME NEW n \in Nat, NEW l \in Lines(n)
  PROVE  Transpose(l) \in Lines(n)
<1>1. /\ l.buf \in Seq(Char) /\ l.pos \in Nat /\ Len(l.buf) \in Nat
      /\ Len(l.buf) <= n /\ l.pos <= Len(l.buf)
      /\ \A i \in 1..Len(l.buf) : l.buf[i] \in Char
  BY LineRead
<1>2. CASE l.pos > 0 /\ l.pos < Len(l.buf)
  <2> DEFINE s == [l.buf EXCEPT ![l.pos] = l.buf[l.pos + 1]]
             b == [s EXCEPT ![l.pos + 1] = l.buf[l.pos]]
             p == IF l.pos # Len(l.buf) - 1 THEN l.pos + 1 ELSE l.pos
  <2>1. l.pos \in 1..Len(l.buf) /\ l.pos + 1 \in 1..Len(l.buf)
    BY <1>1, <1>2
  <2>2. l.buf[l.pos] \in Char /\ l.buf[l.pos + 1] \in Char
    BY <1>1, <2>1
  <2>3. s \in Seq(Char) /\ Len(s) = Len(l.buf)
    BY <1>1, <2>1, <2>2, ExceptSeq
  <2> HIDE DEF s
  <2>4. b \in Seq(Char) /\ Len(b) = Len(l.buf)
    BY <1>1, <2>1, <2>2, <2>3, ExceptSeq
  <2>5. p \in Nat /\ p <= Len(l.buf)
    BY <1>1, <1>2
  <2>6. Transpose(l) = Line(b, p)
    BY <1>2 DEF Transpose, s
  <2> HIDE DEF b, p
  <2> QED BY <1>1, <2>4, <2>5, <2>6, LineMade
<1> QED BY <1>2 DEF Transpose

-----------------------------------------------------------------------------
(* The inductive invariant: an entry for the line being edited is there,   *)
(* and the completion shown is one of the line's.                          *)
LineInv ==
  /\ LineTypeOK /\ historyMax \in 1..MaxHistory
  /\ offer \in 0..Len(Completions(buf))

(* Completions are lines that fit the buffer.                              *)
LEMMA CompletionsFit ==
  ASSUME NEW b \in Seq(Char)
  PROVE  /\ Completions(b) \in Seq(Seq(Char)) /\ Len(Completions(b)) \in Nat
         /\ \A i \in 1..Len(Completions(b)) : /\ Completions(b)[i] \in Seq(Char)
                                             /\ Len(Completions(b)[i]) \in Nat
                                             /\ Len(Completions(b)[i]) < BufLen
<1>1. CASE b # <<>> /\ b[1] \in DOMAIN Offers
  <2>1. Completions(b) = Offers[b[1]]
    BY <1>1 DEF Completions
  <2>2. /\ Offers[b[1]] \in Seq(Seq(Char))
        /\ \A i \in DOMAIN Offers[b[1]] : Len(Offers[b[1]][i]) < BufLen
    BY <1>1, LineAssumption
  <2> QED BY <2>1, <2>2, LenProperties, ElementOfSeq
<1>2. CASE ~(b # <<>> /\ b[1] \in DOMAIN Offers)
  <2>1. Completions(b) = <<>>
    BY <1>2 DEF Completions
  <2> QED BY <2>1
<1> QED BY <1>1, <1>2

LEMMA ShownFits ==
  ASSUME LineInv
  PROVE  Shown \in Lines(MaxChars) /\ Line(buf, pos) \in Lines(MaxChars) /\ MaxChars \in Nat
<1>1. /\ buf \in Seq(Char) /\ Len(buf) \in Nat /\ Len(buf) <= MaxChars /\ pos \in Nat /\ pos <= Len(buf)
      /\ offer \in 0..Len(Completions(buf)) /\ BufLen \in Nat \ {0}
  BY LenProperties, LineAssumption DEF LineInv, LineTypeOK
<1>2. MaxChars \in Nat /\ BufLen - 1 <= MaxChars
  BY <1>1 DEF MaxChars
<1>3. Line(buf, pos) \in Lines(MaxChars)
  BY <1>1, <1>2, LineMade
<1>4. CASE offer # 0
  <2>1. offer \in 1..Len(Completions(buf))
    BY <1>1, <1>4, CompletionsFit
  <2> DEFINE b == Completions(buf)[offer]
  <2>2. b \in Seq(Char) /\ Len(b) \in Nat /\ Len(b) < BufLen
    BY <1>1, <2>1, CompletionsFit
  <2> HIDE DEF b
  <2>3. Len(b) <= MaxChars
    BY <1>1, <1>2, <2>2
  <2>4. Line(b, Len(b)) \in Lines(MaxChars)
    BY <1>2, <2>2, <2>3, LineMade
  <2> QED BY <1>2, <1>3, <1>4, <2>4 DEF Shown, b
<1> QED BY <1>2, <1>3, <1>4 DEF Shown

(* A line that fits with its NUL fits the array.                           *)
LEMMA LinesFit ==
  ASSUME NEW l \in Lines(MaxChars)
  PROVE  l \in Lines(BufLen) /\ (~past => l \in Lines(BufLen - 1)) /\ BufLen - 1 \in Nat /\ BufLen \in Nat
<1>1. BufLen \in Nat \ {0}
  BY LineAssumption
<1>2. l \in [buf : Seq(Char), pos : Nat] /\ Len(l.buf) \in Nat /\ Len(l.buf) <= MaxChars /\ l.pos <= Len(l.buf)
  BY LenProperties DEF Lines
<1>3. Len(l.buf) <= BufLen /\ (~past => Len(l.buf) <= BufLen - 1)
  BY <1>1, <1>2 DEF MaxChars
<1> QED BY <1>1, <1>2, <1>3 DEF Lines

(* What the editor finds when it adds a line.                              *)
LEMMA Adds ==
  ASSUME NEW h \in Seq(Seq(Char)), NEW line \in Seq(Char), historyMax \in Nat \ {0},
         Len(h) <= historyMax
  PROVE  /\ HistoryAdded(h, line) \in Seq(Seq(Char))
         /\ Len(HistoryAdded(h, line)) <= historyMax /\ Len(HistoryAdded(h, line)) \in Nat \ {0}
<1>1. Len(h) \in Nat
  BY LenProperties
<1>2. CASE Len(h) = historyMax
  <2>1. Tail(h) \in Seq(Seq(Char)) /\ Len(Tail(h)) = Len(h) - 1
    <3>1. h # <<>>
      BY <1>1, <1>2
    <3> QED BY <3>1, HeadTailProperties
  <2>2. /\ Append(Tail(h), line) \in Seq(Seq(Char))
        /\ Len(Append(Tail(h), line)) = Len(Tail(h)) + 1
    BY <2>1, AppendProperties
  <2>3. HistoryAdded(h, line) = Append(Tail(h), line)
    BY <1>2 DEF HistoryAdded
  <2> QED BY <1>1, <1>2, <2>1, <2>2, <2>3
<1>3. CASE Len(h) # historyMax
  <2>1. Append(h, line) \in Seq(Seq(Char)) /\ Len(Append(h, line)) = Len(h) + 1
    BY AppendProperties
  <2>2. HistoryAdded(h, line) = Append(h, line)
    BY <1>3 DEF HistoryAdded
  <2> QED BY <1>1, <1>3, <2>1, <2>2
<1> QED BY <1>2, <1>3

(* The history without the entry of the line being edited.                 *)
LEMMA Leaves ==
  ASSUME LineInv, typing
  PROVE  /\ SubSeq(history, 1, Len(history) - 1) \in Seq(Seq(Char))
         /\ Len(SubSeq(history, 1, Len(history) - 1)) < historyMax
         /\ Len(SubSeq(history, 1, Len(history) - 1)) \in Nat
<1>1. /\ history \in Seq(Seq(Char)) /\ Len(history) \in Nat \ {0} /\ Len(history) <= historyMax
      /\ historyMax \in Nat
  BY LenProperties, LineAssumption DEF LineInv, LineTypeOK
<1>2. Len(history) - 1 \in Nat /\ Len(history) - 1 <= Len(history)
  BY <1>1
<1>3. /\ SubSeq(history, 1, Len(history) - 1) \in Seq(Seq(Char))
      /\ Len(SubSeq(history, 1, Len(history) - 1)) =
           IF 1 <= Len(history) - 1 THEN Len(history) - 1 - 1 + 1 ELSE 0
  BY <1>1, <1>2, Part
<1> QED BY <1>1, <1>3

-----------------------------------------------------------------------------
(* The steps.                                                              *)
LEMMA KeyKeeps ==
  ASSUME LineInv, NEW l \in Lines(BufLen), Key(l)
  PROVE  LineInv'
<1> BufLen \in Nat \ {0}
  BY LineAssumption
<1>1. /\ l.buf \in Seq(Char) /\ l.pos \in Nat /\ Len(l.buf) \in Nat
      /\ Len(l.buf) <= BufLen /\ l.pos <= Len(l.buf)
  BY LineRead
<1>2. /\ typing /\ buf' = l.buf /\ pos' = l.pos /\ offer' = 0 /\ Nulled(l.buf)
      /\ history' = history /\ historyMax' = historyMax /\ typing' = typing /\ index' = index
  BY DEF Key
<1>3. buf' \in Seq(Char) /\ pos' \in 0..Len(buf')
  BY <1>1, <1>2
<1>4. past' \in BOOLEAN /\ Len(buf') <= MaxChars'
  <2>1. past' = (past \/ Len(l.buf) >= BufLen)
    BY <1>2 DEF Nulled
  <2>2. past \in BOOLEAN
    BY DEF LineInv, LineTypeOK
  <2>3. past' \in BOOLEAN /\ (~past' => ~(Len(l.buf) >= BufLen))
    BY <2>1, <2>2, Zenon
  <2> QED BY <1>1, <1>2, <2>3 DEF MaxChars
<1>5. offer' \in 0..Len(Completions(buf'))
  BY <1>2, <1>3, CompletionsFit
<1>6. /\ history' \in Seq(Seq(Char)) /\ Len(history') <= historyMax'
      /\ (typing' => index' \in 0..(Len(history') - 1)) /\ historyMax' \in 1..MaxHistory
  BY <1>2 DEF LineInv, LineTypeOK
<1>7. Completions(buf)' = Completions(buf')
  BY DEF Completions
<1> QED BY <1>3, <1>4, <1>5, <1>6, <1>7 DEF LineInv, LineTypeOK

(* A key inserts a character, or leaves a line that is no longer.          *)
LEMMA KeysMake ==
  ASSUME NEW n \in Nat, Shown \in Lines(n), Line(buf, pos) \in Lines(n), EditKey \/ ArrowKey
  PROVE  (\E c \in Char : Key(Insert(Shown, c))) \/ (\E l \in Lines(n) : Key(l))
<1>1. CASE EditKey
  <2>1. CASE \E c \in Char : Key(Insert(Shown, c))
    BY <2>1, Zenon
  <2>2. /\ EditBackspace(Shown) \in Lines(n) /\ EditDelete(Shown) \in Lines(n)
        /\ DeleteLine(Shown) \in Lines(n) /\ DeleteRest(Shown) \in Lines(n)
    BY Deletes, Zenon
  <2>3. /\ MoveLeft(Shown) \in Lines(n) /\ MoveRight(Shown) \in Lines(n)
        /\ Home(Shown) \in Lines(n) /\ End(Shown) \in Lines(n)
    BY Moves, Zenon
  <2>4. DeletePrevWord(Shown) \in Lines(n) /\ Transpose(Shown) \in Lines(n)
    BY DeletesWord, Transposes, Zenon
  <2>5. CASE Key(EditBackspace(Shown))
    BY <2>2, <2>5, Zenon
  <2>6. CASE Key(EditDelete(Shown))
    BY <2>2, <2>6, Zenon
  <2>7. CASE Key(DeletePrevWord(Shown))
    BY <2>4, <2>7, Zenon
  <2>8. CASE Key(Transpose(Shown))
    BY <2>4, <2>8, Zenon
  <2>9. CASE Key(DeleteLine(Shown))
    BY <2>2, <2>9, Zenon
  <2>10. CASE Key(DeleteRest(Shown))
    BY <2>2, <2>10, Zenon
  <2>11. CASE Key(MoveLeft(Shown))
    BY <2>3, <2>11, Zenon
  <2>12. CASE Key(MoveRight(Shown))
    BY <2>3, <2>12, Zenon
  <2>13. CASE Key(Home(Shown))
    BY <2>3, <2>13, Zenon
  <2>14. CASE Key(End(Shown))
    BY <2>3, <2>14, Zenon
  <2> QED
    BY <1>1, <2>1, <2>5, <2>6, <2>7, <2>8, <2>9, <2>10, <2>11, <2>12, <2>13, <2>14, Zenon DEF EditKey
<1>2. CASE ArrowKey
  <2> DEFINE l == Line(buf, pos)
  <2>1. MoveLeft(l) \in Lines(n) /\ MoveRight(l) \in Lines(n) /\ EditDelete(l) \in Lines(n)
    BY Moves, Deletes, Zenon
  <2>2. Key(MoveLeft(l)) \/ Key(MoveRight(l)) \/ Key(EditDelete(l))
    BY <1>2, Zenon DEF ArrowKey
  <2> QED BY <2>1, <2>2, Zenon
<1> QED BY <1>1, <1>2

(* The keys of the two kinds, each on a line of its own.                   *)
LEMMA KeysKeep ==
  ASSUME LineInv, EditKey \/ ArrowKey
  PROVE  LineInv'
<1>1. BufLen \in Nat /\ Shown \in Lines(BufLen) /\ Line(buf, pos) \in Lines(BufLen)
  BY ShownFits, LinesFit
<1>2. (\E c \in Char : Key(Insert(Shown, c))) \/ (\E l \in Lines(BufLen) : Key(l))
  BY <1>1, KeysMake, Zenon
<1>3. CASE \E c \in Char : Key(Insert(Shown, c))
  <2>1. PICK c \in Char : Key(Insert(Shown, c))
    BY <1>3
  <2>2. Insert(Shown, c) \in Lines(BufLen)
    BY <1>1, Inserts
  <2> QED BY <2>1, <2>2, KeyKeeps, Zenon
<1> QED BY <1>2, <1>3, KeyKeeps, Zenon

LEMMA CompleteKeeps ==
  ASSUME LineInv, CompleteLine
  PROVE  LineInv'
<1>1. /\ offer' = (offer + 1) % (Len(Completions(buf)) + 1)
      /\ history' = history /\ historyMax' = historyMax /\ typing' = typing
      /\ buf' = buf /\ pos' = pos /\ index' = index /\ past' = past
  BY DEF CompleteLine
<1>2. offer \in Nat /\ Len(Completions(buf)) \in Nat
  BY CompletionsFit DEF LineInv, LineTypeOK
<1>3. offer' \in 0..Len(Completions(buf))
  BY <1>1, <1>2
<1>4. Completions(buf)' = Completions(buf)
  BY <1>1 DEF Completions
<1> QED BY <1>1, <1>3, <1>4 DEF LineInv, LineTypeOK, MaxChars

(* A prompt and the end of a line leave an empty line.                     *)
LEMMA EmptyLine ==
  ASSUME LineInv, buf' = <<>>, pos' = 0, index' = 0, offer' = 0, past' = FALSE,
         historyMax' = historyMax, history' \in Seq(Seq(Char)), Len(history') <= historyMax,
         ~typing' \/ Len(history') \in Nat \ {0}
  PROVE  LineInv'
<1>1. buf' \in Seq(Char) /\ Len(buf') = 0 /\ BufLen \in Nat \ {0}
  BY LineAssumption
<1>2. Completions(buf)' = <<>>
  BY DEF Completions
<1>3. offer' \in 0..Len(Completions(buf)')
  BY <1>2
<1>4. historyMax' \in 1..MaxHistory /\ pos' \in 0..Len(buf') /\ Len(buf') <= MaxChars'
  BY <1>1 DEF LineInv, MaxChars
<1>5. typing' => index' \in 0..(Len(history') - 1)
  OBVIOUS
<1> QED BY <1>1, <1>3, <1>4, <1>5 DEF LineInv, LineTypeOK

LEMMA PromptsKeep ==
  ASSUME LineInv, Prompts
  PROVE  LineInv'
<1>1. /\ history \in Seq(Seq(Char)) /\ Len(history) <= historyMax /\ historyMax \in Nat \ {0}
      /\ <<>> \in Seq(Char)
  BY DEF LineInv, LineTypeOK
<1>2. /\ history' = HistoryAdded(history, <<>>) /\ historyMax' = historyMax
      /\ buf' = <<>> /\ pos' = 0 /\ index' = 0 /\ offer' = 0 /\ past' = FALSE
  BY DEF Prompts, HistoryAdd
<1>3. /\ history' \in Seq(Seq(Char)) /\ Len(history') <= historyMax
      /\ Len(history') \in Nat \ {0}
  BY <1>1, <1>2, Adds
<1> QED BY <1>2, <1>3, EmptyLine

LEMMA EntersKeep ==
  ASSUME LineInv, Enter \/ EndOfFile \/ Interrupt
  PROVE  LineInv'
<1>1. /\ typing /\ ~typing' /\ historyMax' = historyMax
      /\ buf' = <<>> /\ pos' = 0 /\ index' = 0 /\ offer' = 0 /\ past' = FALSE
  BY DEF Enter, EndOfFile, Interrupt
<1>2. /\ history \in Seq(Seq(Char)) /\ Len(history) <= historyMax /\ historyMax \in Nat \ {0}
      /\ buf \in Seq(Char)
  BY DEF LineInv, LineTypeOK
<1> DEFINE entered == SubSeq(history, 1, Len(history) - 1)
<1>3. /\ entered \in Seq(Seq(Char)) /\ Len(entered) < historyMax /\ Len(entered) \in Nat
  BY <1>1, Leaves
<1>4. Shown.buf \in Seq(Char)
  <2> MaxChars \in Nat /\ Shown \in Lines(MaxChars)
    BY ShownFits
  <2> QED BY LineRead
<1>5. \/ history' = entered \/ history' = HistoryAdded(entered, Shown.buf)
      \/ history' = history \/ history' = HistoryAdded(history, buf)
  BY Zenon DEF Enter, EndOfFile, Interrupt, HistoryAdd
<1> HIDE DEF entered
<1>6. Len(entered) <= historyMax
  BY <1>2, <1>3
<1>7. /\ HistoryAdded(entered, Shown.buf) \in Seq(Seq(Char))
      /\ Len(HistoryAdded(entered, Shown.buf)) <= historyMax
  BY <1>2, <1>3, <1>4, <1>6, Adds, Zenon
<1>8. /\ HistoryAdded(history, buf) \in Seq(Seq(Char))
      /\ Len(HistoryAdded(history, buf)) <= historyMax
  BY <1>2, Adds, Zenon
<1>9. history' \in Seq(Seq(Char)) /\ Len(history') <= historyMax
  BY <1>2, <1>3, <1>5, <1>6, <1>7, <1>8, Zenon
<1> QED BY <1>1, <1>9, EmptyLine, Zenon

LEMMA SetMaxLenKeeps ==
  ASSUME LineInv, HistorySetMaxLen
  PROVE  LineInv'
<1>1. PICK len \in 1..MaxHistory :
        /\ historyMax' = len
        /\ history' = IF len < Len(history)
                      THEN SubSeq(history, Len(history) - len + 1, Len(history)) ELSE history
  BY DEF HistorySetMaxLen
<1>2. /\ ~typing /\ typing' = typing /\ buf' = buf /\ pos' = pos /\ index' = index /\ offer' = offer
      /\ past' = past
  BY DEF HistorySetMaxLen
<1>3. history \in Seq(Seq(Char)) /\ Len(history) \in Nat /\ len \in Nat \ {0}
  BY LenProperties, LineAssumption DEF LineInv, LineTypeOK
<1>4. history' \in Seq(Seq(Char)) /\ Len(history') <= len
  <2>1. CASE len < Len(history)
    <3> DEFINE m == Len(history) - len + 1
    <3>1. m \in Nat \ {0} /\ m <= Len(history) /\ Len(history) - m + 1 = len
      BY <1>3, <2>1
    <3>2. SubSeq(history, m, Len(history)) \in Seq(Seq(Char))
          /\ Len(SubSeq(history, m, Len(history))) = IF m <= Len(history) THEN Len(history) - m + 1 ELSE 0
      <4> HIDE DEF m
      <4> QED BY <3>1, <1>3, Part
    <3>3. history' = SubSeq(history, m, Len(history))
      BY <1>1, <2>1
    <3> HIDE DEF m
    <3> QED BY <1>3, <3>1, <3>2, <3>3
  <2>2. CASE ~(len < Len(history))
    BY <1>1, <1>3, <2>2
  <2> QED BY <2>1, <2>2
<1>5. Completions(buf)' = Completions(buf)
  BY <1>2 DEF Completions
<1> QED BY <1>1, <1>2, <1>4, <1>5 DEF LineInv, LineTypeOK, MaxChars

(* The history after the line has gone into its entry.                     *)
LEMMA SavedLine ==
  ASSUME LineInv, typing, NEW b \in Seq(Char)
  PROVE  /\ [history EXCEPT ![Len(history) - index] = b] \in Seq(Seq(Char))
         /\ Len([history EXCEPT ![Len(history) - index] = b]) = Len(history)
         /\ \A j \in 1..Len(history) :
              [history EXCEPT ![Len(history) - index] = b][j] = IF j = Len(history) - index THEN b ELSE history[j]
         /\ Len(history) - index \in 1..Len(history)
<1>1. /\ history \in Seq(Seq(Char)) /\ Len(history) \in Nat /\ index \in 0..(Len(history) - 1)
  BY LenProperties DEF LineInv, LineTypeOK
<1>2. Len(history) - index \in 1..Len(history)
  BY <1>1
<1> QED BY <1>1, <1>2, ExceptSeq

(* What is shown leaves a place for its NUL; at an end of the history the  *)
(* line stays.                                                             *)
LEMMA HistoryShows ==
  ASSUME LineInv, NEW dir \in {-1, 1}, NEW n \in Nat, NEW l \in Lines(n), HistoryNext(dir, l)
  PROVE  /\ history' \in Seq(Seq(Char)) /\ Len(history') = Len(history) /\ index' \in 0..(Len(history) - 1)
         /\ buf' \in Seq(Char) /\ Len(buf') \in Nat /\ pos' \in 0..Len(buf')
         /\ Len(buf') < BufLen \/ buf' = l.buf
<1> DEFINE saved == [history EXCEPT ![Len(history) - index] = l.buf]
           i     == index + dir
           line  == saved[Len(saved) - i]
<1>1. /\ typing /\ history' = saved
      /\ IF i \in 0..(Len(history) - 1)
         THEN index' = i /\ buf' = CutToFit(line) /\ pos' = Len(buf')
         ELSE index' = index /\ buf' = l.buf /\ pos' = l.pos
  BY DEF HistoryNext
<1>2. l.buf \in Seq(Char) /\ l.pos \in Nat /\ Len(l.buf) \in Nat /\ l.pos <= Len(l.buf)
  BY LineRead
<1>3. Len(history) \in Nat /\ index \in 0..(Len(history) - 1) /\ BufLen \in Nat \ {0}
  BY <1>1, LenProperties, LineAssumption DEF LineInv, LineTypeOK
<1>4. saved \in Seq(Seq(Char)) /\ Len(saved) = Len(history)
  BY <1>1, <1>2, SavedLine
<1>5. CASE i \in 0..(Len(history) - 1)
  <2> HIDE DEF saved, i
  <2>1. Len(saved) - i \in 1..Len(saved)
    BY <1>3, <1>4, <1>5
  <2>2. line \in Seq(Char)
    BY <1>4, <2>1, ElementOfSeq
  <2>3. index' = i /\ buf' = CutToFit(line) /\ pos' = Len(buf')
    BY <1>1, <1>5
  <2> HIDE DEF line
  <2>4. Len(line) \in Nat
    BY <2>2, LenProperties
  <2> DEFINE k == IF Len(line) < BufLen THEN Len(line) ELSE BufLen - 1
  <2>5. k \in Nat /\ k <= Len(line) /\ k < BufLen
    BY <2>4, <1>3
  <2>6. buf' = SubSeq(line, 1, k)
    BY <2>3 DEF CutToFit
  <2> HIDE DEF k
  <2>7. SubSeq(line, 1, k) \in Seq(Char) /\ Len(SubSeq(line, 1, k)) = IF 1 <= k THEN k - 1 + 1 ELSE 0
    BY <2>2, <2>5, Part
  <2>8. buf' \in Seq(Char) /\ Len(buf') = k
    BY <2>5, <2>6, <2>7
  <2> QED BY <1>1, <1>4, <1>5, <2>3, <2>5, <2>8
<1>6. CASE i \notin 0..(Len(history) - 1)
  <2> HIDE DEF saved, i, line
  <2> QED BY <1>1, <1>2, <1>3, <1>4, <1>6
<1> QED BY <1>5, <1>6

LEMMA HistoryKeeps ==
  ASSUME LineInv, NEW dir \in {-1, 1}, NEW l \in Lines(BufLen), HistoryNext(dir, l)
  PROVE  LineInv'
<1> BufLen \in Nat \ {0}
  BY LineAssumption
<1>1. historyMax' = historyMax /\ offer' = 0 /\ Nulled(buf')
  BY DEF HistoryNext
<1>2. /\ history' \in Seq(Seq(Char)) /\ Len(history') = Len(history) /\ index' \in 0..(Len(history) - 1)
      /\ buf' \in Seq(Char) /\ Len(buf') \in Nat /\ pos' \in 0..Len(buf') /\ Len(buf') <= BufLen
  <2>1. Len(l.buf) \in Nat /\ Len(l.buf) <= BufLen
    BY LineRead
  <2>2. /\ history' \in Seq(Seq(Char)) /\ Len(history') = Len(history) /\ index' \in 0..(Len(history) - 1)
        /\ buf' \in Seq(Char) /\ Len(buf') \in Nat /\ pos' \in 0..Len(buf')
        /\ Len(buf') < BufLen \/ buf' = l.buf
    BY HistoryShows
  <2>3. Len(buf') <= BufLen
    BY <2>1, <2>2
  <2> QED BY <2>2, <2>3
<1>3. Len(history) <= historyMax /\ historyMax \in 1..MaxHistory /\ past \in BOOLEAN
  BY DEF LineInv, LineTypeOK
<1>4. past' \in BOOLEAN /\ Len(buf') <= MaxChars'
  <2>1. past' = (past \/ Len(buf') >= BufLen)
    BY <1>1 DEF Nulled
  <2>2. past' \in BOOLEAN /\ (~past' => ~(Len(buf') >= BufLen))
    BY <2>1, <1>3, Zenon
  <2> QED BY <1>2, <2>2 DEF MaxChars
<1>5. offer' \in 0..Len(Completions(buf')) /\ Completions(buf)' = Completions(buf')
  BY <1>1, <1>2, CompletionsFit DEF Completions
<1> QED BY <1>1, <1>2, <1>3, <1>4, <1>5 DEF LineInv, LineTypeOK

-----------------------------------------------------------------------------
LEMMA LineStep ==
  ASSUME LineInv, [LineNext]_linevars
  PROVE  LineInv'
<1>1. CASE HistorySetMaxLen
  BY <1>1, SetMaxLenKeeps
<1>2. CASE Prompts
  BY <1>2, PromptsKeep
<1>3. CASE CompleteLine
  BY <1>3, CompleteKeeps
<1>4. CASE EditKey \/ ArrowKey
  BY <1>4, KeysKeep
<1>5. CASE HistoryKey
  <2>1. PICK dir \in {-1, 1} : HistoryNext(dir, Shown) \/ HistoryNext(dir, Line(buf, pos))
    BY <1>5, Zenon DEF HistoryKey
  <2>2. Shown \in Lines(BufLen) /\ Line(buf, pos) \in Lines(BufLen)
    BY ShownFits, LinesFit
  <2> QED BY <2>1, <2>2, HistoryKeeps, Zenon
<1>6. CASE Enter \/ EndOfFile \/ Interrupt
  BY <1>6, EntersKeep
<1>7. CASE UNCHANGED linevars
  BY <1>7 DEF LineInv, LineTypeOK, linevars, Completions, MaxChars
<1> QED
  BY <1>1, <1>2, <1>3, <1>4, <1>5, <1>6, <1>7, Zenon DEF LineNext

(* LineInv holds in every state the editor can be in.                      *)
THEOREM LineInvariance == LineSpec => []LineInv
<1>1. LineInit => LineInv
  <2> SUFFICES ASSUME LineInit PROVE LineInv
    OBVIOUS
  <2>1. Completions(buf) = <<>>
    BY DEF LineInit, Completions
  <2>2. buf = <<>> /\ past = FALSE
    BY DEF LineInit
  <2>3. Len(buf) <= MaxChars
    <3>1. Len(buf) = 0 /\ MaxChars = BufLen - 1
      BY <2>2 DEF MaxChars
    <3> QED BY <3>1, LineAssumption
  <2>4. LineTypeOK
    <3>1. history = <<>> /\ historyMax \in Nat /\ ~typing /\ pos = 0
      BY DEF LineInit
    <3>2. history \in Seq(Seq(Char)) /\ buf \in Seq(Char) /\ Len(history) = 0 /\ Len(buf) = 0
      BY <2>2, <3>1
    <3>3. past \in BOOLEAN
      BY <2>2, Zenon
    <3>4. Len(history) <= historyMax /\ pos \in 0..Len(buf)
      BY <3>1, <3>2
    <3> QED BY <2>3, <3>1, <3>2, <3>3, <3>4, Zenon DEF LineTypeOK
  <2>5. offer \in 0..Len(Completions(buf)) /\ historyMax \in 1..MaxHistory
    BY <2>1 DEF LineInit
  <2> QED BY <2>4, <2>5 DEF LineInv
<1> QED BY <1>1, LineStep, PTL DEF LineSpec

-----------------------------------------------------------------------------
(* A key that leaves a line no longer than one that fits with its NUL      *)
(* writes nothing past the array, and nor does the history.                *)
LEMMA NulInside ==
  ASSUME NEW b, Len(b) \in Nat, Len(b) <= BufLen - 1, Nulled(b), ~past
  PROVE  ~past'
<1>1. ~(Len(b) >= BufLen)
  BY LineAssumption
<1> QED BY <1>1, Zenon DEF Nulled

LEMMA TypedPast ==
  ASSUME LineInv, [LineNext]_linevars, ~past, past'
  PROVE  \E c \in Char : /\ Len(Shown.buf) = BufLen - 1 /\ Line(buf', pos') = Insert(Shown, c)
                        /\ Len(buf') = BufLen
<1>1. /\ BufLen \in Nat /\ BufLen - 1 \in Nat
      /\ Shown \in Lines(BufLen - 1) /\ Line(buf, pos) \in Lines(BufLen - 1) /\ Shown \in Lines(BufLen)
  BY ShownFits, LinesFit
<1>2. ASSUME NEW l \in Lines(BufLen - 1)
      PROVE  l.buf \in Seq(Char) /\ Len(l.buf) \in Nat /\ Len(l.buf) <= BufLen - 1
  BY <1>1, LineRead
<1>3. EditKey \/ ArrowKey
  <2>1. ~(HistorySetMaxLen \/ Prompts \/ CompleteLine \/ Enter \/ EndOfFile \/ Interrupt \/ UNCHANGED linevars)
    BY DEF HistorySetMaxLen, Prompts, CompleteLine, Enter, EndOfFile, Interrupt, linevars
  <2>2. ~HistoryKey
    <3> SUFFICES ASSUME HistoryKey PROVE FALSE
      OBVIOUS
    <3>1. PICK dir \in {-1, 1}, l \in Lines(BufLen - 1) : HistoryNext(dir, l)
      BY <1>1, Zenon DEF HistoryKey
    <3>2. Nulled(buf')
      BY <3>1 DEF HistoryNext
    <3>3. Len(buf') \in Nat /\ (Len(buf') < BufLen \/ buf' = l.buf)
      BY <1>1, <3>1, HistoryShows
    <3>4. Len(buf') <= BufLen - 1
      BY <1>1, <1>2, <3>3
    <3> QED BY <3>2, <3>3, <3>4, NulInside
  <2> QED BY <2>1, <2>2, Zenon DEF LineNext
<1>4. ~\E l \in Lines(BufLen - 1) : Key(l)
  <2> SUFFICES ASSUME NEW l \in Lines(BufLen - 1), Key(l) PROVE FALSE
    OBVIOUS
  <2>1. Nulled(l.buf)
    BY DEF Key
  <2> QED BY <1>2, <2>1, NulInside
<1>5. PICK c \in Char : Key(Insert(Shown, c))
  BY <1>1, <1>3, <1>4, KeysMake, Zenon
<1>6. buf' = Insert(Shown, c).buf /\ pos' = Insert(Shown, c).pos /\ Nulled(Insert(Shown, c).buf)
  BY <1>5 DEF Key
<1>7. Len(Shown.buf) \in Nat /\ Len(Shown.buf) <= BufLen - 1 /\ Len(buf') = Len(Shown.buf) + 1
  BY <1>1, <1>2, <1>6, Inserts
<1>8. ~(Len(buf') <= BufLen - 1)
  BY <1>6, <1>7, NulInside
<1>9. Len(Shown.buf) = BufLen - 1 /\ Len(buf') = BufLen
  BY <1>1, <1>7, <1>8
<1>10. Line(buf', pos') = Insert(Shown, c)
  <2>1. Len(Shown.buf) < BufLen
    BY <1>1, <1>9
  <2> QED BY <1>6, <2>1 DEF Insert, Line
<1> QED BY <1>9, <1>10

(* OverrunByTyping: linenoiseEdit() counts the place of the NUL among      *)
(* those of the line (linenoise.c:586), so that typing a character into a  *)
(* line with one place left writes the NUL at buf[BufLen].  That is the    *)
(* only way past the array, and as far as any goes: no character is        *)
(* written there, and no key, completion or line of the history does it.   *)
(* The cursor stays in the line and the history under its limit.           *)
THEOREM OverrunOnlyByTyping == LineSpec => OverrunByTyping
<1> DEFINE Typed ==
      ~past /\ past' =>
          \E c \in Char : /\ Len(Shown.buf) = BufLen - 1 /\ Line(buf', pos') = Insert(Shown, c)
                         /\ Len(buf') = BufLen
<1>1. LineInv => LineTypeOK
  BY DEF LineInv
<1>2. LineInv /\ [LineNext]_linevars => [Typed]_linevars
  BY TypedPast
<1> QED BY <1>1, <1>2, LineInvariance, PTL DEF LineSpec, OverrunByTyping

-----------------------------------------------------------------------------
(* A move to another entry of the history keeps every line that can be     *)
(* reached.                                                                *)
LEMMA MoveKeeps ==
  ASSUME LineInv, NEW dir \in {-1, 1}, NEW l, l.buf = buf, buf \in Seq(Char), HistoryNext(dir, l),
         index' # index, ~Full, Len(buf) < BufLen
  PROVE  Reachable(history', index', buf') = Reachable(history, index, buf)
<1> DEFINE saved == [history EXCEPT ![Len(history) - index] = buf]
           i     == index + dir
           line  == saved[Len(saved) - i]
<1>1. /\ typing /\ history' = saved /\ i \in 0..(Len(history) - 1) /\ index' = i
      /\ buf' = SubSeq(line, 1, IF Len(line) < BufLen THEN Len(line) ELSE BufLen - 1)
  BY DEF HistoryNext, CutToFit
<1>2. /\ saved \in Seq(Seq(Char)) /\ Len(saved) = Len(history)
      /\ \A j \in 1..Len(history) : saved[j] = IF j = Len(history) - index THEN buf ELSE history[j]
  BY <1>1, SavedLine
<1>3. history \in Seq(Seq(Char)) /\ Len(history) \in Nat /\ index \in 0..(Len(history) - 1) /\ BufLen \in Nat
  BY <1>1, LenProperties, LineAssumption DEF LineInv, LineTypeOK
<1>4. i \in Int /\ Len(history) - i \in 1..Len(history)
  BY <1>1, <1>3
<1> HIDE DEF saved, i
<1>5. line \in Seq(Char) /\ Len(line) \in Nat
  BY <1>2, <1>4, ElementOfSeq, LenProperties
<1>6. Len(line) < BufLen
  <2>1. CASE Len(history) - i = Len(history) - index
    BY <1>2, <1>4, <2>1
  <2>2. CASE Len(history) - i # Len(history) - index
    <3>1. line = history[Len(history) - i]
      BY <1>2, <1>4, <2>2
    <3>2. ~(Len(history[Len(history) - i]) >= BufLen)
      BY <1>3, <1>4 DEF Full
    <3> QED BY <1>3, <1>5, <3>1, <3>2
  <2> QED BY <2>1, <2>2
<1>7. buf' = line
  <2> HIDE DEF line
  <2> QED BY <1>1, <1>5, <1>6, SubSeqFull
<1>8. Reachable(history', index', buf') = [saved EXCEPT ![Len(saved) - i] = line]
  BY <1>1, <1>7 DEF Reachable
<1>9. [saved EXCEPT ![Len(saved) - i] = line] = saved
  <2>1. Len(saved) - i \in 1..Len(saved)
    BY <1>2, <1>4
  <2> QED BY <1>2, <2>1
<1> QED BY <1>8, <1>9 DEF Reachable, saved

(* MovesKeepLines: linenoiseEditHistoryNext() saves the line in its entry  *)
(* before it shows another, so that all that was typed is still there.     *)
THEOREM MovesKeepAll == LineSpec => MovesKeepLines
<1> DEFINE Keeps ==
      typing /\ typing' /\ index' # index /\ offer = 0 /\ ~Full /\ Len(buf) < BufLen
        => Reachable(history', index', buf') = Reachable(history, index, buf)
<1>1. ASSUME LineInv, [LineNext]_linevars
      PROVE  [Keeps]_linevars
  <2> SUFFICES ASSUME typing, typing', index' # index, offer = 0, ~Full, Len(buf) < BufLen
               PROVE  Reachable(history', index', buf') = Reachable(history, index, buf)
    OBVIOUS
  <2>1. HistoryKey
    <3>1. ~(EditKey \/ ArrowKey)
      BY DEF EditKey, ArrowKey, Key
    <3>2. ~(UNCHANGED linevars \/ HistorySetMaxLen \/ Prompts \/ CompleteLine \/ Enter \/ EndOfFile \/ Interrupt)
      BY DEF linevars, HistorySetMaxLen, Prompts, CompleteLine, Enter, EndOfFile, Interrupt
    <3> QED BY <1>1, <3>1, <3>2, Zenon DEF LineNext
  <2>2. PICK dir \in {-1, 1} : HistoryNext(dir, Line(buf, pos))
    BY <2>1 DEF HistoryKey, Shown
  <2>3. Line(buf, pos).buf = buf /\ buf \in Seq(Char)
    BY <1>1 DEF Line, LineInv, LineTypeOK
  <2> QED BY <1>1, <2>2, <2>3, MoveKeeps
<1> QED BY <1>1, LineInvariance, PTL DEF LineSpec, MovesKeepLines
=============================================================================
