--------------------------- MODULE DaliConnProofs ---------------------------
(***************************************************************************)
(* Proofs about DaliConn for every value of its constants: type            *)
(* correctness, QueryModeQuiet and CommandsFitMode, all from the inductive *)
(* invariant IInv; the refinement of DLSession; and at the end that every  *)
(* call reads its own reply.  First come lemmas on the two directions of   *)
(* the stream: how the invariants of the commands (CommandInv) and of the  *)
(* units (UnitInv) survive what the client and the server send, take and   *)
(* lose.  Last is Console, which makes the calls: its prompt finds the     *)
(* connection in query mode, with nothing owed either way.                 *)
(***************************************************************************)
EXTENDS Console, DaliConnInv, SequenceTheorems, TLAPS

-----------------------------------------------------------------------------
(* The commands on their way to the server.                                *)

(* What Append() does to the commands on their way.                        *)
LEMMA AppendCommand ==
  ASSUME NEW q \in Seq(Commands), NEW x \in Commands
  PROVE  /\ Append(q, x) \in Seq(Commands)
         /\ Len(Append(q, x)) = Len(q) + 1
         /\ \A i \in 1..Len(q) : Append(q, x)[i] = q[i]
         /\ Append(q, x)[Len(q) + 1] = x
         /\ Len(q) \in Nat
  BY AppendProperties

(* What is left once the server has taken the first command.               *)
LEMMA TailCommand ==
  ASSUME NEW q \in Seq(Commands), q # <<>>
  PROVE  /\ Tail(q) \in Seq(Commands)
         /\ Len(q) \in Nat \ {0}
         /\ Len(Tail(q)) = Len(q) - 1
         /\ \A i \in 1..Len(Tail(q)) : Tail(q)[i] = q[i + 1]
         /\ Head(q) = q[1]
  BY HeadTailProperties, EmptySeq

(* Taking the first command keeps the order of those that switch modes.    *)
LEMMA TailOrder ==
  ASSUME NEW q \in Seq(Commands), q # <<>>,
         Once(q, "STREAM"), Once(q, "ENDSTREAM"), InOrder(q)
  PROVE  Once(Tail(q), "STREAM") /\ Once(Tail(q), "ENDSTREAM") /\ InOrder(Tail(q))
<1> DEFINE r == Tail(q)
<1>1. /\ Len(q) \in Nat \ {0} /\ Len(r) = Len(q) - 1
      /\ \A i \in 1..Len(r) : r[i] = q[i + 1]
  BY TailCommand
<1> HIDE DEF r
<1>2. \A i \in 1..Len(r) : i \in Int /\ i + 1 \in 1..Len(q) /\ r[i] = q[i + 1]
  BY <1>1
<1>3. ASSUME NEW c \in {"STREAM", "ENDSTREAM"}, Once(q, c)
      PROVE  Once(r, c)
  <2>1. SUFFICES ASSUME NEW i \in 1..Len(r), NEW j \in 1..Len(r), r[i] = c, r[j] = c
                 PROVE  i = j
    BY DEF Once
  <2>2. i + 1 = j + 1
    BY <1>2, <1>3, <2>1 DEF Once
  <2> QED BY <1>2, <2>2
<1>4. InOrder(r)
  <2>1. SUFFICES ASSUME NEW i \in 1..Len(r), NEW j \in 1..Len(r),
                        r[i] = "STREAM", r[j] = "ENDSTREAM"
                 PROVE  i < j
    BY DEF InOrder
  <2>2. i + 1 < j + 1
    BY <1>2, <2>1 DEF InOrder
  <2> QED BY <1>2, <2>2
<1> QED BY <1>3, <1>4 DEF r

(* A command that switches no mode may be sent in query mode; ID may       *)
(* always be sent, and a send may always be cut short.                     *)
LEMMA SendPlain ==
  ASSUME NEW m \in {-1, 0, 1}, NEW q \in Seq(Commands), NEW sm \in {"query", "stream"},
         NEW x \in Commands \ {"STREAM", "ENDSTREAM"},
         CommandInv(m, q, sm), m = 0 \/ x \in {"ID", "TORN"}
  PROVE  /\ CommandInv(m, Append(q, x), sm)
         /\ Has(Append(q, x), "ENDSTREAM") <=> Has(q, "ENDSTREAM")
         /\ Has(Append(q, x), "STREAM") <=> Has(q, "STREAM")
<1> DEFINE r == Append(q, x)
<1>1. /\ Len(r) = Len(q) + 1 /\ Len(q) \in Nat
      /\ \A i \in 1..Len(q) : r[i] = q[i]
      /\ r[Len(q) + 1] = x
  BY AppendCommand
<1> HIDE DEF r
<1>2. ASSUME NEW c \in {"STREAM", "ENDSTREAM"}
      PROVE  /\ Has(r, c) <=> Has(q, c)
             /\ \A i \in 1..Len(r) : r[i] = c => i \in 1..Len(q) /\ q[i] = c
  BY <1>1 DEF Has
<1>3. Once(r, "STREAM") /\ Once(r, "ENDSTREAM") /\ InOrder(r)
  BY <1>2 DEF CommandInv, Once, InOrder
<1>4. Fits(r, sm)
  BY <1>1, <1>2 DEF CommandInv, Fits, Has
<1> QED BY <1>2, <1>3, <1>4 DEF CommandInv, r

(* STREAM is sent in query mode.                                           *)
LEMMA SendStream ==
  ASSUME NEW q \in Seq(Commands), NEW sm \in {"query", "stream"}, CommandInv(0, q, sm)
  PROVE  CommandInv(1, Append(q, "STREAM"), sm)
<1> DEFINE r == Append(q, "STREAM")
<1>1. /\ Len(r) = Len(q) + 1 /\ Len(q) \in Nat
      /\ \A i \in 1..Len(q) : r[i] = q[i]
      /\ r[Len(q) + 1] = "STREAM"
  BY AppendCommand DEF Commands
<1> HIDE DEF r
<1>2. /\ sm = "query" /\ Has(r, "STREAM") /\ ~Has(r, "ENDSTREAM")
      /\ \A i \in 1..Len(r) : r[i] = "STREAM" => i = Len(q) + 1
  BY <1>1 DEF CommandInv, Has
<1>3. Once(r, "STREAM") /\ Once(r, "ENDSTREAM") /\ InOrder(r)
  BY <1>2 DEF Once, InOrder, Has
<1>4. Fits(r, sm)
  BY <1>1, <1>2 DEF Fits
<1> QED BY <1>2, <1>3, <1>4 DEF CommandInv, r

(* ENDSTREAM is sent while streaming.                                      *)
LEMMA SendEnd ==
  ASSUME NEW q \in Seq(Commands), NEW sm \in {"query", "stream"}, CommandInv(1, q, sm)
  PROVE  /\ CommandInv(-1, Append(q, "ENDSTREAM"), sm)
         /\ Has(Append(q, "ENDSTREAM"), "STREAM") <=> Has(q, "STREAM")
<1> DEFINE r == Append(q, "ENDSTREAM")
<1>1. /\ Len(r) = Len(q) + 1 /\ Len(q) \in Nat
      /\ \A i \in 1..Len(q) : r[i] = q[i]
      /\ r[Len(q) + 1] = "ENDSTREAM"
  BY AppendCommand DEF Commands
<1> HIDE DEF r
<1>2. /\ Has(r, "ENDSTREAM") /\ (Has(r, "STREAM") <=> Has(q, "STREAM"))
      /\ \A i \in 1..Len(r) : r[i] = "ENDSTREAM" => i = Len(q) + 1
      /\ \A i \in 1..Len(r) : r[i] = "STREAM" => i \in 1..Len(q) /\ q[i] = "STREAM"
  BY <1>1 DEF CommandInv, Has
<1>3. Once(r, "STREAM") /\ Once(r, "ENDSTREAM") /\ InOrder(r)
  BY <1>1, <1>2 DEF CommandInv, Once, InOrder
<1>4. Fits(r, sm)
  BY <1>1, <1>2 DEF CommandInv, Fits
<1> QED BY <1>2, <1>3, <1>4 DEF CommandInv, r

(* The server takes a command that switches no mode.                       *)
LEMMA TakePlain ==
  ASSUME NEW m \in {-1, 0, 1}, NEW q \in Seq(Commands), NEW sm \in {"query", "stream"},
         q # <<>>, Head(q) \notin {"STREAM", "ENDSTREAM"}, CommandInv(m, q, sm)
  PROVE  /\ CommandInv(m, Tail(q), sm)
         /\ Has(Tail(q), "ENDSTREAM") <=> Has(q, "ENDSTREAM")
         /\ Has(Tail(q), "STREAM") <=> Has(q, "STREAM")
<1> DEFINE r == Tail(q)
<1>1. /\ Len(q) \in Nat \ {0} /\ Len(r) = Len(q) - 1 /\ q[1] = Head(q)
      /\ \A i \in 1..Len(r) : r[i] = q[i + 1]
  BY TailCommand
<1> HIDE DEF r
<1>2. ASSUME NEW c \in {"STREAM", "ENDSTREAM"}
      PROVE  Has(r, c) <=> Has(q, c)
  <2>1. SUFFICES ASSUME Has(q, c) PROVE Has(r, c)
    BY <1>1 DEF Has
  <2>2. PICK i \in 1..Len(q) : q[i] = c
    BY <2>1 DEF Has
  <2>3. i # 1 /\ i - 1 \in 1..Len(r) /\ r[i - 1] = c
    BY <1>1, <2>2
  <2> QED BY <2>3 DEF Has
<1>3. Once(r, "STREAM") /\ Once(r, "ENDSTREAM") /\ InOrder(r)
  BY TailOrder DEF CommandInv, r
<1>4. Fits(r, sm)
  BY <1>1 DEF CommandInv, Fits
<1> QED BY <1>2, <1>3, <1>4 DEF CommandInv, r

(* The server takes STREAM, and is streaming.                              *)
LEMMA TakeStream ==
  ASSUME NEW m \in {-1, 0, 1}, NEW q \in Seq(Commands), NEW sm \in {"query", "stream"},
         q # <<>>, Head(q) = "STREAM", CommandInv(m, q, sm)
  PROVE  /\ CommandInv(m, Tail(q), "stream") /\ m # 0 /\ sm = "query"
         /\ Has(Tail(q), "ENDSTREAM") <=> Has(q, "ENDSTREAM")
         /\ ~Has(Tail(q), "STREAM")
<1> DEFINE r == Tail(q)
<1>1. /\ Len(q) \in Nat \ {0} /\ Len(r) = Len(q) - 1 /\ q[1] = "STREAM"
      /\ \A i \in 1..Len(r) : r[i] = q[i + 1]
  BY TailCommand
<1> HIDE DEF r
<1>2. Has(q, "STREAM") /\ ~Has(r, "STREAM")
  BY <1>1 DEF CommandInv, Has, Once
<1>3. Has(r, "ENDSTREAM") <=> Has(q, "ENDSTREAM")
  <2>1. SUFFICES ASSUME Has(q, "ENDSTREAM") PROVE Has(r, "ENDSTREAM")
    BY <1>1 DEF Has
  <2>2. PICK i \in 1..Len(q) : q[i] = "ENDSTREAM"
    BY <2>1 DEF Has
  <2>3. i # 1 /\ i - 1 \in 1..Len(r) /\ r[i - 1] = "ENDSTREAM"
    BY <1>1, <2>2
  <2> QED BY <2>3 DEF Has
<1>4. Once(r, "STREAM") /\ Once(r, "ENDSTREAM") /\ InOrder(r)
  BY TailOrder DEF CommandInv, r
<1>5. Fits(r, "stream")
  BY <1>1 DEF CommandInv, Fits
<1>6. m # 0 /\ sm = "query"
  BY <1>2 DEF CommandInv
<1> QED BY <1>2, <1>3, <1>4, <1>5, <1>6 DEF CommandInv, r

(* The server takes ENDSTREAM, necessarily while streaming, and is back in *)
(* query mode.                                                             *)
LEMMA TakeEnd ==
  ASSUME NEW m \in {-1, 0, 1}, NEW q \in Seq(Commands), NEW sm \in {"query", "stream"},
         q # <<>>, Head(q) = "ENDSTREAM", CommandInv(m, q, sm)
  PROVE  /\ CommandInv(m, Tail(q), "query") /\ m = -1 /\ sm = "stream"
         /\ Has(q, "ENDSTREAM") /\ ~Has(q, "STREAM")
         /\ ~Has(Tail(q), "ENDSTREAM") /\ ~Has(Tail(q), "STREAM")
<1> DEFINE r == Tail(q)
<1>1. /\ Len(q) \in Nat \ {0} /\ Len(r) = Len(q) - 1 /\ q[1] = "ENDSTREAM"
      /\ \A i \in 1..Len(r) : r[i] = q[i + 1]
  BY TailCommand
<1> HIDE DEF r
<1>2. Has(q, "ENDSTREAM") /\ m = -1
  BY <1>1 DEF CommandInv, Has
<1>3. ~Has(q, "STREAM") /\ ~Has(r, "STREAM") /\ ~Has(r, "ENDSTREAM")
  BY <1>1 DEF CommandInv, Has, Once, InOrder
<1>4. sm = "stream"
  BY <1>2, <1>3 DEF CommandInv
<1>5. Once(r, "STREAM") /\ Once(r, "ENDSTREAM") /\ InOrder(r) /\ Fits(r, "query")
  BY <1>3 DEF Once, InOrder, Fits, Has
<1> QED BY <1>2, <1>3, <1>4, <1>5 DEF CommandInv, r

-----------------------------------------------------------------------------
(* The units on their way to the client.                                   *)

(* What is left once the client has taken the first unit.                  *)
LEMMA TailUnits ==
  ASSUME NEW q \in Seq(Units), q # <<>>
  PROVE  /\ Tail(q) \in Seq(Units)
         /\ Len(q) \in Nat \ {0}
         /\ Len(Tail(q)) = Len(q) - 1
         /\ \A i \in 1..Len(Tail(q)) : Tail(q)[i] = q[i + 1]
         /\ Head(q) = q[1] /\ Head(q) \in Units
  BY HeadTailProperties, EmptySeq

(* A stream of which nothing is read is a part of itself.                  *)
LEMMA PartSelf ==
  ASSUME NEW q \in Seq(Units)
  PROVE  Part(q, q)
<1>1. Len(q) \in Nat
  BY LenProperties
<1>2. \A i \in 1..Len(q) : q[i].src = q[i + 0].src /\ q[i].k \in {q[i + 0].k, "DATA"}
  BY <1>1
<1> QED BY <1>1, <1>2 DEF Part

(* So is what is left when the first unit has been read.                   *)
LEMMA PartTail ==
  ASSUME NEW q \in Seq(Units), q # <<>>
  PROVE  Part(Tail(q), q)
<1>1. /\ 1 \in 0..Len(q) /\ Len(Tail(q)) + 1 <= Len(q)
      /\ \A i \in 1..Len(Tail(q)) : Tail(q)[i] = q[i + 1]
  BY TailUnits
<1> QED BY <1>1 DEF Part

(* So is a stream whose first unit a failed recv() has cut.                *)
LEMMA PartTorn ==
  ASSUME NEW q \in Seq(Units), q # <<>>
  PROVE  Torn(q) \in Seq(Units) /\ Part(Torn(q), q)
<1> DEFINE r == Torn(q)
<1>1. Len(q) \in Nat \ {0} /\ q \in [1..Len(q) -> Units] /\ q[1] \in Units
  BY LenProperties, EmptySeq, ElementOfSeq
<1>2. /\ Payload(q[1].src) \in Units
      /\ Payload(q[1].src).src = q[1].src /\ Payload(q[1].src).k = "DATA"
  BY <1>1 DEF Payload, Header, Units, AllValues, AllBodies
<1>3. /\ r \in [1..Len(q) -> Units]
      /\ r[1] = Payload(q[1].src)
      /\ \A i \in 1..Len(q) : i # 1 => r[i] = q[i]
  BY <1>1, <1>2 DEF Torn
<1>4. r \in Seq(Units) /\ Len(r) = Len(q)
  BY <1>1, <1>3
<1> HIDE DEF r
<1>5. ASSUME NEW i \in 1..Len(r)
      PROVE  r[i].src = q[i + 0].src /\ r[i].k \in {q[i + 0].k, "DATA"}
  <2>1. i + 0 = i /\ i \in 1..Len(q)
    BY <1>1, <1>4
  <2>2. CASE i = 1
    BY <1>2, <1>3, <2>1, <2>2
  <2>3. CASE i # 1
    BY <1>3, <2>1, <2>3
  <2> QED BY <2>2, <2>3
<1>6. 0 \in 0..Len(q) /\ Len(r) + 0 <= Len(q)
  BY <1>1, <1>4
<1>7. Part(r, q)
  BY <1>5, <1>6 DEF Part
<1> QED BY <1>4, <1>7 DEF r

(* A part of a part is a part.                                             *)
LEMMA PartTrans ==
  ASSUME NEW p \in Seq(Units), NEW q \in Seq(Units), NEW r \in Seq(Units),
         Part(r, q), Part(q, p)
  PROVE  Part(r, p)
<1>1. Len(p) \in Nat /\ Len(q) \in Nat /\ Len(r) \in Nat
  BY LenProperties
<1>2. PICK d \in 0..Len(q) :
        /\ Len(r) + d <= Len(q)
        /\ \A i \in 1..Len(r) : r[i].src = q[i + d].src /\ r[i].k \in {q[i + d].k, "DATA"}
  BY DEF Part
<1>3. PICK e \in 0..Len(p) :
        /\ Len(q) + e <= Len(p)
        /\ \A i \in 1..Len(q) : q[i].src = p[i + e].src /\ q[i].k \in {p[i + e].k, "DATA"}
  BY DEF Part
<1>4. d + e \in 0..Len(p) /\ Len(r) + (d + e) <= Len(p)
  BY <1>1, <1>2, <1>3
<1>5. ASSUME NEW i \in 1..Len(r)
      PROVE  r[i].src = p[i + (d + e)].src /\ r[i].k \in {p[i + (d + e)].k, "DATA"}
  <2>1. i + d \in 1..Len(q) /\ (i + d) + e = i + (d + e)
    BY <1>1, <1>2, <1>3
  <2> QED BY <1>2, <1>3, <2>1
<1> QED BY <1>4, <1>5 DEF Part

(* What a shutdown by the server leaves in the stream is a part of it.     *)
LEMMA PartPrefix ==
  ASSUME NEW q \in Seq(Units), NEW n \in 0..Len(q)
  PROVE  SubSeq(q, 1, n) \in Seq(Units) /\ Part(SubSeq(q, 1, n), q)
<1>1. Len(q) \in Nat /\ \A i \in 1..n : q[i] \in Units
  BY LenProperties, ElementOfSeq
<1>2. /\ SubSeq(q, 1, n) \in Seq(Units)
      /\ Len(SubSeq(q, 1, n)) = IF 1 <= n THEN n - 1 + 1 ELSE 0
      /\ \A i \in 1..(n - 1 + 1) : SubSeq(q, 1, n)[i] = q[1 + i - 1]
  BY <1>1, SubSeqProperties
<1>3. Len(SubSeq(q, 1, n)) = n
  BY <1>1, <1>2
<1>4. \A i \in 1..n : SubSeq(q, 1, n)[i] = q[i + 0]
  BY <1>1, <1>2
<1> QED BY <1>1, <1>2, <1>3, <1>4 DEF Part

(* Reading bytes that start no packet leaves a part of what there was.     *)
LEMMA PartMisread ==
  ASSUME NEW q \in Seq(Units), q # <<>>, NEW r \in Misread(q)
  PROVE  r \in Seq(Units) /\ Part(r, q)
<1>1. Tail(q) \in Seq(Units) /\ Len(Tail(q)) = Len(q) - 1 /\ Len(q) \in Nat
  BY TailUnits
<1>2. CASE r = q
  BY <1>2, PartSelf
<1>3. CASE r = Tail(q)
  BY <1>1, <1>3, PartTail
<1>4. CASE Len(q) > 1 /\ r = Torn(Tail(q))
  <2>1. Tail(q) # <<>>
    BY <1>1, <1>4, EmptySeq
  <2>2. Torn(Tail(q)) \in Seq(Units) /\ Part(Torn(Tail(q)), Tail(q)) /\ Part(Tail(q), q)
    BY <1>1, <2>1, PartTorn, PartTail
  <2> QED BY <1>1, <1>4, <2>2, PartTrans
<1> QED BY <1>2, <1>3, <1>4 DEF Misread

(* A recv() that times out or is interrupted leaves a part.                *)
LEMMA PartInterrupted ==
  ASSUME NEW q \in Seq(Units), NEW r \in Interrupted(q)
  PROVE  r \in Seq(Units) /\ Part(r, q)
  BY PartSelf, PartTorn DEF Interrupted

(* So does reading a message whatever there is (dl_sendpacket() failed).   *)
LEMMA PartPeeked ==
  ASSUME NEW q \in Seq(Units), NEW r \in Peeked(q)
  PROVE  r \in Seq(Units) /\ Part(r, q)
  BY PartSelf, PartTail, TailUnits, PartMisread DEF Peeked

(* A part of the stream keeps its invariant.                               *)
LEMMA PartInv ==
  ASSUME NEW m \in {-1, 0, 1}, NEW q \in Seq(Units), NEW r \in Seq(Units),
         Part(r, q), UnitInv(m, q)
  PROVE  UnitInv(m, r) /\ (NoEnd(q) => NoEnd(r))
<1>1. Len(q) \in Nat /\ Len(r) \in Nat
  BY LenProperties
<1>2. PICK d \in 0..Len(q) :
        /\ Len(r) + d <= Len(q)
        /\ \A i \in 1..Len(r) : r[i].src = q[i + d].src /\ r[i].k \in {q[i + d].k, "DATA"}
  BY DEF Part
<1>3. \A i \in 1..Len(r) :
        /\ i + d \in 1..Len(q)
        /\ r[i].src = q[i + d].src
        /\ r[i].k = "ENDSTREAM" => q[i + d].k = "ENDSTREAM"
  BY <1>1, <1>2
<1>4. /\ \A i \in 1..Len(r) : r[i].k = "ENDSTREAM" => r[i].src = "stream"
      /\ Quiet(q) => Quiet(r)
      /\ NoEnd(q) => NoEnd(r)
  BY <1>3 DEF UnitInv, Quiet, NoEnd
<1>5. ASSUME NEW i \in 1..Len(r), NEW j \in 1..Len(r), i < j, r[i].k = "ENDSTREAM"
      PROVE  r[j].src # "stream"
  <2>1. i + d < j + d
    BY <1>1, <1>5
  <2> QED BY <1>3, <1>5, <2>1 DEF UnitInv
<1> QED BY <1>4, <1>5 DEF UnitInv

(* The server appends a reply, or a packet while there is no ENDSTREAM.    *)
LEMMA AppendUnit ==
  ASSUME NEW m \in {-1, 0, 1}, NEW q \in Seq(Units), NEW x \in Units,
         UnitInv(m, q), x.k # "ENDSTREAM", x.src = "reply" \/ (NoEnd(q) /\ m # 0)
  PROVE  /\ Append(q, x) \in Seq(Units)
         /\ UnitInv(m, Append(q, x))
         /\ NoEnd(q) => NoEnd(Append(q, x))
<1> DEFINE r == Append(q, x)
<1>1. /\ r \in Seq(Units) /\ Len(q) \in Nat /\ Len(r) = Len(q) + 1
      /\ \A i \in 1..Len(q) : r[i] = q[i]
      /\ r[Len(q) + 1] = x
  BY AppendProperties, LenProperties
<1> HIDE DEF r
<1>2. /\ \A i \in 1..Len(r) : r[i].k = "ENDSTREAM" => r[i].src = "stream"
      /\ NoEnd(q) => NoEnd(r)
      /\ m = 0 => Quiet(r)
  BY <1>1 DEF UnitInv, NoEnd, Quiet
<1>3. ASSUME NEW i \in 1..Len(r), NEW j \in 1..Len(r), i < j, r[i].k = "ENDSTREAM"
      PROVE  r[j].src # "stream"
  BY <1>1, <1>3 DEF UnitInv, NoEnd
<1> QED BY <1>1, <1>2, <1>3 DEF UnitInv, r

(* The same with the body that follows a header.                           *)
LEMMA PushInv ==
  ASSUME NEW m \in {-1, 0, 1}, NEW q \in Seq(Units), NEW h \in Units,
         UnitInv(m, q), h.k # "ENDSTREAM", h.src = "reply" \/ (NoEnd(q) /\ m # 0)
  PROVE  /\ Push(q, h) \in Seq(Units)
         /\ UnitInv(m, Push(q, h))
         /\ NoEnd(q) => NoEnd(Push(q, h))
<1>1. /\ Append(q, h) \in Seq(Units) /\ UnitInv(m, Append(q, h))
      /\ NoEnd(q) => NoEnd(Append(q, h))
  BY AppendUnit
<1>2. /\ Payload(h.src) \in Units /\ Payload(h.src).k = "DATA" /\ Payload(h.src).src = h.src
  BY DEF Payload, Header, Units, AllValues, AllBodies
<1>3. /\ Append(Append(q, h), Payload(h.src)) \in Seq(Units)
      /\ UnitInv(m, Append(Append(q, h), Payload(h.src)))
      /\ NoEnd(Append(q, h)) => NoEnd(Append(Append(q, h), Payload(h.src)))
  <2>1. Payload(h.src).src = "reply" \/ (NoEnd(Append(q, h)) /\ m # 0)
    BY <1>1, <1>2
  <2> QED BY <1>1, <1>2, <2>1, AppendUnit
<1> QED BY <1>1, <1>3 DEF Push

(* The server ends the stream.                                             *)
LEMMA AppendEnd ==
  ASSUME NEW q \in Seq(Units), UnitInv(-1, q), NoEnd(q),
         NEW x \in Units, x.k = "ENDSTREAM", x.src = "stream"
  PROVE  Append(q, x) \in Seq(Units) /\ UnitInv(-1, Append(q, x))
<1> DEFINE r == Append(q, x)
<1>1. /\ r \in Seq(Units) /\ Len(q) \in Nat /\ Len(r) = Len(q) + 1
      /\ \A i \in 1..Len(q) : r[i] = q[i]
      /\ r[Len(q) + 1] = x
  BY AppendProperties, LenProperties
<1> HIDE DEF r
<1>2. \A i \in 1..Len(r) : r[i].k = "ENDSTREAM" => i = Len(q) + 1
  BY <1>1 DEF NoEnd
<1>3. \A i \in 1..Len(r) : r[i].k = "ENDSTREAM" => r[i].src = "stream"
  BY <1>1, <1>2
<1>4. ASSUME NEW i \in 1..Len(r), NEW j \in 1..Len(r), i < j, r[i].k = "ENDSTREAM"
      PROVE  FALSE
  BY <1>1, <1>2, <1>4
<1> QED BY <1>1, <1>3, <1>4 DEF UnitInv, r
-----------------------------------------------------------------------------
(* The connection.                                                         *)

(* The parts of TypeOK: the DLCP, the call in progress, the connection.    *)
DlcpType ==
  /\ link \in {NoLink, Fd}
  /\ streaming \in {-1, 0, 1}
  /\ trig \in {-1, 0, 1}
  /\ terminate \in {0, 1}

CallType ==
  /\ fn \in AllCalls \cup {"none", "connect"}
  /\ pc \in {"idle", "exchange", "reply", "message", "data", "discard", "loop", "recv"}
  /\ hdr \in Units \cup {NoHdr}
  /\ ret \in {DLERROR, DLENDED, DLPACKET, DLNOPACKET, Fd}
  /\ clean \in BOOLEAN

NetType ==
  /\ sock \in {"open", "closed"}
  /\ peer \in {"up", "fin"}
  /\ c2s \in Seq(Commands)
  /\ s2c \in Seq(Units)
  /\ smode \in {"query", "stream"}
  /\ faults \in 0..MaxFaults

NetInv == NetType /\ SocketInv /\ WireInv

(* A receive, a failed send, or nothing: units are taken from the stream,  *)
(* and no command is sent unless cut short.                                *)
Lossy ==
  /\ UNCHANGED <<sock, peer, smode>>
  /\ faults' \in 0..MaxFaults
  /\ s2c' \in Seq(Units) /\ Part(s2c', s2c)
  /\ c2s' = c2s \/ (peer = "up" /\ c2s' = Append(c2s, "TORN"))

-----------------------------------------------------------------------------
(* Receiving and failing to send are lossy steps.                          *)
LEMMA LossyReceive ==
  ASSUME NetType, HeaderArrived \/ BodyArrived \/ NoSync \/ RecvTimesOut \/ PeerShutdown
  PROVE  Lossy
<1>1. CASE HeaderArrived \/ BodyArrived
  BY <1>1, PartTail, TailUnits DEF NetType, HeaderArrived, BodyArrived, Lossy
<1>2. CASE NoSync
  BY <1>2, PartMisread DEF NetType, NoSync, Lossy
<1>3. CASE RecvTimesOut
  BY <1>3, PartInterrupted, BoundsAssumption DEF NetType, RecvTimesOut, Fault, Lossy
<1>4. CASE PeerShutdown
  BY <1>4, PartSelf DEF NetType, PeerShutdown, Lossy, net
<1> QED BY <1>1, <1>2, <1>3, <1>4

(* So is a send that fails.                                                *)
LEMMA LossySendFails ==
  ASSUME NetType, NEW resp \in BOOLEAN, SendFails(resp)
  PROVE  Lossy
<1>1. s2c' \in Seq(Units) /\ Part(s2c', s2c)
  BY PartSelf, PartPeeked DEF NetType, SendFails
<1>2. /\ UNCHANGED <<sock, peer, smode>>
      /\ faults' \in 0..MaxFaults
      /\ c2s' = c2s \/ (peer = "up" /\ c2s' = Append(c2s, "TORN"))
  BY BoundsAssumption DEF NetType, SendFails, Fault
<1> QED BY <1>1, <1>2 DEF Lossy

(* So is a step that leaves the connection alone.                          *)
LEMMA LossyNothing ==
  ASSUME NetType, UNCHANGED net
  PROVE  Lossy
  BY PartSelf DEF NetType, Lossy, net

(* A lossy step that keeps the mode keeps the invariant.                   *)
LEMMA LossyKeeps ==
  ASSUME NetInv, DlcpType, Lossy, UNCHANGED streaming, pc # "exchange"
  PROVE  NetInv'
<1>1. NetType' /\ SocketInv'
  <2>1. c2s' \in Seq(Commands)
    BY AppendCommand DEF NetInv, NetType, Lossy, Commands
  <2>2. s2c = <<>> => s2c' = <<>>
    BY EmptySeq, LenProperties DEF NetInv, NetType, Lossy, Part
  <2> QED BY <2>1, <2>2 DEF NetInv, NetType, SocketInv, Lossy
<1>2. ASSUME sock = "open"
      PROVE  Settled'
  <2>0. Settled
    BY <1>2 DEF NetInv, WireInv, Connected
  <2>1. UnitInv(streaming, s2c') /\ (NoEnd(s2c) => NoEnd(s2c'))
    BY <2>0, PartInv DEF NetInv, NetType, Settled, Lossy, DlcpType
  <2>2. ASSUME peer = "up"
        PROVE  /\ CommandInv(streaming, c2s', smode)
               /\ Has(c2s', "ENDSTREAM") <=> Has(c2s, "ENDSTREAM")
    <3>1. CommandInv(streaming, c2s, smode)
      BY <2>0, <2>2 DEF Settled
    <3>2. CASE c2s' = c2s
      BY <3>1, <3>2
    <3>3. CASE c2s' = Append(c2s, "TORN")
      <4>1. /\ streaming \in {-1, 0, 1} /\ c2s \in Seq(Commands) /\ smode \in {"query", "stream"}
            /\ "TORN" \in Commands \ {"STREAM", "ENDSTREAM"} /\ "TORN" \in {"ID", "TORN"}
        BY DEF NetInv, NetType, DlcpType, Commands
      <4> QED BY <3>1, <3>3, <4>1, SendPlain
    <3> QED BY <3>2, <3>3 DEF Lossy
  <2>3. smode' = smode /\ streaming' = streaming /\ peer' = peer
    BY DEF Lossy
  <2> QED BY <2>0, <2>1, <2>2, <2>3 DEF Settled
<1>3. WireInv'
  BY <1>2 DEF WireInv, Connected, Lossy
<1> QED BY <1>1, <1>3 DEF NetInv

(* A command is sent where Settled holds: an ID at any time, any command   *)
(* but STREAM and ENDSTREAM in query mode.                                 *)
LEMMA SendKeeps ==
  ASSUME NetInv, DlcpType, Settled, NEW x \in Commands \ {"STREAM", "ENDSTREAM"},
         streaming = 0 \/ x = "ID", Send(x), UNCHANGED streaming
  PROVE  NetInv'
<1>1. NetType' /\ SocketInv'
  <2>1. c2s' \in Seq(Commands)
    BY AppendCommand DEF NetInv, NetType, Send
  <2> QED BY <2>1 DEF NetInv, NetType, SocketInv, Send
<1>2. ASSUME peer = "up"
      PROVE  /\ CommandInv(streaming, c2s', smode)
             /\ Has(c2s', "ENDSTREAM") <=> Has(c2s, "ENDSTREAM")
  <2>1. c2s' = Append(c2s, x) /\ CommandInv(streaming, c2s, smode)
    BY <1>2 DEF Send, Settled
  <2> QED BY <2>1, SendPlain DEF NetInv, NetType, DlcpType
<1>3. Settled'
  BY <1>2 DEF Settled, Send
<1> QED BY <1>1, <1>3 DEF NetInv, WireInv

(* STREAM is sent in query mode, ENDSTREAM while streaming.                *)
LEMMA SwitchKeeps ==
  ASSUME NetInv, DlcpType, pc # "exchange", NEW x \in {"STREAM", "ENDSTREAM"}, Send(x),
         IF x = "STREAM" THEN streaming = 0 /\ streaming' = 1
                         ELSE streaming = 1 /\ streaming' = -1
  PROVE  NetInv'
<1>1. NetType' /\ SocketInv'
  <2>1. x \in Commands
    BY DEF Commands
  <2>2. c2s' \in Seq(Commands)
    BY <2>1, AppendCommand DEF NetInv, NetType, Send
  <2> QED BY <2>2 DEF NetInv, NetType, SocketInv, Send
<1>2. Settled
  BY DEF NetInv, WireInv, Connected, Send
<1>3. NoEnd(s2c) /\ UnitInv(streaming', s2c)
  BY <1>2 DEF Settled, UnitInv, NoEnd, Quiet
<1>4. ASSUME peer = "up"
      PROVE  CommandInv(streaming', c2s', smode)
  <2>1. c2s' = Append(c2s, x) /\ CommandInv(streaming, c2s, smode)
    BY <1>2, <1>4 DEF Send, Settled
  <2> QED BY <2>1, SendStream, SendEnd DEF NetInv, NetType
<1>5. Settled'
  BY <1>3, <1>4 DEF Settled, Send
<1> QED BY <1>1, <1>5 DEF NetInv, WireInv

(* Closing the socket keeps it.                                            *)
LEMMA CloseKeeps ==
  ASSUME CloseSocket, faults' \in 0..MaxFaults
  PROVE  NetInv'
  BY EmptySeq DEF CloseSocket, NetInv, NetType, SocketInv, WireInv, Connected

-----------------------------------------------------------------------------
(* The call in progress.                                                   *)

(* IInv by what its parts are about.                                       *)
LEMMA InvParts ==
  /\ IInv <=> DlcpType /\ CallType /\ CallInv /\ NetInv
  /\ (IInv <=> DlcpType /\ CallType /\ CallInv /\ NetInv)'
  BY DEF IInv, TypeOK, DlcpType, CallType, NetInv, NetType

Results == {DLERROR, DLENDED, DLPACKET, DLNOPACKET, Fd}

(* A call that returns a result leaves no call in progress.                *)
LEMMA Returning ==
  ASSUME NEW v \in Results, Return(v), clean' \in BOOLEAN
  PROVE  CallType' /\ CallInv'
  BY DEF Results, Return, CallType, CallInv, CollectFns

(* A call goes on with the loop or a receive.                              *)
LEMMA GoingOn ==
  ASSUME CallType, NEW f \in AllCalls, NEW l \in {"reply", "data", "discard", "loop", "recv"},
         Goto(f, l), clean' \in BOOLEAN, sock' = "open",
         l \in {"loop", "recv"} => f \in CollectFns
  PROVE  CallType' /\ CallInv'
<1>1. f # "connect"
  BY DEF AllCalls, ReplyFns, CollectFns
<1> QED BY <1>1 DEF Goto, CallType, CallInv, DLENDED

(* What a request returns is an error or the integer of the reply.         *)
LEMMA ReplyResultType ==
  ASSUME NEW f, NEW rv \in {-1, 0, 1}, NEW v \in AllValues
  PROVE  ReplyResult(f, rv, v) \in Results
  BY DEF ReplyResult, AllValues, Results, DLERROR, DLENDED, DLPACKET

(* dl_handlereply() returns, or goes on with the message of the reply.     *)
LEMMA HandlingReply ==
  ASSUME CallType, CallInv, NEW h \in Units, HandleReply(h),
         pc = "reply", fn # "connect", sock' = "open"
  PROVE  CallType' /\ CallInv'
<1>1. ReplyStatus(h) \in {-1, 0, 1} /\ h.val \in AllValues
  BY DEF ReplyStatus, Units
<1>2. CASE ReplyStatus(h) >= 0 /\ h.body = "fits"
  BY <1>2 DEF HandleReply, CallType, CallInv
<1>3. CASE ~(ReplyStatus(h) >= 0 /\ h.body = "fits")
  <2>1. Return(ReplyResult(fn, ReplyStatus(h), h.val)) /\ clean' \in BOOLEAN
    BY <1>3, Zenon DEF HandleReply, CallType
  <2> QED BY <1>1, <2>1, ReplyResultType, Returning
<1> QED BY <1>2, <1>3

-----------------------------------------------------------------------------
(* Every step keeps IInv.                                                  *)

(* A step of a call that sends nothing and keeps the mode.                 *)
LEMMA ReadingKeeps ==
  ASSUME IInv, DlcpType', CallType', CallInv', Lossy, UNCHANGED streaming, pc # "exchange"
  PROVE  IInv'
  BY InvParts, LossyKeeps

(* The replies to the requests.                                            *)
LEMMA RepliesKeep ==
  ASSUME IInv,
         \/ ReplyHeader \/ ReplyMessage \/ ReadHeader \/ ReadDiscard \/ InfoHeader
         \/ DataBody \/ RawIDReply \/ ReceiveFails
  PROVE  IInv'
<1>1. DlcpType /\ CallType /\ CallInv /\ NetType /\ clean \in BOOLEAN /\ {-1, 0, 1} \subseteq Results
  BY InvParts DEF NetInv, CallType, Results, DLERROR, DLENDED, DLPACKET
<1>2. UNCHANGED dlcp /\ pc # "exchange"
  BY DEF ReplyHeader, ReplyMessage, ReadHeader, ReadDiscard, InfoHeader, DataBody,
         RawIDReply, ReceiveFails
<1>3. Lossy
  BY <1>1, LossyReceive DEF ReplyHeader, ReplyMessage, ReadHeader, ReadDiscard, InfoHeader,
         DataBody, RawIDReply, ReceiveFails
<1>4. DlcpType' /\ UNCHANGED streaming
  BY <1>1, <1>2 DEF DlcpType, dlcp
<1>5. pc # "idle" /\ sock' = "open"
  BY <1>1, <1>3 DEF CallInv, Lossy, ReplyHeader, ReplyMessage, ReadHeader, ReadDiscard,
         InfoHeader, DataBody, RawIDReply, ReceiveFails
<1>6. CallType' /\ CallInv'
  <2>0. HeaderArrived => Head(s2c) \in Units
    BY <1>1, TailUnits DEF HeaderArrived, NetType
  <2>1. CASE ReplyHeader
    <3>1. fn # "connect" /\ pc = "reply" /\ HandleReply(Head(s2c)) /\ Head(s2c) \in Units
      BY <2>0, <2>1 DEF ReplyHeader, ReplyFns
    <3> QED BY <1>1, <1>5, <3>1, HandlingReply
  <2>2. CASE ReplyMessage
    <3>1. hdr.val \in AllValues /\ ReplyStatus(hdr) \in {-1, 0, 1}
      BY <1>1 DEF CallType, Units, NoHdr, Header, AllValues, ReplyStatus
    <3> QED BY <1>1, <2>2, <3>1, ReplyResultType, Returning DEF ReplyMessage
  <2>3. CASE ReadHeader
    <3>1. pc = "reply" /\ fn \in AllCalls /\ fn # "connect" /\ Head(s2c) \in Units
      BY <2>0, <2>3 DEF ReadHeader, AllCalls
    <3>2. \/ Goto(fn, "data") /\ UNCHANGED clean
          \/ Goto(fn, "discard") /\ UNCHANGED clean
          \/ Return(0) /\ UNCHANGED clean
          \/ HandleReply(Head(s2c))
          \/ Return(-1) /\ clean' = FALSE
      BY <2>3, Zenon DEF ReadHeader
    <3> QED BY <1>1, <1>5, <3>1, <3>2, GoingOn, Returning, HandlingReply
  <2>4. CASE ReadDiscard \/ DataBody \/ RawIDReply
    BY <1>1, <2>4, Returning DEF ReadDiscard, DataBody, RawIDReply, DLPACKET
  <2>5. CASE InfoHeader
    <3>1. pc = "reply" /\ fn \in AllCalls /\ fn # "connect" /\ Head(s2c) \in Units
      BY <2>0, <2>5 DEF InfoHeader, AllCalls
    <3>2. \/ Goto(fn, "data") /\ UNCHANGED clean
          \/ Return(0) /\ UNCHANGED clean
          \/ HandleReply(Head(s2c))
          \/ Return(-1) /\ clean' = FALSE
      BY <2>5, Zenon DEF InfoHeader
    <3> QED BY <1>1, <1>5, <3>1, <3>2, GoingOn, Returning, HandlingReply
  <2>6. CASE ReceiveFails
    <3>1. Return(-1) \/ Return(0)
      BY <2>6 DEF ReceiveFails, DLENDED
    <3> QED BY <1>1, <2>6, <3>1, Returning DEF ReceiveFails
  <2> QED BY <2>1, <2>2, <2>3, <2>4, <2>5, <2>6
<1> QED BY <1>2, <1>3, <1>4, <1>6, ReadingKeeps

(* The timer of the keepalive trigger.                                     *)
LEMMA TimerType ==
  ASSUME NEW t \in {-1, 0, 1}, NEW u \in Timer(t)
  PROVE  u \in {-1, 0, 1}
<1>1. CASE KeepaliveOn
  <2>1. Timer(t) \subseteq {-1, 0, 1}
    BY <1>1 DEF Timer
  <2> QED BY <2>1
<1>2. CASE ~KeepaliveOn
  BY <1>2 DEF Timer
<1> QED BY <1>1, <1>2

(* ENDSTREAM is received: the stream has ended in both directions.         *)
LEMMA EndKeeps ==
  ASSUME NetInv, DlcpType, pc # "exchange", sock = "open", HeaderArrived,
         Head(s2c).k = "ENDSTREAM", streaming' = 0
  PROVE  NetInv'
<1>1. /\ s2c \in Seq(Units) /\ s2c # <<>> /\ s2c' = Tail(s2c)
      /\ UNCHANGED <<sock, peer, c2s, smode, faults>>
  BY DEF HeaderArrived, NetInv, NetType
<1>2. /\ Tail(s2c) \in Seq(Units) /\ Len(s2c) \in Nat \ {0} /\ Len(Tail(s2c)) = Len(s2c) - 1
      /\ \A i \in 1..Len(Tail(s2c)) : Tail(s2c)[i] = s2c[i + 1]
      /\ Head(s2c) = s2c[1]
  BY <1>1, TailUnits
<1>3. NetType' /\ SocketInv'
  BY <1>1, <1>2 DEF NetInv, NetType, SocketInv
<1>4. Settled
  BY DEF NetInv, WireInv, Connected
<1>5. s2c[1].src = "stream" /\ ~NoEnd(s2c) /\ ~Quiet(s2c)
  BY <1>2, <1>4 DEF Settled, UnitInv, NoEnd, Quiet
<1>6. streaming = -1
  BY <1>4, <1>5 DEF Settled, UnitInv, DlcpType
<1>7. \A i \in 1..Len(s2c') : s2c'[i].src # "stream" /\ s2c'[i].k # "ENDSTREAM"
  <2>1. SUFFICES ASSUME NEW i \in 1..Len(s2c')
                 PROVE  s2c'[i].src # "stream" /\ s2c'[i].k # "ENDSTREAM"
    OBVIOUS
  <2>2. s2c'[i] = s2c[i + 1] /\ i + 1 \in 1..Len(s2c) /\ 1 \in 1..Len(s2c) /\ 1 < i + 1
    BY <1>1, <1>2
  <2>3. s2c[i + 1].src # "stream"
    BY <1>2, <1>4, <2>2 DEF Settled, UnitInv
  <2> QED BY <1>4, <2>2, <2>3 DEF Settled, UnitInv
<1>8. UnitInv(0, s2c')
  BY <1>7 DEF UnitInv, Quiet
<1>9. ASSUME peer = "up"
      PROVE  CommandInv(0, c2s, smode)
  BY <1>4, <1>5, <1>6, <1>9 DEF Settled, CommandInv
<1>10. Settled'
  BY <1>1, <1>8, <1>9 DEF Settled
<1> QED BY <1>3, <1>10 DEF NetInv, WireInv

(* The end of an iteration of dl_collect() or dl_collect_nb().             *)
LEMMA IteratingKeeps ==
  ASSUME DlcpType, CallType, NEW t \in {-1, 0, 1}, NoPacketYet(t), UNCHANGED streaming,
         fn \in CollectFns, sock' = "open"
  PROVE  DlcpType' /\ CallType' /\ CallInv'
<1>1. DlcpType'
  <2>1. trig' \in {-1, 0, 1}
    BY TimerType DEF NoPacketYet
  <2> QED BY <2>1 DEF NoPacketYet, DlcpType
<1>2. clean' \in BOOLEAN
  BY DEF NoPacketYet, CallType
<1>3. CASE fn = "collect"
  BY <1>1, <1>2, <1>3, GoingOn DEF NoPacketYet, AllCalls, CollectFns
<1>4. CASE fn # "collect"
  <2>1. PICK v \in Results : Return(v)
    BY <1>4 DEF NoPacketYet, Results
  <2> QED BY <1>1, <1>2, <2>1, Returning
<1> QED BY <1>1, <1>3, <1>4

(* The loop of dl_collect() and dl_collect_nb().                           *)
LEMMA CollectingKeeps ==
  ASSUME IInv,
         \/ CollectTerminated \/ SendKeepalive \/ Poll \/ CollectHeader
         \/ NothingAvailable \/ SelectInterrupted
  PROVE  IInv'
<1>1. /\ DlcpType /\ CallType /\ CallInv /\ NetInv /\ NetType /\ clean \in BOOLEAN
      /\ {DLERROR, DLENDED, DLPACKET, -1} \subseteq Results
  BY InvParts DEF NetInv, CallType, Results, DLERROR
<1>2. /\ pc \in {"loop", "recv"} /\ sock = "open"
      /\ fn \in CollectFns /\ fn \in AllCalls
  BY <1>1 DEF CallInv, CollectTerminated, SendKeepalive, Poll, CollectHeader,
         NothingAvailable, SelectInterrupted, AllCalls
<1>3. Settled
  BY <1>1, <1>2 DEF NetInv, WireInv, Connected
<1>4. CASE CollectTerminated
  <2>1. DlcpType' /\ UNCHANGED streaming /\ UNCHANGED net
    BY <1>1, <1>4 DEF CollectTerminated, NoIO, DlcpType, dlcp
  <2>2. CallType' /\ CallInv'
    BY <1>1, <1>4, Returning DEF CollectTerminated, NoIO
  <2> QED BY <1>1, <1>2, <2>1, <2>2, LossyNothing, ReadingKeeps
<1>5. CASE SendKeepalive
  <2>1. CASE Send("ID") /\ trig' = -1 /\ Goto(fn, "recv") /\ UNCHANGED <<link, streaming, terminate, clean>>
    <3>1. NetInv'
      BY <1>1, <1>3, <2>1, SendKeeps DEF Commands
    <3>2. DlcpType' /\ CallType' /\ CallInv'
      BY <1>1, <1>2, <2>1, GoingOn DEF DlcpType, Send
    <3> QED BY <3>1, <3>2, InvParts
  <2>2. CASE SendFails(FALSE) /\ Return(DLERROR) /\ clean' = FALSE /\ UNCHANGED dlcp
    <3>1. DlcpType' /\ UNCHANGED streaming
      BY <1>1, <2>2 DEF DlcpType, dlcp
    <3>2. CallType' /\ CallInv'
      BY <1>1, <2>2, Returning
    <3> QED BY <1>1, <1>2, <2>2, <3>1, <3>2, LossySendFails, ReadingKeeps
  <2> QED BY <1>5, <2>1, <2>2 DEF SendKeepalive
<1>6. CASE Poll
  <2>1. DlcpType' /\ UNCHANGED streaming /\ UNCHANGED net
    BY <1>1, <1>6 DEF Poll, DlcpType, dlcp
  <2>2. CallType' /\ CallInv'
    BY <1>1, <1>2, <1>6, GoingOn DEF Poll, net
  <2> QED BY <1>1, <1>2, <2>1, <2>2, LossyNothing, ReadingKeeps
<1>7. CASE CollectHeader
  <2>1. HeaderArrived /\ Lossy /\ sock' = "open"
    BY <1>1, <1>2, <1>7, LossyReceive DEF CollectHeader, HeaderArrived
  <2>2. \/ Goto(fn, "data") /\ trig' = -1 /\ UNCHANGED <<link, streaming, terminate, clean>>
        \/ Return(DLPACKET) /\ trig' = -1 /\ UNCHANGED <<link, streaming, terminate, clean>>
        \/ NoPacketYet(-1) /\ UNCHANGED streaming
        \/ /\ Head(s2c).k = "ENDSTREAM" /\ Return(DLENDED)
           /\ streaming' = 0 /\ trig' = -1 /\ UNCHANGED <<link, terminate, clean>>
        \/ /\ Return(DLERROR) /\ clean' = FALSE
           /\ trig' = -1 /\ UNCHANGED <<link, streaming, terminate>>
    BY <1>7, Zenon DEF CollectHeader
  <2>3. CASE Goto(fn, "data") /\ trig' = -1 /\ UNCHANGED <<link, streaming, terminate, clean>>
    <3>1. CallType' /\ CallInv' /\ DlcpType'
      BY <1>1, <1>2, <2>1, <2>3, GoingOn DEF DlcpType
    <3> QED BY <1>2, <2>1, <2>3, <3>1, ReadingKeeps
  <2>4. CASE NoPacketYet(-1) /\ UNCHANGED streaming
    <3>1. CallType' /\ CallInv' /\ DlcpType'
      BY <1>1, <1>2, <2>1, <2>4, IteratingKeeps
    <3> QED BY <1>2, <2>1, <2>4, <3>1, ReadingKeeps
  <2>5. CASE /\ Head(s2c).k = "ENDSTREAM" /\ Return(DLENDED)
             /\ streaming' = 0 /\ trig' = -1 /\ UNCHANGED <<link, terminate, clean>>
    <3>1. CallType' /\ CallInv' /\ DlcpType'
      BY <1>1, <2>5, Returning DEF DlcpType
    <3>2. NetInv'
      BY <1>1, <1>2, <2>1, <2>5, EndKeeps
    <3> QED BY <3>1, <3>2, InvParts
  <2>6. CASE /\ \/ Return(DLPACKET) /\ clean' = clean
                \/ Return(DLERROR) /\ clean' = FALSE
             /\ trig' = -1 /\ UNCHANGED <<link, streaming, terminate>>
    <3>1. CallType' /\ CallInv' /\ DlcpType'
      BY <1>1, <2>6, Returning DEF DlcpType
    <3> QED BY <1>2, <2>1, <2>6, <3>1, ReadingKeeps
  <2> QED BY <2>2, <2>3, <2>4, <2>5, <2>6
<1>8. CASE NothingAvailable
  <2>1. UNCHANGED <<streaming, net>> /\ NoPacketYet(trig) /\ trig \in {-1, 0, 1} /\ sock' = "open"
    BY <1>1, <1>2, <1>8 DEF NothingAvailable, DlcpType, net
  <2>2. CallType' /\ CallInv' /\ DlcpType'
    BY <1>1, <1>2, <2>1, IteratingKeeps
  <2> QED BY <1>1, <1>2, <2>1, <2>2, LossyNothing, ReadingKeeps
<1>9. CASE SelectInterrupted
  <2>1. Lossy
    BY <1>1, <1>9, PartSelf, BoundsAssumption DEF SelectInterrupted, Lossy, Fault, NetType
  <2>2. DlcpType' /\ UNCHANGED streaming
    BY <1>1, <1>9 DEF SelectInterrupted, DlcpType, dlcp
  <2>3. CallType' /\ CallInv'
    BY <1>1, <1>9, Returning DEF SelectInterrupted
  <2> QED BY <1>2, <2>1, <2>2, <2>3, ReadingKeeps
<1> QED BY <1>4, <1>5, <1>6, <1>7, <1>8, <1>9

(* A call that returns at once, or whose command cannot be sent.           *)
LEMMA FailingKeeps ==
  ASSUME IInv, pc # "exchange", NEW v \in Results, Return(v), UNCHANGED dlcp,
         \/ UNCHANGED <<clean, net>>
         \/ clean' = FALSE /\ (SendFails(TRUE) \/ SendFails(FALSE))
  PROVE  IInv'
<1>1. DlcpType /\ CallType /\ NetType /\ clean \in BOOLEAN
  BY InvParts DEF NetInv, CallType
<1>2. DlcpType' /\ UNCHANGED streaming
  BY <1>1 DEF DlcpType, dlcp
<1>3. CallType' /\ CallInv'
  BY <1>1, Returning
<1>4. Lossy
  BY <1>1, LossySendFails, LossyNothing
<1> QED BY <1>2, <1>3, <1>4, ReadingKeeps

(* A call refused for its arguments or for the mode.                       *)
LEMMA RefusedKeeps ==
  ASSUME IInv, NEW f, Refused(f)
  PROVE  IInv'
  BY FailingKeeps DEF Refused, MayCall, NoIO, Results, DLERROR

(* A command is sent between calls where Settled holds.                    *)
LEMMA SendingKeeps ==
  ASSUME IInv, pc = "idle", NEW x \in Commands \ {"STREAM", "ENDSTREAM"},
         streaming = 0 \/ x = "ID", Send(x), UNCHANGED <<dlcp, clean>>,
         Return(0) \/ \E f \in AllCalls : Goto(f, "reply")
  PROVE  IInv'
<1>1. DlcpType /\ CallType /\ NetInv /\ clean \in BOOLEAN /\ 0 \in Results
  BY InvParts DEF CallType, Results, DLENDED
<1>2. Settled /\ sock' = "open" /\ UNCHANGED streaming
  BY <1>1 DEF NetInv, WireInv, Connected, Send, dlcp
<1>3. NetInv'
  BY <1>1, <1>2, SendKeeps
<1>4. DlcpType'
  BY <1>1 DEF DlcpType, dlcp
<1>5. CallType' /\ CallInv'
  BY <1>1, <1>2, Returning, GoingOn
<1> QED BY <1>3, <1>4, <1>5, InvParts

(* A request of query mode.                                                *)
LEMMA RequestKeeps ==
  ASSUME IInv, NEW f \in AllCalls, NEW x \in Commands \ {"STREAM", "ENDSTREAM"},
         NEW resp \in BOOLEAN, Request(f, x, resp)
  PROVE  IInv'
<1>1. CASE Send(x) /\ Goto(f, "reply") /\ UNCHANGED clean
  BY <1>1, SendingKeeps DEF Request, MayCall
<1>2. CASE SendFails(resp) /\ Return(-1) /\ clean' = FALSE
  <2>1. pc # "exchange" /\ -1 \in Results /\ UNCHANGED dlcp
    BY DEF Request, MayCall, Results, DLERROR
  <2> QED BY <1>2, <2>1, FailingKeeps
<1> QED BY <1>1, <1>2 DEF Request

(* STREAM or ENDSTREAM.                                                    *)
LEMMA StartKeeps ==
  ASSUME IInv, NEW f \in CollectFns, NEW ending \in BOOLEAN, CollectStart(f, ending)
  PROVE  IInv'
<1>1. /\ DlcpType /\ CallType /\ CallInv /\ NetInv /\ NetType /\ clean \in BOOLEAN
      /\ pc = "idle" /\ f \in AllCalls /\ {DLERROR, DLENDED} \subseteq Results
  BY InvParts DEF NetInv, CallType, Results, CollectStart, MayCall, AllCalls
<1>2. CASE NoIO(DLERROR) \/ NoIO(DLENDED)
  BY <1>1, <1>2, FailingKeeps DEF NoIO
<1>3. CASE SendFails(FALSE) /\ Return(DLERROR) /\ clean' = FALSE /\ UNCHANGED dlcp
  BY <1>1, <1>3, FailingKeeps
<1>4. ASSUME NEW x \in {"STREAM", "ENDSTREAM"}, Send(x), Goto(f, "loop"),
             trig' = -1, UNCHANGED <<link, terminate, clean>>,
             IF x = "STREAM" THEN streaming = 0 /\ streaming' = 1
                             ELSE streaming = 1 /\ streaming' = -1
      PROVE  IInv'
  <2>1. NetInv'
    BY <1>1, <1>4, SwitchKeeps
  <2>2. DlcpType'
    BY <1>1, <1>4 DEF DlcpType
  <2>3. CallType' /\ CallInv'
    BY <1>1, <1>4, GoingOn DEF Send
  <2> QED BY <2>1, <2>2, <2>3, InvParts
<1>5. CASE sock = "open" /\ Goto(f, "loop") /\ UNCHANGED <<dlcp, clean, net>>
  <2>1. DlcpType' /\ UNCHANGED streaming /\ UNCHANGED net /\ sock' = "open"
    BY <1>1, <1>5 DEF DlcpType, dlcp, net
  <2>2. CallType' /\ CallInv'
    BY <1>1, <1>5, <2>1, GoingOn
  <2> QED BY <1>1, <2>1, <2>2, LossyNothing, ReadingKeeps
<1>6. \/ NoIO(DLERROR) \/ NoIO(DLENDED)
      \/ streaming = 0 /\ SwitchMode(f, "STREAM", 1)
      \/ streaming = 1 /\ SwitchMode(f, "ENDSTREAM", -1)
      \/ sock = "open" /\ Goto(f, "loop") /\ UNCHANGED <<dlcp, clean, net>>
  BY Zenon DEF CollectStart
<1> QED BY <1>2, <1>3, <1>4, <1>5, <1>6 DEF SwitchMode

(* A step that touches neither the socket, the streams nor the mode.       *)
LEMMA NetUntouched ==
  ASSUME NetInv, UNCHANGED <<net, streaming, pc>>
  PROVE  NetInv'
  BY DEF NetInv, NetType, SocketInv, WireInv, Connected, Settled, net

(* A connection nobody has used, in query mode, is settled.                *)
LEMMA FreshSettled ==
  ASSUME c2s = <<>>, s2c = <<>>, smode = "query", streaming = 0
  PROVE  Settled
<1>1. Len(c2s) = 0 /\ Len(s2c) = 0
  BY EmptySeq
<1>2. UnitInv(0, s2c)
  BY <1>1 DEF UnitInv, Quiet
<1>3. CommandInv(0, c2s, smode)
  BY <1>1 DEF CommandInv, Once, InOrder, Fits, Has
<1> QED BY <1>2, <1>3 DEF Settled

(* Connecting and disconnecting.                                           *)
LEMMA ConnectingKeeps ==
  ASSUME IInv,
         \/ ConnectFails \/ ConnectOpens \/ Disconnect
         \/ ExchangeRefused \/ ExchangeSend \/ ExchangeReply \/ ExchangeFails
  PROVE  IInv'
<1>1. /\ DlcpType /\ CallType /\ CallInv /\ NetInv /\ NetType /\ clean \in BOOLEAN
      /\ {-1, 0, link} \subseteq Results
  BY InvParts DEF NetInv, CallType, DlcpType, Results, DLERROR, DLENDED, NoLink
<1>2. CASE ConnectFails
  <2>1. DlcpType'
    BY <1>1, <1>2 DEF ConnectFails, DlcpType
  <2>2. CallType' /\ CallInv'
    BY <1>1, <1>2, Returning DEF ConnectFails
  <2>3. pc # "exchange" /\ UNCHANGED streaming /\ UNCHANGED net
    BY <1>2 DEF ConnectFails
  <2> QED BY <1>1, <2>1, <2>2, <2>3, LossyNothing, ReadingKeeps
<1>3. CASE ConnectOpens
  <2>1. /\ DlcpType' /\ CallType' /\ CallInv'
    BY <1>1, <1>3 DEF ConnectOpens, Goto, DlcpType, CallType, CallInv, NetInv, SocketInv,
                      NoLink, Fd, DLENDED, CollectFns
  <2>2. NetInv'
    BY <1>1, <1>3 DEF ConnectOpens, Goto, NetInv, NetType, SocketInv, WireInv, Connected
  <2> QED BY <2>1, <2>2, InvParts
<1>4. CASE Disconnect \/ ExchangeRefused \/ ExchangeFails
  <2>1. CloseSocket /\ clean' = FALSE /\ (Return(-1) \/ Return(0))
    BY <1>4 DEF Disconnect, ExchangeRefused, ExchangeFails
  <2>2. faults' \in 0..MaxFaults
    BY <1>1, <1>4, BoundsAssumption DEF Disconnect, ExchangeRefused, ExchangeFails, Fault, NetType
  <2>3. DlcpType'
    BY <1>1, <1>4 DEF Disconnect, ExchangeRefused, ExchangeFails, DlcpType, dlcp
  <2>4. CallType' /\ CallInv'
    BY <1>1, <2>1, Returning
  <2> QED BY <2>1, <2>2, <2>3, <2>4, CloseKeeps, InvParts
<1>5. CASE ExchangeSend
  <2>1. Settled
    BY <1>1, <1>5, FreshSettled DEF ExchangeSend, CallInv
  <2>2. NetInv'
    BY <1>1, <1>5, <2>1, SendKeeps DEF ExchangeSend, dlcp, Commands
  <2>3. DlcpType'
    BY <1>1, <1>5 DEF ExchangeSend, DlcpType, dlcp
  <2>4. CallType' /\ CallInv'
    BY <1>1, <1>5 DEF ExchangeSend, Send, Goto, dlcp, CallType, CallInv, DLENDED, CollectFns
  <2> QED BY <2>2, <2>3, <2>4, InvParts
<1>6. CASE ExchangeReply
  <2>1. DlcpType' /\ UNCHANGED streaming /\ pc # "exchange"
    BY <1>1, <1>6 DEF ExchangeReply, DlcpType, dlcp
  <2>2. CallType' /\ CallInv'
    BY <1>1, <1>6, Returning DEF ExchangeReply
  <2> QED BY <1>1, <1>6, <2>1, <2>2, LossyReceive, ReadingKeeps DEF ExchangeReply
<1> QED BY <1>2, <1>3, <1>4, <1>5, <1>6

(* dl_terminate() from a signal handler.                                   *)
LEMMA TerminateKeeps ==
  ASSUME IInv, Terminate
  PROVE  IInv'
<1>1. DlcpType /\ CallType /\ CallInv /\ NetInv
  BY InvParts
<1>2. NetInv'
  BY <1>1, NetUntouched DEF Terminate, call
<1>3. DlcpType' /\ CallType' /\ CallInv'
  BY <1>1 DEF Terminate, call, net, DlcpType, CallType, CallInv
<1> QED BY <1>2, <1>3, InvParts

(* The other calls of the application.                                     *)
LEMMA CallingKeeps ==
  ASSUME IInv,
         \/ Position \/ PositionAfter \/ Match \/ Reject \/ WriteAck \/ WriteNoAck
         \/ Read \/ ReadNext \/ GetInfo \/ RawID
  PROVE  IInv'
<1>1. /\ {"QUERY", "READ", "INFO", "ID", "WRITE_N"} \subseteq Commands \ {"STREAM", "ENDSTREAM"}
      /\ ReplyFns \cup {"read", "read_next", "getinfo", "rawid"} \subseteq AllCalls
      /\ {-1, 0} \subseteq Results
  BY DEF Commands, AllCalls, ReplyFns, Results, DLERROR, DLENDED
<1>2. CASE Position \/ PositionAfter \/ Match \/ Reject \/ WriteAck \/ Read \/ GetInfo
  <2>1. \/ \E f \in AllCalls : Refused(f)
        \/ \E f \in AllCalls, x \in {"QUERY", "READ", "INFO"}, resp \in BOOLEAN : Request(f, x, resp)
    BY <1>1, <1>2 DEF Position, PositionAfter, Match, Reject, WriteAck, Read, GetInfo, ReplyFns, AllCalls
  <2> QED BY <1>1, <2>1, RefusedKeeps, RequestKeeps
<1>3. CASE WriteNoAck
  <2>1. CASE Refused("write_noack")
    BY <2>1, RefusedKeeps
  <2>2. CASE pc = "idle" /\ streaming = 0 /\ Send("WRITE_N") /\ Return(0) /\ UNCHANGED <<dlcp, clean>>
    BY <1>1, <2>2, SendingKeeps
  <2>3. CASE pc = "idle" /\ SendFails(FALSE) /\ Return(-1) /\ clean' = FALSE /\ UNCHANGED dlcp
    BY <1>1, <2>3, FailingKeeps
  <2> QED BY <1>3, <2>1, <2>2, <2>3 DEF WriteNoAck, MayCall
<1>4. CASE ReadNext
  <2>1. CASE Refused("read_next")
    BY <2>1, RefusedKeeps
  <2>2. CASE pc = "idle" /\ sock = "open" /\ Goto("read_next", "reply") /\ UNCHANGED <<dlcp, clean, net>>
    <3>1. DlcpType /\ CallType /\ NetType /\ clean \in BOOLEAN
      BY InvParts DEF NetInv, CallType
    <3>2. DlcpType' /\ UNCHANGED streaming /\ UNCHANGED net /\ sock' = "open"
      BY <2>2, <3>1 DEF DlcpType, dlcp, net
    <3>3. CallType' /\ CallInv'
      BY <1>1, <2>2, <3>1, <3>2, GoingOn
    <3> QED BY <2>2, <3>1, <3>2, <3>3, LossyNothing, ReadingKeeps
  <2>3. CASE pc = "idle" /\ Return(-1) /\ clean' = FALSE /\ UNCHANGED <<dlcp, net>>
    <3>1. DlcpType /\ CallType /\ NetType
      BY InvParts DEF NetInv
    <3>2. DlcpType' /\ UNCHANGED streaming /\ UNCHANGED net
      BY <2>3, <3>1 DEF DlcpType, dlcp
    <3>3. CallType' /\ CallInv'
      BY <1>1, <2>3, Returning
    <3> QED BY <2>3, <3>1, <3>2, <3>3, LossyNothing, ReadingKeeps
  <2> QED BY <1>4, <2>1, <2>2, <2>3 DEF ReadNext, MayCall
<1>5. CASE RawID
  <2>1. CASE pc = "idle" /\ Send("ID") /\ Goto("rawid", "reply") /\ UNCHANGED <<dlcp, clean>>
    BY <1>1, <2>1, SendingKeeps
  <2>2. CASE pc = "idle" /\ SendFails(TRUE) /\ Return(-1) /\ clean' = FALSE /\ UNCHANGED dlcp
    BY <1>1, <2>2, FailingKeeps
  <2> QED BY <1>5, <2>1, <2>2 DEF RawID, MayCall
<1> QED BY <1>2, <1>3, <1>4, <1>5

(* The replies of the server are replies, whatever they answer.            *)
LEMMA ReplyUnits ==
  ASSUME NEW x \in {"ID", "QUERY", "READ", "INFO"}, NEW h \in Replies(x)
  PROVE  h \in Units /\ h.k # "ENDSTREAM" /\ h.src = "reply"
<1>1. ASSUME NEW k \in {"ID", "OK", "ERROR", "PACKET", "INFO"},
             NEW v \in AllValues, NEW b \in AllBodies
      PROVE  /\ Header(k, v, b, "reply") \in Units
             /\ Header(k, v, b, "reply").k # "ENDSTREAM"
             /\ Header(k, v, b, "reply").src = "reply"
  BY DEF Header, Units
<1>2. /\ 0 \in AllValues /\ "none" \in AllBodies
      /\ \A v \in Values : v \in AllValues
      /\ \A b \in Bodies : b \in AllBodies
  BY ValuesAssumption, BodiesAssumption DEF AllValues, AllBodies
<1>3. CASE x = "ID"
  BY <1>1, <1>2, <1>3 DEF Replies
<1>4. ASSUME h \in ErrorReplies
      PROVE  h \in Units /\ h.k # "ENDSTREAM" /\ h.src = "reply"
  BY <1>1, <1>2, <1>4 DEF ErrorReplies
<1>5. CASE x = "QUERY"
  BY <1>1, <1>2, <1>4, <1>5 DEF Replies
<1>6. CASE x = "READ"
  BY <1>1, <1>2, <1>4, <1>6 DEF Replies, Answers
<1>7. CASE x = "INFO"
  BY <1>1, <1>2, <1>4, <1>7 DEF Replies, Answers
<1> QED BY <1>3, <1>5, <1>6, <1>7

(* The server keeps Settled: it takes commands in order, answers them, and *)
(* streams between STREAM and ENDSTREAM.                                   *)
LEMMA ServerSettled ==
  ASSUME NetType, DlcpType, SocketInv, Settled, ServerStep, UNCHANGED streaming
  PROVE  NetType' /\ Settled'
<1> USE DEF DlcpType, NetType
<1>1. ASSUME peer = "up"
      PROVE  /\ UnitInv(streaming, s2c) /\ CommandInv(streaming, c2s, smode)
             /\ streaming = -1 /\ Has(c2s, "ENDSTREAM") => NoEnd(s2c)
  BY <1>1 DEF Settled
<1>2. CASE ServerReplies
  <2>1. PICK h \in Replies(Head(c2s)) : s2c' = Push(s2c, h)
    BY <1>2 DEF ServerReplies
  <2>2. h \in Units /\ h.k # "ENDSTREAM" /\ h.src = "reply"
    BY <1>2, <2>1, ReplyUnits DEF ServerReplies
  <2>3. s2c' \in Seq(Units) /\ UnitInv(streaming, s2c') /\ (NoEnd(s2c) => NoEnd(s2c'))
    BY <1>1, <1>2, <2>1, <2>2, PushInv DEF ServerReplies
  <2>4. /\ c2s' \in Seq(Commands) /\ CommandInv(streaming, c2s', smode)
        /\ Has(c2s', "ENDSTREAM") <=> Has(c2s, "ENDSTREAM")
    BY <1>1, <1>2, TakePlain, TailCommand DEF ServerReplies
  <2> QED BY <1>1, <1>2, <2>3, <2>4 DEF ServerReplies, Settled
<1>3. CASE ServerStores
  <2>1. /\ c2s' \in Seq(Commands) /\ CommandInv(streaming, c2s', smode)
        /\ Has(c2s', "ENDSTREAM") <=> Has(c2s, "ENDSTREAM")
    BY <1>1, <1>3, TakePlain, TailCommand DEF ServerStores
  <2> QED BY <1>1, <1>3, <2>1 DEF ServerStores, Settled
<1>4. CASE ServerStartsStream
  <2>1. /\ c2s' \in Seq(Commands) /\ CommandInv(streaming, c2s', "stream")
        /\ Has(c2s', "ENDSTREAM") <=> Has(c2s, "ENDSTREAM")
    BY <1>1, <1>4, TakeStream, TailCommand DEF ServerStartsStream
  <2> QED BY <1>1, <1>4, <2>1 DEF ServerStartsStream, Settled
<1>5. CASE ServerEndsStream
  <2>1. /\ c2s' \in Seq(Commands) /\ CommandInv(streaming, c2s', "query")
        /\ streaming = -1 /\ Has(c2s, "ENDSTREAM") /\ ~Has(c2s', "ENDSTREAM")
    BY <1>1, <1>5, TakeEnd, TailCommand DEF ServerEndsStream
  <2> DEFINE h == Header("ENDSTREAM", 0, "none", "stream")
  <2>2. h \in Units /\ h.k = "ENDSTREAM" /\ h.src = "stream" /\ Push(s2c, h) = Append(s2c, h)
    BY DEF Header, Units, AllValues, AllBodies, Push
  <2>3. s2c' = Append(s2c, h)
    BY <1>5, <2>2 DEF ServerEndsStream
  <2> HIDE DEF h
  <2>4. s2c' \in Seq(Units) /\ UnitInv(streaming, s2c')
    BY <1>1, <1>5, <2>1, <2>2, <2>3, AppendEnd DEF ServerEndsStream
  <2> QED BY <1>5, <2>1, <2>4 DEF ServerEndsStream, Settled
<1>6. CASE ServerStreams
  <2>1. PICK b \in Bodies : s2c' = Push(s2c, Header("PACKET", 0, b, "stream"))
    BY <1>6 DEF ServerStreams
  <2> DEFINE h == Header("PACKET", 0, b, "stream")
  <2>2. h \in Units /\ h.k # "ENDSTREAM"
    BY BodiesAssumption DEF Header, Units, AllValues, AllBodies
  <2>3. s2c' = Push(s2c, h)
    BY <2>1
  <2> HIDE DEF h
  <2>4. NoEnd(s2c) /\ streaming # 0
    BY <1>1, <1>6 DEF ServerStreams, CommandInv, UnitInv
  <2>5. s2c' \in Seq(Units) /\ UnitInv(streaming, s2c') /\ NoEnd(s2c')
    BY <1>1, <1>6, <2>2, <2>3, <2>4, PushInv DEF ServerStreams
  <2> QED BY <1>1, <1>6, <2>5 DEF ServerStreams, Settled
<1>7. CASE ServerCloses
  <2>1. PICK n \in 0..Len(s2c) : s2c' = SubSeq(s2c, 1, n)
    BY <1>7 DEF ServerCloses
  <2>2. s2c' \in Seq(Units) /\ Part(s2c', s2c)
    BY <2>1, PartPrefix
  <2>3. UnitInv(streaming, s2c')
    BY <1>1, <1>7, <2>2, PartInv DEF ServerCloses
  <2>4. c2s' \in Seq(Commands) /\ faults' \in 0..MaxFaults
    BY <1>7, BoundsAssumption, EmptySeq DEF ServerCloses, Fault
  <2> QED BY <1>7, <2>2, <2>3, <2>4 DEF ServerCloses, Settled
<1> QED BY <1>2, <1>3, <1>4, <1>5, <1>6, <1>7 DEF ServerStep, ServerCommand

(* The server's steps, during dl_connect() or after it.                    *)
LEMMA ServingKeeps ==
  ASSUME IInv, ServerStep
  PROVE  IInv'
<1>1. DlcpType /\ CallType /\ CallInv /\ NetInv /\ NetType /\ SocketInv
  BY InvParts DEF NetInv
<1>2. UNCHANGED <<dlcp, call, clean, sock>> /\ peer = "up" /\ sock = "open"
  BY <1>1 DEF ServerStep, ServerCommand, ServerReplies, ServerStores, ServerStartsStream,
     ServerEndsStream, ServerStreams, ServerCloses, SocketInv, NetType
<1>3. DlcpType' /\ UNCHANGED <<streaming, pc>>
  BY <1>1, <1>2 DEF DlcpType, dlcp, call
<1>4. /\ CallType'
      /\ peer' = "fin" => c2s' = <<>> /\ smode' = "query"
  BY <1>1, <1>2 DEF CallType, call, ServerStep, ServerCommand, ServerReplies, ServerStores,
     ServerStartsStream, ServerEndsStream, ServerStreams, ServerCloses
<1>5. SocketInv'
  BY <1>1, <1>2, <1>4 DEF SocketInv
<1>6. CASE pc # "exchange"
  <2>1. Settled
    BY <1>1, <1>2, <1>6 DEF NetInv, WireInv, Connected
  <2>2. NetInv'
    BY <1>1, <1>3, <1>5, <2>1, ServerSettled DEF NetInv, WireInv
  <2>3. CallInv'
    BY <1>1, <1>2, <1>6 DEF CallInv, call, dlcp
  <2> QED BY <1>3, <1>4, <2>2, <2>3, InvParts
<1>7. CASE pc = "exchange"
  <2>1. c2s = <<>> /\ s2c = <<>> /\ smode = "query"
    BY <1>1, <1>7 DEF CallInv
  <2>2. ServerCloses
    BY <2>1 DEF ServerStep, ServerCommand, ServerReplies, ServerStores, ServerStartsStream,
                ServerEndsStream, ServerStreams
  <2>3. c2s' = <<>> /\ s2c' = <<>> /\ smode' = "query" /\ peer' = "fin" /\ faults' \in 0..MaxFaults
    <3>1. PICK n \in 0..Len(s2c) : s2c' = SubSeq(s2c, 1, n)
      BY <2>2 DEF ServerCloses
    <3>2. s2c' \in Seq(Units) /\ Part(s2c', s2c)
      BY <1>1, <3>1, PartPrefix DEF NetType
    <3>3. s2c' = <<>>
      BY <2>1, <3>2, EmptySeq, LenProperties DEF Part
    <3> QED BY <1>1, <2>2, <3>3, BoundsAssumption DEF ServerCloses, Fault, NetType
  <2>4. NetInv'
    BY <1>1, <1>2, <1>3, <1>5, <1>7, <2>3, EmptySeq DEF NetInv, NetType, WireInv, Connected
  <2>5. CallInv'
    BY <1>1, <1>2, <2>3 DEF CallInv, call, dlcp
  <2> QED BY <1>3, <1>4, <2>4, <2>5, InvParts
<1> QED BY <1>6, <1>7

(* Nothing of the connection changes.                                      *)
LEMMA StutterKeeps ==
  ASSUME IInv, UNCHANGED vars
  PROVE  IInv'
<1>1. DlcpType /\ CallType /\ CallInv /\ NetInv
  BY InvParts
<1>2. DlcpType' /\ CallType' /\ CallInv'
  BY <1>1 DEF vars, DlcpType, CallType, CallInv
<1>3. NetInv'
  BY <1>1, NetUntouched DEF vars, net
<1> QED BY <1>2, <1>3, InvParts

(* dl_newdlcp() makes a connection in order.                               *)
LEMMA InitInv ==
  ASSUME Init
  PROVE  IInv
<1>1. TypeOK
  <2>1. faults \in 0..MaxFaults /\ c2s \in Seq(Commands) /\ s2c \in Seq(Units)
    BY BoundsAssumption, EmptySeq DEF Init
  <2>2. ret \in {DLERROR, DLENDED, DLPACKET, DLNOPACKET, Fd} /\ hdr \in Units \cup {NoHdr}
    BY DEF Init, DLENDED
  <2> QED BY <2>1, <2>2 DEF Init, TypeOK
<1>2. CallInv /\ SocketInv /\ WireInv
  BY DEF Init, CallInv, SocketInv, WireInv, Connected, CollectFns
<1> QED BY <1>1, <1>2 DEF IInv

(* Every step of the client, of a signal handler or of the server keeps it. *)
LEMMA NextInv ==
  ASSUME IInv, [Next]_vars
  PROVE  IInv'
<1>1. CASE ApplicationCall
  <2>1. CASE ConnectFails \/ ConnectOpens \/ Disconnect
    BY <2>1, ConnectingKeeps
  <2>2. CASE \E f \in CollectFns, ending \in BOOLEAN : CollectStart(f, ending)
    BY <2>2, StartKeeps
  <2> QED BY <1>1, <2>1, <2>2, CallingKeeps DEF ApplicationCall
<1>2. CASE CallStep
  BY <1>2, ConnectingKeeps, RepliesKeep, CollectingKeeps DEF CallStep
<1>3. CASE Terminate
  BY <1>3, TerminateKeeps
<1>4. CASE ServerStep
  BY <1>4, ServingKeeps
<1>5. CASE UNCHANGED vars
  BY <1>5, StutterKeeps
<1> QED BY <1>1, <1>2, <1>3, <1>4, <1>5 DEF Next

-----------------------------------------------------------------------------
(* IInv holds of every state a connection reaches.                         *)
THEOREM Invariance == Spec => []IInv
<1>1. Init => IInv
  BY InitInv
<1>2. IInv /\ [Next]_vars => IInv'
  BY NextInv
<1> QED BY <1>1, <1>2, PTL DEF Spec

(* The fields of the DLCP, the call and the connection keep their types.   *)
THEOREM TypeCorrect == Spec => []TypeOK
<1>1. IInv => TypeOK
  BY DEF IInv
<1> QED BY <1>1, Invariance, PTL

(* A client that believes it is in query mode is: no mode switch is on its *)
(* way and nothing streamed is left to be read as a reply.                 *)
THEOREM QueryMode == Spec => []QueryModeQuiet
<1>1. IInv => QueryModeQuiet
  <2>1. SUFFICES ASSUME IInv, Connected, streaming = 0
                 PROVE  /\ Quiet(s2c)
                        /\ peer = "up" =>
                             /\ smode = "query"
                             /\ \A i \in 1..Len(c2s) : c2s[i] \notin {"STREAM", "ENDSTREAM"}
    BY DEF QueryModeQuiet
  <2>2. UnitInv(0, s2c) /\ (peer = "up" => CommandInv(0, c2s, smode))
    BY <2>1 DEF IInv, WireInv, Settled
  <2> QED BY <2>2 DEF UnitInv, CommandInv, Has
<1> QED BY <1>1, Invariance, PTL

(* The server in streaming mode reads nothing but ID and ENDSTREAM, and no *)
(* ENDSTREAM out of it.                                                    *)
THEOREM CommandsFit == Spec => []CommandsFitMode
<1>1. IInv => CommandsFitMode
  <2>1. SUFFICES ASSUME IInv, Connected, peer = "up", c2s # <<>>
                 PROVE  IF smode = "stream" THEN Head(c2s) \in {"ID", "ENDSTREAM", "TORN"}
                                            ELSE Head(c2s) # "ENDSTREAM"
    BY DEF CommandsFitMode
  <2>2. /\ CommandInv(streaming, c2s, smode) /\ streaming \in {-1, 0, 1}
        /\ c2s \in Seq(Commands) /\ smode \in {"query", "stream"}
    BY <2>1 DEF IInv, TypeOK, WireInv, Settled
  <2>3. Head(c2s) = c2s[1] /\ 1 \in 1..Len(c2s)
    BY <2>1, <2>2, TailCommand
  <2>4. CASE smode = "stream"
    BY <2>2, <2>3, <2>4 DEF CommandInv, Fits
  <2>5. CASE smode # "stream"
    BY <2>1, <2>2, <2>5, TakeEnd
  <2> QED BY <2>4, <2>5
<1> QED BY <1>1, Invariance, PTL

-----------------------------------------------------------------------------
(* DaliConn implements DLSession: each step of a connection is one step of *)
(* the abstract session, or none.                                          *)

InSession == sock = "open" /\ fn # "connect"

(* The mapping, spelled out on the two states of a step.                   *)
LEMMA SessionStates ==
  ASSUME DlcpType, DlcpType', NetType, NetType'
  PROVE  /\ ~InSession => SessionMode = "closed" /\ SessionServer = "none"
         /\ ~InSession' => SessionMode' = "closed" /\ SessionServer' = "none"
         /\ InSession =>
              /\ SessionMode = IF streaming = 0 THEN "query"
                               ELSE IF streaming = 1 THEN "streaming" ELSE "ending"
              /\ SessionServer = IF peer = "fin" THEN "lost" ELSE IF smode = "stream"
                                 THEN "streaming" ELSE IF Has(c2s, "STREAM") THEN "starting" ELSE "query"
         /\ InSession' =>
              /\ SessionMode' = IF streaming' = 0 THEN "query"
                                ELSE IF streaming' = 1 THEN "streaming" ELSE "ending"
              /\ SessionServer' = IF peer' = "fin" THEN "lost" ELSE IF smode' = "stream"
                                  THEN "streaming" ELSE IF Has(c2s', "STREAM") THEN "starting" ELSE "query"
<1>1. /\ ~InSession => SessionMode = "closed"
      /\ InSession => SessionMode = IF streaming = 0 THEN "query"
                                    ELSE IF streaming = 1 THEN "streaming" ELSE "ending"
  BY DEF InSession, SessionMode, DlcpType, NetType
<1>2. /\ ~InSession' => SessionMode' = "closed"
      /\ InSession' => SessionMode' = IF streaming' = 0 THEN "query"
                                      ELSE IF streaming' = 1 THEN "streaming" ELSE "ending"
  BY DEF InSession, SessionMode, DlcpType, NetType
<1>3. InSession => SessionMode # "closed"
  BY <1>1
<1>4. InSession' => SessionMode' # "closed"
  BY <1>2
<1>5. /\ ~InSession => SessionServer = "none"
      /\ InSession => SessionServer = IF peer = "fin" THEN "lost" ELSE IF smode = "stream"
                        THEN "streaming" ELSE IF Has(c2s, "STREAM") THEN "starting" ELSE "query"
  BY <1>1, <1>3 DEF SessionServer, NetType, Has
<1>6. /\ ~InSession' => SessionServer' = "none"
      /\ InSession' => SessionServer' = IF peer' = "fin" THEN "lost" ELSE IF smode' = "stream"
                         THEN "streaming" ELSE IF Has(c2s', "STREAM") THEN "starting" ELSE "query"
  BY <1>2, <1>4 DEF SessionServer, NetType, Has
<1> QED BY <1>1, <1>2, <1>5, <1>6

(* A step that changes no mode, no socket and no switch on its way is none *)
(* of the session.                                                         *)
LEMMA Stutters ==
  ASSUME IInv, IInv', UNCHANGED <<sock, peer, smode, streaming>>,
         fn # "connect" /\ fn' # "connect", Has(c2s', "STREAM") <=> Has(c2s, "STREAM")
  PROVE  UNCHANGED Session!vars
<1>1. DlcpType /\ DlcpType' /\ NetType /\ NetType'
  BY InvParts DEF NetInv
<1>2. InSession' <=> InSession
  BY DEF InSession
<1>3. SessionMode' = SessionMode /\ SessionServer' = SessionServer
  BY <1>1, <1>2, SessionStates
<1> QED BY <1>3 DEF Session!vars

(* Nor is a step outside a session.                                        *)
LEMMA StuttersOutside ==
  ASSUME IInv, IInv', ~InSession, ~InSession'
  PROVE  UNCHANGED Session!vars
<1>1. DlcpType /\ DlcpType' /\ NetType /\ NetType'
  BY InvParts DEF NetInv
<1>2. SessionMode' = SessionMode /\ SessionServer' = SessionServer
  BY <1>1, SessionStates
<1> QED BY <1>2 DEF Session!vars

(* Sending a command does not send another.                                *)
LEMMA HasAppend ==
  ASSUME NEW q \in Seq(Commands), NEW x \in Commands, NEW c, x # c
  PROVE  Has(Append(q, x), c) <=> Has(q, c)
<1> DEFINE r == Append(q, x)
<1>1. /\ Len(r) = Len(q) + 1 /\ Len(q) \in Nat
      /\ \A i \in 1..Len(q) : r[i] = q[i]
      /\ r[Len(q) + 1] = x
  BY AppendCommand
<1> HIDE DEF r
<1>2. Has(r, c) <=> Has(q, c)
  BY <1>1 DEF Has
<1> QED BY <1>2 DEF r

(* Nor does a lossy step, nor a send of another command, send STREAM.      *)
LEMMA HasLossy ==
  ASSUME NetType, Lossy \/ \E x \in Commands \ {"STREAM"} : Send(x)
  PROVE  UNCHANGED <<sock, peer, smode>> /\ (Has(c2s', "STREAM") <=> Has(c2s, "STREAM"))
<1>1. c2s \in Seq(Commands) /\ "TORN" \in Commands
  BY DEF NetType, Commands
<1>2. CASE Lossy
  BY <1>1, <1>2, HasAppend DEF Lossy
<1>3. ASSUME NEW x \in Commands \ {"STREAM"}, Send(x)
      PROVE  UNCHANGED <<sock, peer, smode>> /\ (Has(c2s', "STREAM") <=> Has(c2s, "STREAM"))
  BY <1>1, <1>3, HasAppend, ZenonT(30) DEF Send
<1> QED BY <1>2, <1>3

-----------------------------------------------------------------------------
(* The replies to the requests are no steps of the session.                *)
LEMMA RepliesStutter ==
  ASSUME IInv, IInv',
         \/ ReplyHeader \/ ReplyMessage \/ ReadHeader \/ ReadDiscard \/ InfoHeader
         \/ DataBody \/ RawIDReply \/ ReceiveFails
  PROVE  UNCHANGED Session!vars
<1>1. CallInv /\ NetType
  BY InvParts DEF NetInv
<1>2. UNCHANGED streaming /\ fn # "connect"
  BY <1>1 DEF ReplyHeader, ReplyMessage, ReadHeader, ReadDiscard, InfoHeader, DataBody,
              RawIDReply, ReceiveFails, CallInv, ReplyFns, dlcp
<1>3. Lossy
  BY <1>1, LossyReceive DEF ReplyHeader, ReplyMessage, ReadHeader, ReadDiscard, InfoHeader,
         DataBody, RawIDReply, ReceiveFails
<1>4. fn' \in {fn, "none"}
  <2>1. ASSUME NEW h, HandleReply(h) PROVE fn' \in {fn, "none"}
    BY <2>1 DEF HandleReply, Return
  <2>2. CASE ReplyHeader
    BY <2>1, <2>2 DEF ReplyHeader
  <2>3. CASE ReadHeader
    BY <2>1, <2>3, Zenon DEF ReadHeader, Return, Goto
  <2>4. CASE InfoHeader
    BY <2>1, <2>4, Zenon DEF InfoHeader, Return, Goto
  <2> QED BY <2>2, <2>3, <2>4 DEF ReplyMessage, ReadDiscard, DataBody, RawIDReply, ReceiveFails, Return
<1> QED BY <1>1, <1>2, <1>3, <1>4, HasLossy, Stutters DEF Lossy

(* A call refused, or of which the command switches no mode, is none.      *)
LEMMA CallingStutters ==
  ASSUME IInv, IInv',
         \/ Position \/ PositionAfter \/ Match \/ Reject \/ WriteAck \/ WriteNoAck
         \/ Read \/ ReadNext \/ GetInfo \/ RawID
  PROVE  UNCHANGED Session!vars
<1>1. CallInv /\ NetType
  BY InvParts DEF NetInv
<1>2. pc = "idle" /\ fn # "connect" /\ UNCHANGED streaming
  BY <1>1 DEF CallInv, Position, PositionAfter, Match, Reject, WriteAck, WriteNoAck, Read,
         ReadNext, GetInfo, RawID, Refused, Request, MayCall, NoIO, dlcp
<1>3. fn' # "connect"
  BY DEF Position, PositionAfter, Match, Reject, WriteAck, WriteNoAck, Read,
         ReadNext, GetInfo, RawID, Refused, Request, NoIO, Return, Goto
<1>4. {"QUERY", "READ", "INFO", "ID", "WRITE_N"} \subseteq Commands \ {"STREAM"}
  BY DEF Commands
<1>5. \/ UNCHANGED net \/ SendFails(TRUE) \/ SendFails(FALSE)
      \/ \E x \in Commands \ {"STREAM"} : Send(x)
  BY <1>4 DEF Position, PositionAfter, Match, Reject, WriteAck, WriteNoAck, Read,
         ReadNext, GetInfo, RawID, Refused, Request, NoIO
<1>6. Lossy \/ \E x \in Commands \ {"STREAM"} : Send(x)
  BY <1>1, <1>5, LossyNothing, LossySendFails
<1> QED BY <1>1, <1>2, <1>3, <1>6, HasLossy, Stutters

(* A session opens when dl_exchangeIDs() returns and closes with the       *)
(* socket.                                                                 *)
LEMMA ConnectingSteps ==
  ASSUME IInv, IInv',
         \/ ConnectFails \/ ConnectOpens \/ Disconnect
         \/ ExchangeRefused \/ ExchangeSend \/ ExchangeReply \/ ExchangeFails
  PROVE  [Session!Next]_(Session!vars)
<1>1. /\ CallInv /\ WireInv /\ DlcpType /\ DlcpType' /\ NetType /\ NetType'
      /\ SocketInv
  BY InvParts DEF NetInv
<1>2. CASE ConnectFails \/ ConnectOpens
  <2>1. ~InSession /\ ~InSession'
    BY <1>2 DEF InSession, ConnectFails, ConnectOpens, Goto, net
  <2> QED BY <2>1, StuttersOutside
<1>3. CASE ExchangeRefused \/ ExchangeFails
  <2>1. ~InSession /\ ~InSession'
    BY <1>1, <1>3 DEF InSession, ExchangeRefused, ExchangeFails, CloseSocket, CallInv
  <2> QED BY <2>1, StuttersOutside
<1>4. CASE ExchangeSend
  <2>1. ~InSession /\ ~InSession'
    BY <1>1, <1>4 DEF InSession, ExchangeSend, Goto, CallInv
  <2> QED BY <2>1, StuttersOutside
<1>5. CASE Disconnect
  <2>1. SessionMode' = "closed" /\ SessionServer' = "none"
    BY <1>1, <1>5, SessionStates DEF InSession, Disconnect, CloseSocket
  <2>2. SessionMode = "closed" => SessionServer = "none"
    BY <1>1, SessionStates
  <2> QED BY <2>1, <2>2 DEF Session!Next, Session!Close, Session!vars
<1>6. CASE ExchangeReply
  <2>1. ~InSession /\ InSession' /\ streaming' = 0 /\ UNCHANGED <<peer, smode, c2s>>
    BY <1>1, <1>6 DEF InSession, ExchangeReply, HeaderArrived, Return, CallInv, dlcp
  <2>2. peer = "up" => smode = "query" /\ ~Has(c2s, "STREAM")
    BY <1>1, <1>6, <2>1 DEF ExchangeReply, WireInv, Connected, Settled, CommandInv, CallInv, dlcp
  <2>3. SessionMode = "closed" /\ SessionMode' = "query" /\ SessionServer' \in {"query", "lost"}
    BY <1>1, <2>1, <2>2, SessionStates DEF NetType
  <2> QED BY <2>3 DEF Session!Next, Session!Open
<1> QED BY <1>2, <1>3, <1>4, <1>5, <1>6

(* STREAM starts the stream, ENDSTREAM begins to end it.                   *)
LEMMA StartSteps ==
  ASSUME IInv, IInv', NEW f \in CollectFns, NEW ending \in BOOLEAN, CollectStart(f, ending)
  PROVE  [Session!Next]_(Session!vars)
<1>1. /\ CallInv /\ WireInv /\ DlcpType /\ DlcpType' /\ NetType /\ NetType'
      /\ pc = "idle" /\ fn # "connect" /\ f # "connect"
  BY InvParts DEF NetInv, CallInv, CollectStart, MayCall, CollectFns
<1>2. CASE UNCHANGED streaming /\ fn' # "connect" /\ (UNCHANGED net \/ SendFails(FALSE))
  <2>1. Lossy
    BY <1>1, <1>2, LossyNothing, LossySendFails
  <2> QED BY <1>1, <1>2, <2>1, HasLossy, Stutters
<1>3. ASSUME NEW x \in {"STREAM", "ENDSTREAM"}, Send(x), fn' # "connect",
             IF x = "STREAM" THEN streaming = 0 /\ streaming' = 1
                             ELSE streaming = 1 /\ streaming' = -1
      PROVE  Session!Next
  <2>1. InSession /\ InSession' /\ UNCHANGED <<peer, smode>>
    BY <1>1, <1>3 DEF InSession, Send
  <2>2. Settled
    BY <1>1, <2>1 DEF WireInv, Connected, InSession
  <2>3. CASE x = "STREAM"
    <3>1. peer = "up" => smode = "query" /\ ~Has(c2s, "STREAM")
      BY <1>3, <2>2, <2>3 DEF Settled, CommandInv
    <3>2. peer = "up" => Has(c2s', "STREAM")
      <4>1. SUFFICES ASSUME peer = "up" PROVE Has(c2s', "STREAM")
        OBVIOUS
      <4>2. c2s' = Append(c2s, "STREAM") /\ "STREAM" \in Commands
        BY <1>3, <2>3, <4>1 DEF Send, Commands
      <4>3. Len(c2s) + 1 \in 1..Len(c2s') /\ c2s'[Len(c2s) + 1] = "STREAM"
        BY <1>1, <4>2, AppendCommand DEF NetType
      <4> QED BY <4>3 DEF Has
    <3>3. /\ SessionMode = "query" /\ SessionMode' = "streaming"
          /\ SessionServer' = IF SessionServer = "query" THEN "starting" ELSE SessionServer
      BY <1>1, <1>3, <2>1, <2>3, <3>1, <3>2, SessionStates DEF NetType
    <3> QED BY <3>3 DEF Session!Next, Session!Start
  <2>4. CASE x = "ENDSTREAM"
    <3>1. Has(c2s', "STREAM") <=> Has(c2s, "STREAM")
      BY <1>1, <1>3, <2>4, HasLossy DEF Commands
    <3>2. /\ SessionMode = "streaming" /\ SessionMode' = "ending"
          /\ SessionServer' = SessionServer
      BY <1>1, <1>3, <2>1, <2>4, <3>1, SessionStates
    <3> QED BY <3>2 DEF Session!Next, Session!End
  <2> QED BY <2>3, <2>4
<1>4. \/ UNCHANGED streaming /\ fn' # "connect" /\ (UNCHANGED net \/ SendFails(FALSE))
      \/ Send("STREAM") /\ fn' # "connect" /\ streaming = 0 /\ streaming' = 1
      \/ Send("ENDSTREAM") /\ fn' # "connect" /\ streaming = 1 /\ streaming' = -1
  BY <1>1 DEF CollectStart, SwitchMode, NoIO, Return, Goto, dlcp
<1> QED BY <1>2, <1>3, <1>4

(* The loop of dl_collect(): only an ENDSTREAM is a step of the session,   *)
(* and it finds the server back in query mode, or lost.                    *)
LEMMA CollectingSteps ==
  ASSUME IInv, IInv',
         \/ CollectTerminated \/ SendKeepalive \/ Poll \/ CollectHeader
         \/ NothingAvailable \/ SelectInterrupted
  PROVE  [Session!Next]_(Session!vars)
<1>1. /\ CallInv /\ WireInv /\ DlcpType /\ DlcpType' /\ NetType /\ NetType'
      /\ pc \in {"loop", "recv"} /\ fn # "connect" /\ sock = "open"
  BY InvParts DEF NetInv, CallInv, CollectTerminated, SendKeepalive, Poll, CollectHeader,
     NothingAvailable, SelectInterrupted, CollectFns
<1>2. fn' # "connect"
  <2>1. ASSUME NEW t, NoPacketYet(t) PROVE fn' # "connect"
    BY <1>1, <2>1 DEF NoPacketYet, Goto, Return
  <2>2. CASE CollectHeader
    BY <1>1, <2>1, <2>2, Zenon DEF CollectHeader, Goto, Return
  <2> QED BY <1>1, <2>1, <2>2 DEF CollectTerminated, SendKeepalive, Poll, NothingAvailable,
             SelectInterrupted, NoIO, Goto, Return
<1>3. CASE UNCHANGED streaming /\ (Lossy \/ Send("ID"))
  BY <1>1, <1>2, <1>3, HasLossy, Stutters DEF Commands
<1>4. CASE CollectHeader /\ Head(s2c).k = "ENDSTREAM" /\ streaming' = 0
  <2>1. InSession /\ InSession' /\ UNCHANGED <<peer, smode, c2s>> /\ s2c # <<>> /\ Settled
    BY <1>1, <1>2, <1>4 DEF InSession, CollectHeader, HeaderArrived, WireInv, Connected
  <2>2. s2c[1].k = "ENDSTREAM" /\ 1 \in 1..Len(s2c)
    BY <1>1, <1>4, <2>1, TailUnits DEF NetType
  <2>3. ~NoEnd(s2c) /\ ~Quiet(s2c)
    BY <2>1, <2>2 DEF Settled, UnitInv, NoEnd, Quiet
  <2>4. streaming = -1
    BY <1>1, <2>1, <2>3 DEF Settled, UnitInv, DlcpType
  <2>5. peer = "up" => smode = "query" /\ ~Has(c2s, "STREAM")
    BY <2>1, <2>3, <2>4 DEF Settled, CommandInv
  <2>6. /\ SessionMode = "ending" /\ SessionMode' = "query"
        /\ SessionServer \in {"query", "lost"} /\ SessionServer' = SessionServer
    BY <1>1, <1>4, <2>1, <2>4, <2>5, SessionStates DEF NetType
  <2> QED BY <2>6 DEF Session!Next, Session!Done
<1>5. CASE CollectHeader /\ Lossy
  <2>1. \/ UNCHANGED streaming
        \/ Head(s2c).k = "ENDSTREAM" /\ streaming' = 0
    BY <1>5, Zenon DEF CollectHeader
  <2> QED BY <1>3, <1>4, <1>5, <2>1
<1>6. CASE ~CollectHeader
  <2>1. CASE SelectInterrupted
    BY <1>1, <1>3, <2>1, PartSelf, BoundsAssumption DEF SelectInterrupted, Lossy, Fault, NetType, dlcp
  <2>2. CASE SendKeepalive
    BY <1>1, <1>3, <2>2, LossySendFails DEF SendKeepalive, dlcp
  <2>3. CASE CollectTerminated \/ Poll \/ NothingAvailable
    BY <1>1, <1>3, <2>3, LossyNothing DEF CollectTerminated, Poll, NothingAvailable, NoIO, dlcp
  <2> QED BY <1>6, <2>1, <2>2, <2>3
<1>7. CollectHeader => Lossy
  BY <1>1, LossyReceive DEF CollectHeader
<1> QED BY <1>5, <1>6, <1>7

(* What the server does of a session: it starts the stream, ends it, or is *)
(* lost.                                                                   *)
LEMMA ServingSteps ==
  ASSUME IInv, IInv', ServerStep
  PROVE  [Session!Next]_(Session!vars)
<1>1. /\ CallInv /\ WireInv /\ DlcpType /\ DlcpType' /\ NetType /\ NetType' /\ SocketInv
  BY InvParts DEF NetInv
<1>2. UNCHANGED <<dlcp, call, clean, sock>> /\ peer = "up" /\ sock = "open"
  BY <1>1 DEF ServerStep, ServerCommand, ServerReplies, ServerStores, ServerStartsStream,
     ServerEndsStream, ServerStreams, ServerCloses, SocketInv, NetType
<1>3. UNCHANGED <<streaming, fn, pc>> /\ (InSession' <=> InSession)
  BY <1>2 DEF dlcp, call, InSession
<1>4. CASE ~InSession
  BY <1>3, <1>4, StuttersOutside
<1>5. CASE InSession /\ ServerCloses
  <2>1. SessionMode' = SessionMode /\ SessionServer' = "lost" /\ SessionServer \notin {"none", "lost"}
    BY <1>1, <1>2, <1>3, <1>5, SessionStates DEF ServerCloses
  <2> QED BY <2>1 DEF Session!Next, Session!Lose
<1>6. CASE InSession /\ ~ServerCloses
  <2>1. CommandInv(streaming, c2s, smode) /\ streaming \in {-1, 0, 1}
    BY <1>1, <1>2, <1>6 DEF WireInv, Connected, Settled, InSession, CallInv, DlcpType
  <2>2. CASE ServerReplies \/ ServerStores
    <3>1. c2s # <<>> /\ Head(c2s) \notin {"STREAM", "ENDSTREAM"} /\ c2s' = Tail(c2s)
          /\ UNCHANGED <<peer, smode>>
      BY <2>2 DEF ServerReplies, ServerStores
    <3>2. Has(c2s', "STREAM") <=> Has(c2s, "STREAM")
      BY <1>1, <2>1, <3>1, TakePlain DEF NetType
    <3> QED BY <1>2, <1>3, <1>6, <3>1, <3>2, Stutters DEF InSession
  <2>3. CASE ServerStreams
    BY <1>2, <1>3, <1>6, <2>3, Stutters DEF ServerStreams, InSession
  <2>4. CASE ServerStartsStream
    <3>1. smode = "query" /\ Has(c2s, "STREAM")
      <4>1. c2s # <<>> /\ Head(c2s) = "STREAM"
        BY <2>4 DEF ServerStartsStream
      <4>2. c2s[1] = "STREAM" /\ 1 \in 1..Len(c2s)
        BY <1>1, <4>1, TailCommand DEF NetType
      <4> QED BY <1>1, <2>1, <4>1, <4>2, TakeStream DEF NetType, Has
    <3>2. smode' = "stream" /\ peer' = "up"
      BY <1>2, <2>4 DEF ServerStartsStream
    <3>3. SessionMode' = SessionMode /\ SessionServer = "starting" /\ SessionServer' = "streaming"
      BY <1>1, <1>2, <1>3, <1>6, <3>1, <3>2, SessionStates
    <3> QED BY <3>3 DEF Session!Next, Session!Started
  <2>5. CASE ServerEndsStream
    <3>1. streaming = -1 /\ smode = "stream" /\ ~Has(c2s', "STREAM")
      BY <1>1, <2>1, <2>5, TakeEnd DEF ServerEndsStream, NetType
    <3>2. smode' = "query" /\ peer' = "up"
      BY <1>2, <2>5 DEF ServerEndsStream
    <3>3. /\ SessionMode = "ending" /\ SessionMode' = SessionMode
          /\ SessionServer = "streaming" /\ SessionServer' = "query"
      BY <1>1, <1>2, <1>3, <1>6, <3>1, <3>2, SessionStates
    <3> QED BY <3>3 DEF Session!Next, Session!Ended
  <2> QED BY <1>6, <2>2, <2>3, <2>4, <2>5 DEF ServerStep, ServerCommand
<1> QED BY <1>4, <1>5, <1>6

-----------------------------------------------------------------------------
(* A connection is one session after another: it begins closed, and each   *)
(* of its steps is a step of the session or none.                          *)
THEOREM Refinement == Spec => ImplementsSession
<1>1. Init => Session!Init
  BY DEF Init, Session!Init, SessionMode, SessionServer
<1>2. IInv /\ IInv' /\ [Next]_vars => [Session!Next]_(Session!vars)
  <2>1. SUFFICES ASSUME IInv, IInv', [Next]_vars
                 PROVE  [Session!Next]_(Session!vars)
    OBVIOUS
  <2>2. CASE ApplicationCall
    <3>1. CASE ConnectFails \/ ConnectOpens \/ Disconnect
      BY <2>1, <3>1, ConnectingSteps
    <3>2. CASE \E f \in CollectFns, ending \in BOOLEAN : CollectStart(f, ending)
      BY <2>1, <3>2, StartSteps
    <3> QED BY <2>1, <2>2, <3>1, <3>2, CallingStutters DEF ApplicationCall
  <2>3. CASE CallStep
    BY <2>1, <2>3, ConnectingSteps, RepliesStutter, CollectingSteps DEF CallStep
  <2>4. CASE ServerStep
    BY <2>1, <2>4, ServingSteps
  <2>5. CASE Terminate
    <3>1. UNCHANGED <<sock, peer, c2s, smode, streaming, fn>>
      BY <2>5 DEF Terminate, net, call
    <3>2. SessionMode' = SessionMode /\ SessionServer' = SessionServer
      BY <3>1 DEF SessionMode, SessionServer
    <3> QED BY <3>2 DEF Session!vars
  <2>6. CASE UNCHANGED vars
    <3>1. SessionMode' = SessionMode /\ SessionServer' = SessionServer
      BY <2>6 DEF SessionMode, SessionServer, vars
    <3> QED BY <3>1 DEF Session!vars
  <2> QED BY <2>1, <2>2, <2>3, <2>4, <2>5, <2>6 DEF Next
<1> QED BY <1>1, <1>2, Invariance, PTL DEF Spec, ImplementsSession, Session!Spec

-----------------------------------------------------------------------------
(* The replies: between calls nothing is owed or unread, and a call finds  *)
(* the kind of header it asked for (ReplyInSync, OwnReply), both from the  *)
(* inductive invariant SyncInv; and dl_collect() reports the end of a      *)
(* stream at no other time (EndedMeansOver).                               *)

-----------------------------------------------------------------------------
(* The units: how Plain, Framed and Whole survive what is read and sent.   *)

(* The first unit is taken: what is next depends on the body it announces. *)
LEMMA TakenFramed ==
  ASSUME NEW p, NEW l, NEW s \in Seq(Units), s # <<>>, Plain(s), Framed(p, s),
         l \in Bodied <=> s[1].body # "none"
  PROVE  /\ Plain(Tail(s)) /\ Framed(l, Tail(s))
         /\ Whole(p, s) => Whole(l, Tail(s))
         /\ s[1].k = "DATA" <=> p \in Bodied
<1> DEFINE r == Tail(s)
<1>1. /\ Len(s) \in Nat \ {0} /\ Len(r) = Len(s) - 1 /\ r \in Seq(Units)
      /\ \A i \in 1..Len(r) : r[i] = s[i + 1]
  BY TailUnits
<1>2. r = <<>> <=> Len(r) = 0
  BY <1>1, EmptySeq
<1> HIDE DEF r
<1>3. Plain(r)
  BY <1>1 DEF Plain
<1>4. Framed(l, r)
  <2>1. SUFFICES ASSUME NEW i \in 1..Len(r)
                 PROVE  r[i].k = "DATA" <=> IF i = 1 THEN l \in Bodied ELSE r[i - 1].body # "none"
    BY DEF Framed
  <2>2. r[i] = s[i + 1] /\ i + 1 \in 1..Len(s) /\ i + 1 # 1 /\ (i + 1) - 1 = i
    BY <1>1
  <2>3. r[i].k = "DATA" <=> s[i].body # "none"
    BY <2>2 DEF Framed
  <2>4. i # 1 => i - 1 \in 1..Len(r) /\ r[i - 1] = s[(i - 1) + 1] /\ (i - 1) + 1 = i
    BY <1>1
  <2> QED BY <2>3, <2>4
<1>5. Whole(p, s) => Whole(l, r)
  BY <1>1, <1>2 DEF Whole
<1>6. s[1].k = "DATA" <=> p \in Bodied
  BY <1>1 DEF Framed
<1> QED BY <1>3, <1>4, <1>5, <1>6 DEF r

(* The server appends a packet: its header, and the body if there is one.  *)
LEMMA PushFramed ==
  ASSUME NEW p, NEW s \in Seq(Units), NEW h \in Units,
         Plain(s), Framed(p, s), Whole(p, s), h.k # "DATA",
         h.k \in {"ID", "ENDSTREAM"} => h.body = "none"
  PROVE  Plain(Push(s, h)) /\ Framed(p, Push(s, h)) /\ Whole(p, Push(s, h))
<1> DEFINE r == Append(s, h)
           x == Payload(h.src)
           t == Append(r, x)
<1>1. x \in Units /\ x.k = "DATA" /\ x.body = "none" /\ x.src = h.src
  BY DEF Payload, Header, Units, AllValues, AllBodies
<1>2. /\ Len(s) \in Nat /\ r \in Seq(Units) /\ Len(r) = Len(s) + 1
      /\ \A i \in 1..Len(s) : r[i] = s[i]
      /\ r[Len(s) + 1] = h /\ (s = <<>> <=> Len(s) = 0) /\ r # <<>>
  BY AppendProperties, LenProperties, EmptySeq
<1>3. /\ t \in Seq(Units) /\ Len(t) = Len(r) + 1 /\ t # <<>>
      /\ \A i \in 1..Len(r) : t[i] = r[i]
      /\ t[Len(r) + 1] = x
  BY <1>1, <1>2, AppendProperties, EmptySeq
<1> HIDE DEF r, x, t
<1>4. Plain(r)
  BY <1>2 DEF Plain
<1>5. Framed(p, r)
  <2>1. SUFFICES ASSUME NEW i \in 1..Len(r)
                 PROVE  r[i].k = "DATA" <=> IF i = 1 THEN p \in Bodied ELSE r[i - 1].body # "none"
    BY DEF Framed
  <2>2. CASE i \in 1..Len(s)
    <3>1. r[i] = s[i] /\ (i # 1 => i - 1 \in 1..Len(s) /\ r[i - 1] = s[i - 1])
      BY <1>2, <2>2
    <3> QED BY <2>2, <3>1 DEF Framed
  <2>3. CASE i = Len(s) + 1
    <3>1. r[i].k # "DATA"
      BY <1>2, <2>3
    <3>2. CASE i = 1
      BY <1>2, <2>3, <3>1, <3>2 DEF Whole
    <3>3. CASE i # 1
      <4>1. i - 1 = Len(s) /\ s # <<>> /\ r[i - 1] = s[Len(s)]
        BY <1>2, <2>3, <3>3
      <4> QED BY <3>1, <3>3, <4>1 DEF Whole
    <3> QED BY <3>2, <3>3
  <2> QED BY <1>2, <2>2, <2>3
<1>6. CASE h.body = "none"
  <2>1. Whole(p, r) /\ Push(s, h) = r
    BY <1>2, <1>6 DEF Whole, Push, r
  <2> QED BY <1>4, <1>5, <2>1
<1>7. CASE h.body # "none"
  <2>1. Push(s, h) = t
    BY <1>7 DEF Push, r, x, t
  <2>2. Plain(t)
    BY <1>1, <1>2, <1>3, <1>4 DEF Plain
  <2>3. Framed(p, t)
    <3>1. SUFFICES ASSUME NEW i \in 1..Len(t)
                   PROVE  t[i].k = "DATA" <=> IF i = 1 THEN p \in Bodied ELSE t[i - 1].body # "none"
      BY DEF Framed
    <3>2. CASE i \in 1..Len(r)
      <4>1. t[i] = r[i] /\ (i # 1 => i - 1 \in 1..Len(r) /\ t[i - 1] = r[i - 1])
        BY <1>2, <1>3, <3>2
      <4> QED BY <1>5, <3>2, <4>1 DEF Framed
    <3>3. CASE i = Len(r) + 1
      <4>1. t[i].k = "DATA" /\ i # 1 /\ t[i - 1] = h
        BY <1>1, <1>2, <1>3, <3>3
      <4> QED BY <1>7, <4>1
    <3> QED BY <1>2, <1>3, <3>2, <3>3
  <2>4. Whole(p, t)
    BY <1>1, <1>2, <1>3 DEF Whole
  <2> QED BY <2>1, <2>2, <2>3, <2>4
<1> QED BY <1>6, <1>7

(* A shutdown by the server loses the end of it.                           *)
LEMMA PrefixFramed ==
  ASSUME NEW p, NEW s \in Seq(Units), Plain(s), Framed(p, s), NEW n \in 0..Len(s)
  PROVE  /\ SubSeq(s, 1, n) \in Seq(Units) /\ Len(SubSeq(s, 1, n)) = n
         /\ \A i \in 1..n : SubSeq(s, 1, n)[i] = s[i]
         /\ Plain(SubSeq(s, 1, n)) /\ Framed(p, SubSeq(s, 1, n))
<1> DEFINE r == SubSeq(s, 1, n)
<1>1. Len(s) \in Nat /\ \A i \in 1..n : s[i] \in Units
  BY LenProperties, ElementOfSeq
<1>2. /\ r \in Seq(Units)
      /\ Len(r) = IF 1 <= n THEN n - 1 + 1 ELSE 0
      /\ \A i \in 1..(n - 1 + 1) : r[i] = s[1 + i - 1]
  BY <1>1, SubSeqProperties
<1>3. Len(r) = n /\ \A i \in 1..n : r[i] = s[i]
  BY <1>1, <1>2
<1> HIDE DEF r
<1>4. Plain(r)
  BY <1>1, <1>3 DEF Plain
<1>5. Framed(p, r)
  <2>1. SUFFICES ASSUME NEW i \in 1..Len(r)
                 PROVE  r[i].k = "DATA" <=> IF i = 1 THEN p \in Bodied ELSE r[i - 1].body # "none"
    BY DEF Framed
  <2>2. r[i] = s[i] /\ i \in 1..Len(s) /\ (i # 1 => i - 1 \in 1..n /\ r[i - 1] = s[i - 1])
    BY <1>1, <1>3
  <2> QED BY <2>2 DEF Framed
<1> QED BY <1>2, <1>3, <1>4, <1>5 DEF r

-----------------------------------------------------------------------------
(* A connection in step: how Synced survives the steps of a call.          *)

(* A call takes the first unit, and stands where the next one is: at its   *)
(* body, or at no reply at all.                                            *)
LEMMA SyncTaken ==
  ASSUME NEW m, NEW f, NEW p, NEW g, NEW l, NEW c \in Seq(Commands), NEW s \in Seq(Units),
         NEW e, s # <<>>, Synced(m, f, p, c, s, e),
         l # "reply", l \in Bodied <=> s[1].body # "none",
         m # 0 /\ p = "reply" => s[1].k = "ID"
  PROVE  Synced(m, g, l, c, Tail(s), e)
<1> DEFINE r == Tail(s)
<1>1. /\ Len(s) \in Nat \ {0} /\ Len(r) = Len(s) - 1 /\ r \in Seq(Units)
      /\ \A i \in 1..Len(r) : r[i] = s[i + 1]
  BY TailUnits
<1>2. r = <<>> <=> Len(r) = 0
  BY <1>1, EmptySeq
<1>3. Plain(r) /\ Framed(l, r) /\ (e = "up" => Whole(l, r))
  <2>1. Plain(s) /\ Framed(p, s) /\ (e = "up" => Whole(p, s))
    BY DEF Synced
  <2> QED BY <2>1, TakenFramed
<1> SUFFICES Synced(m, g, l, c, r, e)
  OBVIOUS
<1> HIDE DEF r
<1>4. CASE m = 0
  <2>1. QuerySync(f, p, c, s) /\ c = <<>>
    BY <1>4 DEF Synced, QuerySync
  <2>2. r # <<>> => l \in Bodied
    <3>1. SUFFICES ASSUME r # <<>> PROVE l \in Bodied
      OBVIOUS
    <3>2. 1 \in 1..Len(r) /\ 1 + 1 \in 1..Len(s) /\ 1 + 1 # 1 /\ r[1] = s[1 + 1]
      BY <1>1, <1>2, <3>1
    <3>3. r[1].k = "DATA"
      BY <2>1, <3>2 DEF QuerySync
    <3> QED BY <1>3, <3>2, <3>3 DEF Framed
  <2>3. \A i \in 1..Len(r) : i # 1 => r[i].k = "DATA"
    BY <1>1, <2>1 DEF QuerySync
  <2>4. QuerySync(g, l, c, r)
    BY <2>1, <2>2, <2>3, EmptySeq DEF QuerySync
  <2> QED BY <1>3, <1>4, <2>4 DEF Synced
<1>5. CASE m # 0
  <2>1. StreamSync(m, f, p, c, s)
    BY <1>5 DEF Synced
  <2>2. ~Has(c, "ID") /\ ~HasID(r)
    <3>1. CASE p = "reply"
      <4>0. OnceID(s) /\ ~(Has(c, "ID") /\ HasID(s))
        BY <2>1, <3>1, Zenon DEF StreamSync, OwnID
      <4>1. s[1].k = "ID" /\ 1 \in 1..Len(s)
        BY <1>1, <1>5, <3>1
      <4>2. HasID(s)
        BY <4>1 DEF HasID
      <4>3. \A i \in 1..Len(r) : i + 1 \in 1..Len(s) /\ i + 1 # 1
        BY <1>1
      <4> QED BY <1>1, <4>0, <4>1, <4>2, <4>3 DEF HasID, OnceID
    <3>2. CASE p # "reply"
      <4>1. \A i \in 1..Len(r) : i + 1 \in 1..Len(s)
        BY <1>1
      <4>2. ~Has(c, "ID") /\ ~HasID(s)
        BY <2>1, <3>2, Zenon DEF StreamSync, OwnID
      <4> QED BY <1>1, <4>1, <4>2 DEF HasID
    <3> QED BY <3>1, <3>2
  <2>3. StreamUnits(r)
    <3>1. \A i \in 1..Len(r) : i + 1 \in 1..Len(s)
      BY <1>1
    <3> QED BY <1>1, <2>1, <3>1 DEF StreamSync, StreamUnits
  <2>4. StreamCommands(m, c)
    BY <2>1 DEF StreamSync
  <2>5. StreamSync(m, g, l, c, r)
    BY <2>2, <2>3, <2>4, Zenon DEF StreamSync, OwnID
  <2> QED BY <1>3, <1>5, <2>5 DEF Synced
<1> QED BY <1>4, <1>5

(* A call that reads nothing goes from one place between packets to        *)
(* another; dl_read() of the next packet waits for one with no request.    *)
LEMMA SyncStays ==
  ASSUME NEW m, NEW f, NEW p, NEW g, NEW l, NEW c, NEW s, NEW e,
         Synced(m, f, p, c, s, e), p \notin Bodied \cup {"reply"}, l \notin Bodied,
         l = "reply" => m = 0
  PROVE  Synced(m, g, l, c, s, e)
<1>1. p \notin Bodied /\ l \notin Bodied /\ p # "reply"
  OBVIOUS
<1>2. Plain(s) /\ Framed(l, s) /\ (e = "up" => Whole(l, s))
  BY <1>1 DEF Synced, Framed, Whole
<1>3. CASE m = 0
  <2>1. QuerySync(g, l, c, s)
    BY <1>1, <1>3 DEF Synced, QuerySync
  <2> QED BY <1>2, <1>3, <2>1 DEF Synced
<1>4. CASE m # 0
  <2>1. StreamSync(m, f, p, c, s) /\ l # "reply"
    BY <1>4 DEF Synced
  <2>2. StreamSync(m, g, l, c, s)
    BY <1>1, <2>1, Zenon DEF StreamSync, OwnID
  <2> QED BY <1>2, <1>4, <2>2 DEF Synced
<1> QED BY <1>3, <1>4

(* A call in query mode sends its command, a WRITE that nobody answers, or *)
(* STREAM.  (A command sent to a server that has shut down is lost.)       *)
LEMMA SyncAsks ==
  ASSUME NEW f, NEW p, NEW g, NEW l, NEW c \in Seq(Commands), NEW x \in Commands,
         NEW d \in Seq(Commands), NEW s \in Seq(Units), NEW e,
         Synced(0, f, p, c, s, e), p \notin Bodied \cup {"reply"}, l \notin Bodied,
         d = c \/ d = Append(c, x)
  PROVE  /\ x = "WRITE_N" \/ (l = "reply" /\ x \in Asked(g)) => Synced(0, g, l, d, s, e)
         /\ x = "STREAM" /\ l # "reply" => Synced(1, g, l, d, s, e)
<1>1. /\ Len(c) \in Nat
      /\ \/ d = c
         \/ /\ Len(d) = Len(c) + 1 /\ d[Len(c) + 1] = x
            /\ \A i \in 1..Len(c) : d[i] = c[i]
  BY AppendCommand
<1>2. p \notin Bodied /\ l \notin Bodied /\ p # "reply"
  OBVIOUS
<1>3. Plain(s) /\ Framed(l, s) /\ (e = "up" => Whole(l, s))
  BY <1>2 DEF Synced, Framed, Whole
<1>4. QuerySync(f, p, c, s)
  BY Zenon DEF Synced
<1>5. Len(s) = 0 /\ \A i \in 1..Len(c) : c[i] = "WRITE_N"
  BY <1>2, <1>4, EmptySeq DEF QuerySync
<1>6. ASSUME x = "WRITE_N" \/ (l = "reply" /\ x \in Asked(g))
      PROVE  QuerySync(g, l, d, s)
  <2>1. \A i \in 1..Len(d) : d[i] = "WRITE_N" \/ (i = Len(d) /\ l = "reply" /\ d[i] \in Asked(g))
    BY <1>1, <1>5, <1>6
  <2> QED BY <1>5, <2>1, EmptySeq DEF QuerySync
<1>7. ASSUME x = "STREAM", l # "reply"
      PROVE  StreamSync(1, g, l, d, s)
  <2>1. \A i \in 1..Len(d) : d[i] \in {"WRITE_N", "STREAM"}
    BY <1>1, <1>5, <1>7
  <2>2. ~HasID(s) /\ ~Has(d, "ID")
    BY <1>5, <2>1 DEF HasID, Has
  <2> QED BY <1>5, <1>7, <2>1, <2>2 DEF StreamSync, OwnID, StreamCommands, StreamUnits
<1>8. 1 # 0
  OBVIOUS
<1> QED BY <1>3, <1>6, <1>7, <1>8, Zenon DEF Synced

(* While streaming ENDSTREAM is sent, or the ID of an application.         *)
LEMMA SyncStreaming ==
  ASSUME NEW m \in {-1, 1}, NEW f, NEW p, NEW g, NEW l,
         NEW c \in Seq(Commands), NEW x \in Commands, NEW d \in Seq(Commands),
         NEW s \in Seq(Units), NEW e,
         Synced(m, f, p, c, s, e), p \notin Bodied \cup {"reply"}, l \notin Bodied,
         d = Append(c, x) \/ (c = <<>> /\ d = c)
  PROVE  /\ x = "ENDSTREAM" /\ m = 1 /\ l # "reply" => Synced(-1, g, l, d, s, e)
         /\ x = "ID" /\ l = "reply" /\ g = "rawid" /\ g \in Calls => Synced(m, g, l, d, s, e)
<1>1. /\ Len(c) \in Nat
      /\ \/ Len(d) = 0 /\ Len(c) = 0
         \/ /\ Len(d) = Len(c) + 1 /\ d[Len(c) + 1] = x
            /\ \A i \in 1..Len(c) : d[i] = c[i]
  BY AppendCommand, EmptySeq
<1>2. p \notin Bodied /\ l \notin Bodied /\ p # "reply" /\ m # 0 /\ -1 # 0
  OBVIOUS
<1>3. Plain(s) /\ Framed(l, s) /\ (e = "up" => Whole(l, s))
  BY <1>2 DEF Synced, Framed, Whole
<1>4. StreamSync(m, f, p, c, s)
  BY <1>2, Zenon DEF Synced
<1>5. ~Has(c, "ID") /\ ~HasID(s)
  BY <1>2, <1>4, Zenon DEF StreamSync, OwnID
<1>6. StreamCommands(m, c) /\ StreamUnits(s)
  BY <1>4 DEF StreamSync
<1>7. ASSUME x = "ENDSTREAM", m = 1, l # "reply"
      PROVE  StreamSync(-1, g, l, d, s)
  <2>1. \A i \in 1..Len(d) : d[i] \in {"WRITE_N", "STREAM", "ENDSTREAM", "ID"}
    BY <1>1, <1>6, <1>7 DEF StreamCommands
  <2>2. \A i \in 1..Len(d) : d[i] = "ID" \/ \E j \in i..Len(d) : d[j] = "ENDSTREAM"
    BY <1>1, <1>7
  <2>3. ~Has(d, "ID")
    BY <1>1, <1>5, <1>7 DEF Has
  <2> QED BY <1>5, <1>6, <1>7, <2>1, <2>2, <2>3, Zenon DEF StreamSync, OwnID, StreamCommands
<1>8. ASSUME x = "ID", l = "reply", g = "rawid", g \in Calls
      PROVE  StreamSync(m, g, l, d, s)
  <2>1. \A i \in 1..Len(d) : d[i] \in {"WRITE_N", "STREAM", "ENDSTREAM", "ID"}
    BY <1>1, <1>6, <1>8 DEF StreamCommands
  <2>2. ASSUME m = -1, NEW i \in 1..Len(d), d[i] # "ID"
        PROVE  \E j \in i..Len(d) : d[j] = "ENDSTREAM"
    <3>1. i \in 1..Len(c) /\ c[i] # "ID" /\ Len(d) = Len(c) + 1 /\ \A j \in 1..Len(c) : d[j] = c[j]
      BY <1>1, <1>8, <2>2
    <3>2. PICK j \in i..Len(c) : c[j] = "ENDSTREAM"
      BY <1>6, <2>2, <3>1 DEF StreamCommands
    <3>3. j \in i..Len(d) /\ d[j] = "ENDSTREAM"
      BY <1>1, <3>1, <3>2
    <3> QED BY <3>3
  <2>5. StreamCommands(m, d)
    BY <2>1, <2>2 DEF StreamCommands
  <2>3. Once(d, "ID")
    <3>1. \A i \in 1..Len(d) : d[i] = "ID" => i = Len(c) + 1
      BY <1>1, <1>5 DEF Has
    <3> QED BY <3>1 DEF Once
  <2>4. OnceID(s)
    BY <1>5 DEF HasID, OnceID
  <2> QED BY <1>5, <1>6, <1>8, <2>3, <2>4, <2>5, Zenon DEF StreamSync, OwnID
<1> QED BY <1>2, <1>3, <1>7, <1>8, Zenon DEF Synced

-----------------------------------------------------------------------------
(* A connection in step: how Synced survives the steps of the server.      *)

(* What Push appends: the header, and a body if it has one.                *)
LEMMA PushUnits ==
  ASSUME NEW s \in Seq(Units), NEW h \in Units
  PROVE  /\ Push(s, h) \in Seq(Units) /\ Push(s, h) # <<>> /\ Len(s) \in Nat
         /\ Len(Push(s, h)) \in {Len(s) + 1, Len(s) + 2}
         /\ h.body = "none" => Len(Push(s, h)) = Len(s) + 1
         /\ \A i \in 1..Len(s) : Push(s, h)[i] = s[i]
         /\ Push(s, h)[Len(s) + 1] = h
         /\ \A i \in 1..Len(Push(s, h)) : i > Len(s) + 1 =>
              Push(s, h)[i].k = "DATA" /\ Push(s, h)[i].src = h.src
<1> DEFINE r == Append(s, h)
           x == Payload(h.src)
           t == Append(r, x)
<1>1. x \in Units /\ x.k = "DATA" /\ x.src = h.src
  BY DEF Payload, Header, Units, AllValues, AllBodies
<1>2. /\ Len(s) \in Nat /\ r \in Seq(Units) /\ Len(r) = Len(s) + 1
      /\ \A i \in 1..Len(s) : r[i] = s[i]
      /\ r[Len(s) + 1] = h /\ r # <<>>
  BY AppendProperties, LenProperties, EmptySeq
<1>3. /\ t \in Seq(Units) /\ Len(t) = Len(r) + 1 /\ t # <<>>
      /\ \A i \in 1..Len(r) : t[i] = r[i]
      /\ t[Len(r) + 1] = x
  BY <1>1, <1>2, AppendProperties, EmptySeq
<1>4. Push(s, h) = IF h.body = "none" THEN r ELSE t
  BY DEF Push
<1> HIDE DEF r, x, t
<1> QED BY <1>1, <1>2, <1>3, <1>4

(* What a call owes and is owed while streaming, one command further.      *)
LEMMA StreamTaken ==
  ASSUME NEW m, NEW c \in Seq(Commands), c # <<>>, StreamCommands(m, c)
  PROVE  /\ StreamCommands(m, Tail(c))
         /\ Has(Tail(c), "ID") => Has(c, "ID")
         /\ Once(c, "ID") => Once(Tail(c), "ID") /\ (Head(c) = "ID" => ~Has(Tail(c), "ID"))
<1> DEFINE r == Tail(c)
<1>1. /\ Len(c) \in Nat \ {0} /\ Len(r) = Len(c) - 1 /\ c[1] = Head(c)
      /\ \A i \in 1..Len(r) : r[i] = c[i + 1]
  BY TailCommand
<1> HIDE DEF r
<1>3. \A i \in 1..Len(r) : i + 1 \in 1..Len(c) /\ i + 1 # 1
  BY <1>1
<1>4. ASSUME m = -1, NEW i \in 1..Len(r), r[i] # "ID"
      PROVE  \E j \in i..Len(r) : r[j] = "ENDSTREAM"
  <2>1. PICK j \in (i + 1)..Len(c) : c[j] = "ENDSTREAM"
    BY <1>1, <1>3, <1>4 DEF StreamCommands
  <2>2. j - 1 \in i..Len(r) /\ r[j - 1] = c[(j - 1) + 1] /\ (j - 1) + 1 = j
    BY <1>1, <2>1
  <2> QED BY <2>1, <2>2
<1>5. Has(r, "ID") => Has(c, "ID")
  BY <1>1, <1>3 DEF Has
<1>6. Once(c, "ID") => Once(r, "ID") /\ (c[1] = "ID" => ~Has(r, "ID"))
  <2>1. ASSUME Once(c, "ID"), NEW i \in 1..Len(r), NEW j \in 1..Len(r), r[i] = "ID", r[j] = "ID"
        PROVE  i = j
    <3>1. i + 1 = j + 1
      BY <1>1, <1>3, <2>1 DEF Once
    <3> QED BY <3>1
  <2>2. ASSUME Once(c, "ID"), c[1] = "ID", NEW i \in 1..Len(r), r[i] = "ID"
        PROVE  FALSE
    <3>1. i + 1 = 1 /\ i \in Nat
      BY <1>1, <1>3, <2>2 DEF Once
    <3> QED BY <1>3, <3>1
  <2> QED BY <2>1, <2>2 DEF Once, Has
<1>7. \A i \in 1..Len(r) : r[i] \in {"WRITE_N", "STREAM", "ENDSTREAM", "ID"}
  BY <1>1, <1>3 DEF StreamCommands
<1>8. StreamCommands(m, r)
  BY <1>4, <1>7 DEF StreamCommands
<1> QED BY <1>1, <1>5, <1>6, <1>8 DEF r

(* A WRITE without acknowledgement or STREAM is taken: no reply.           *)
LEMMA SyncTakes ==
  ASSUME NEW m, NEW f, NEW p, NEW c \in Seq(Commands), NEW s \in Seq(Units), NEW e,
         c # <<>>, Synced(m, f, p, c, s, e), Head(c) \in {"WRITE_N", "STREAM"}
  PROVE  Synced(m, f, p, Tail(c), s, e)
<1> DEFINE r == Tail(c)
<1>1. /\ Len(c) \in Nat \ {0} /\ Len(r) = Len(c) - 1 /\ c[1] = Head(c) /\ r \in Seq(Commands)
      /\ \A i \in 1..Len(r) : r[i] = c[i + 1]
  BY TailCommand
<1>2. CASE m = 0
  <2>1. QuerySync(f, p, c, s)
    BY <1>2, Zenon DEF Synced
  <2>2. s = <<>> /\ \A i \in 1..Len(c) : c[i] = "WRITE_N" \/ (i = Len(c) /\ p = "reply" /\ c[i] \in Asked(f))
    BY <2>1 DEF QuerySync
  <2> HIDE DEF r
  <2>3. ASSUME NEW i \in 1..Len(r)
        PROVE  r[i] = "WRITE_N" \/ (i = Len(r) /\ p = "reply" /\ r[i] \in Asked(f))
    <3>1. i + 1 \in 1..Len(c) /\ (i + 1 = Len(c) => i = Len(r)) /\ r[i] = c[i + 1]
      BY <1>1
    <3> QED BY <2>2, <3>1
  <2>4. QuerySync(f, p, r, s)
    BY <2>1, <2>2, <2>3 DEF QuerySync
  <2> QED BY <1>2, <2>4, Zenon DEF Synced, r
<1>3. CASE m # 0
  <2>1. StreamSync(m, f, p, c, s) /\ StreamCommands(m, c)
    BY <1>3, Zenon DEF Synced, StreamSync
  <2>2. /\ StreamCommands(m, r)
        /\ Has(r, "ID") => Has(c, "ID")
        /\ Once(c, "ID") => Once(r, "ID")
    BY <2>1, StreamTaken
  <2> HIDE DEF r
  <2>3. StreamSync(m, f, p, r, s)
    BY <2>1, <2>2, Zenon DEF StreamSync, OwnID
  <2> QED BY <1>3, <2>3, Zenon DEF Synced, r
<1> QED BY <1>2, <1>3

(* The kind of header that answers a command.                              *)
LEMMA ReplyKinds ==
  ASSUME NEW x \in {"ID", "QUERY", "READ", "INFO"}, NEW h \in Replies(x)
  PROVE  /\ h \in Units /\ h.k # "DATA"
         /\ x = "ID" => h.k = "ID" /\ h.body = "none"
         /\ x # "ID" => h.k # "ID" /\ h.k # "ENDSTREAM"
         /\ \A f : x \in Asked(f) => h.k \in Expected(f)
<1>1. \A k, v, b : /\ Header(k, v, b, "reply").k = k
                  /\ Header(k, v, b, "reply").body = b
  BY DEF Header
<1>2. \A g \in ErrorReplies : g.k = "ERROR"
  BY <1>1 DEF ErrorReplies
<1>3. /\ x = "ID" => h.k = "ID" /\ h.body = "none"
      /\ x = "QUERY" => h.k \in {"OK", "ERROR"}
      /\ x = "READ" => h.k \in {"PACKET", "ERROR"}
      /\ x = "INFO" => h.k \in {"INFO", "ERROR"}
  <2>1. CASE x = "ID"
    BY <1>1, <2>1 DEF Replies
  <2>2. CASE x = "QUERY"
    BY <1>1, <1>2, <2>2 DEF Replies
  <2>3. CASE x = "READ"
    BY <1>1, <1>2, <2>3 DEF Replies, Answers
  <2>4. CASE x = "INFO"
    BY <1>1, <1>2, <2>4 DEF Replies, Answers
  <2> QED BY <2>1, <2>2, <2>3, <2>4
<1>4. ASSUME NEW f, x \in Asked(f)
      PROVE  h.k \in Expected(f)
  <2>1. CASE f \in ReplyFns
    <3>1. f \notin {"read", "read_next", "getinfo", "rawid", "connect"} /\ f \notin CollectFns
      BY <2>1 DEF ReplyFns, CollectFns
    <3>2. Asked(f) = {"QUERY"}
      BY <2>1, <3>1 DEF Asked
    <3>3. Expected(f) = {"OK", "ERROR"}
      BY <2>1, <3>1 DEF Expected
    <3> QED BY <1>3, <1>4, <3>2, <3>3
  <2>2. CASE f \notin ReplyFns
    <3>1. Asked(f) = CASE f = "read"                 -> {"READ"}
                       [] f = "getinfo"              -> {"INFO"}
                       [] f \in {"rawid", "connect"} -> {"ID"}
                       [] OTHER                      -> {}
      BY <2>2 DEF Asked
    <3>2. f \in {"read", "getinfo", "rawid", "connect"} => f \notin CollectFns
      BY DEF CollectFns
    <3>3. CASE f = "read"
      <4>1. Expected(f) = {"PACKET", "ERROR"}
        BY <2>2, <3>2, <3>3 DEF Expected
      <4> QED BY <1>3, <1>4, <3>1, <3>3, <4>1
    <3>4. CASE f = "getinfo"
      <4>1. Expected(f) = {"INFO", "ERROR"}
        BY <2>2, <3>2, <3>4 DEF Expected
      <4> QED BY <1>3, <1>4, <3>1, <3>4, <4>1
    <3>5. CASE f \in {"rawid", "connect"}
      <4>1. Expected(f) = {"ID"}
        BY <2>2, <3>2, <3>5 DEF Expected
      <4> QED BY <1>3, <1>4, <3>1, <3>5, <4>1
    <3>6. CASE f \notin {"read", "getinfo", "rawid", "connect"}
      BY <1>4, <3>1, <3>6
    <3> QED BY <3>3, <3>4, <3>5, <3>6
  <2> QED BY <2>1, <2>2
<1> QED BY <1>3, <1>4, ReplyUnits

(* A reply is sent: the one the call waits for.                            *)
LEMMA SyncReplies ==
  ASSUME NEW m, NEW f, NEW p, NEW c \in Seq(Commands), NEW s \in Seq(Units),
         c # <<>>, Synced(m, f, p, c, s, "up"), Head(c) \in {"ID", "QUERY", "READ", "INFO"},
         NEW h \in Replies(Head(c))
  PROVE  Synced(m, f, p, Tail(c), Push(s, h), "up")
<1> DEFINE r == Tail(c)
           t == Push(s, h)
<1>1. /\ Len(c) \in Nat \ {0} /\ Len(r) = Len(c) - 1 /\ c[1] = Head(c) /\ r \in Seq(Commands)
  BY TailCommand
<1>0. /\ h \in Units /\ h.k # "DATA"
      /\ Head(c) = "ID" => h.k = "ID" /\ h.body = "none"
      /\ Head(c) # "ID" => h.k # "ID" /\ h.k # "ENDSTREAM"
      /\ \A g : Head(c) \in Asked(g) => h.k \in Expected(g)
  BY ReplyKinds
<1>2. /\ t \in Seq(Units) /\ t # <<>> /\ Len(s) \in Nat
      /\ Len(t) \in {Len(s) + 1, Len(s) + 2}
      /\ h.body = "none" => Len(t) = Len(s) + 1
      /\ \A i \in 1..Len(s) : t[i] = s[i]
      /\ t[Len(s) + 1] = h
      /\ \A i \in 1..Len(t) : i > Len(s) + 1 => t[i].k = "DATA" /\ t[i].src = h.src
  BY <1>0, PushUnits
<1>5. Plain(t) /\ Framed(p, t) /\ Whole(p, t)
  <2>1. Plain(s) /\ Framed(p, s) /\ Whole(p, s)
    BY Zenon DEF Synced
  <2>2. h.k \in {"ID", "ENDSTREAM"} => h.body = "none"
    BY <1>0
  <2> QED BY <1>0, <2>1, <2>2, PushFramed
<1>3. CASE m = 0
  <2>1. QuerySync(f, p, c, s)
    BY <1>3, Zenon DEF Synced
  <2> HIDE DEF r, t
  <2>2. 1 \in 1..Len(c) /\ c[1] # "WRITE_N"
    BY <1>1
  <2>3. s = <<>> /\ Len(c) = 1 /\ p = "reply" /\ c[1] \in Asked(f)
    BY <2>1, <2>2 DEF QuerySync
  <2>4. Len(s) = 0 /\ r = <<>> /\ Len(r) = 0
    BY <1>1, <2>3, EmptySeq
  <2>5. t[1].k \in Expected(f)
    BY <1>0, <1>1, <1>2, <2>3, <2>4
  <2>6. \A i \in 1..Len(t) : i # 1 => t[i].k = "DATA"
    BY <1>2, <2>4
  <2>7. QuerySync(f, p, r, t)
    BY <2>3, <2>4, <2>5, <2>6 DEF QuerySync
  <2> QED BY <1>3, <1>5, <2>7, Zenon DEF Synced, r, t
<1>4. CASE m # 0
  <2>1. StreamSync(m, f, p, c, s)
    BY <1>4, Zenon DEF Synced
  <2>2. StreamCommands(m, c) /\ StreamUnits(s)
    BY <2>1, Zenon DEF StreamSync
  <2>3. c[1] = "ID" /\ Has(c, "ID")
    BY <1>1, <2>2 DEF Has, StreamCommands
  <2>4. /\ p = "reply" /\ f = "rawid" /\ "rawid" \in Calls
        /\ Once(c, "ID") /\ ~HasID(s)
    BY <2>1, <2>3, Zenon DEF StreamSync, OwnID
  <2>5. /\ StreamCommands(m, r)
        /\ Once(r, "ID") /\ ~Has(r, "ID")
    BY <1>1, <2>2, <2>3, <2>4, StreamTaken
  <2>6. h.k = "ID" /\ Len(t) = Len(s) + 1
    BY <1>0, <1>1, <1>2, <2>3
  <2>7. StreamUnits(t)
    BY <1>2, <2>2, <2>6 DEF StreamUnits
  <2>8. OnceID(t)
    <3>1. \A i \in 1..Len(t) : t[i].k = "ID" => i = Len(s) + 1
      BY <1>2, <2>4, <2>6 DEF HasID
    <3> QED BY <3>1 DEF OnceID
  <2>9. StreamSync(m, f, p, r, t)
    BY <2>2, <2>4, <2>5, <2>7, <2>8, Zenon DEF StreamSync, OwnID
  <2> QED BY <1>4, <1>5, <2>9, Zenon DEF Synced, r, t
<1> QED BY <1>3, <1>4

(* A packet of the stream is sent, or the end of it.                       *)
LEMMA SyncStreams ==
  ASSUME NEW m, m # 0, NEW f, NEW p, NEW c \in Seq(Commands), NEW s \in Seq(Units),
         Synced(m, f, p, c, s, "up"), NEW h \in Units, h.k \in {"PACKET", "ENDSTREAM"},
         h.k = "ENDSTREAM" => h.body = "none", h.src = "stream"
  PROVE  /\ Synced(m, f, p, c, Push(s, h), "up")
         /\ c # <<>> => Synced(m, f, p, Tail(c), Push(s, h), "up")
<1> DEFINE t == Push(s, h)
<1>1. /\ t \in Seq(Units) /\ t # <<>> /\ Len(s) \in Nat
      /\ Len(t) \in {Len(s) + 1, Len(s) + 2}
      /\ \A i \in 1..Len(s) : t[i] = s[i]
      /\ t[Len(s) + 1] = h
      /\ \A i \in 1..Len(t) : i > Len(s) + 1 => t[i].k = "DATA" /\ t[i].src = h.src
  BY PushUnits
<1>2. Plain(t) /\ Framed(p, t) /\ Whole(p, t)
  <2>1. Plain(s) /\ Framed(p, s) /\ Whole(p, s)
    BY Zenon DEF Synced
  <2> QED BY <2>1, PushFramed
<1>3. StreamSync(m, f, p, c, s)
  BY Zenon DEF Synced
<1>4. StreamUnits(s) /\ StreamCommands(m, c) /\ OwnID(f, p, c, s)
  BY <1>3, Zenon DEF StreamSync
<1> HIDE DEF t
<1>5. StreamUnits(t)
  BY <1>1, <1>4 DEF StreamUnits
<1>6. \A i \in 1..Len(t) : t[i].k = "ID" => i \in 1..Len(s) /\ s[i].k = "ID"
  BY <1>1
<1>7. (HasID(t) => HasID(s)) /\ (OnceID(s) => OnceID(t))
  BY <1>6 DEF HasID, OnceID
<1>8. OwnID(f, p, c, t) /\ StreamSync(m, f, p, c, t)
  <2>1. OwnID(f, p, c, t)
    BY <1>4, <1>7, Zenon DEF OwnID
  <2> QED BY <1>4, <1>5, <2>1 DEF StreamSync
<1>9. ASSUME c # <<>>
      PROVE  StreamSync(m, f, p, Tail(c), t)
  <2>1. /\ StreamCommands(m, Tail(c))
        /\ Has(Tail(c), "ID") => Has(c, "ID")
        /\ Once(c, "ID") => Once(Tail(c), "ID")
    BY <1>4, <1>9, StreamTaken
  <2>2. OwnID(f, p, Tail(c), t)
    BY <1>8, <2>1, Zenon DEF OwnID
  <2> QED BY <1>5, <2>1, <2>2 DEF StreamSync
<1> QED BY <1>2, <1>8, <1>9, Zenon DEF Synced, t

(* The server shuts down, and the end of what it sent is lost.             *)
LEMMA SyncCloses ==
  ASSUME NEW m, NEW f, NEW p, NEW c \in Seq(Commands), NEW s \in Seq(Units),
         Synced(m, f, p, c, s, "up"), NEW n \in 0..Len(s)
  PROVE  Synced(m, f, p, <<>>, SubSeq(s, 1, n), "fin")
<1> DEFINE r == SubSeq(s, 1, n)
           d == <<>>
<1>1. /\ r \in Seq(Units) /\ Len(r) = n /\ \A i \in 1..n : r[i] = s[i]
      /\ Plain(r) /\ Framed(p, r)
  <2>1. Plain(s) /\ Framed(p, s)
    BY Zenon DEF Synced
  <2> QED BY <2>1, PrefixFramed
<1>2. Len(d) = 0 /\ (r # <<>> => Len(r) # 0) /\ Len(s) \in Nat /\ (s # <<>> <=> Len(s) # 0)
  BY <1>1, EmptySeq, LenProperties
<1>3. \A i \in 1..Len(r) : i \in 1..Len(s) /\ r[i] = s[i]
  BY <1>1, <1>2
<1> HIDE DEF r
<1>4. CASE m = 0
  <2>1. QuerySync(f, p, c, s)
    BY <1>4, Zenon DEF Synced
  <2>2. r # <<>> => s # <<>> /\ 1 \in 1..Len(r)
    BY <1>1, <1>2
  <2>3. /\ r # <<>> => p \in Bodied \/ (p = "reply" /\ r[1].k \in Expected(f))
        /\ \A i \in 1..Len(r) : i # 1 => r[i].k = "DATA"
    BY <1>3, <2>1, <2>2 DEF QuerySync
  <2>4. QuerySync(f, p, d, r)
    BY <1>2, <2>3 DEF QuerySync
  <2> QED BY <1>1, <1>4, <2>4 DEF Synced, r
<1>5. CASE m # 0
  <2>1. StreamSync(m, f, p, c, s)
    BY <1>5, Zenon DEF Synced
  <2>2. /\ StreamUnits(s)
        /\ p = "reply" => f = "rawid" /\ "rawid" \in Calls /\ OnceID(s)
        /\ p # "reply" => ~HasID(s)
    BY <2>1, Zenon DEF StreamSync, OwnID
  <2>3. (HasID(r) => HasID(s)) /\ (OnceID(s) => OnceID(r))
    BY <1>3 DEF HasID, OnceID
  <2>4. StreamUnits(r)
    BY <1>3, <2>2 DEF StreamUnits
  <2>5. ~Has(d, "ID") /\ Once(d, "ID")
    BY <1>2 DEF Has, Once
  <2>6. StreamSync(m, f, p, d, r)
    BY <1>2, <2>2, <2>3, <2>4, <2>5 DEF StreamSync, StreamCommands, OwnID
  <2> QED BY <1>1, <1>5, <2>6 DEF Synced, r
<1> QED BY <1>4, <1>5

-----------------------------------------------------------------------------
(* A connection in step: where it starts, and where a stream ends.         *)

(* Nothing on its way, nobody waiting.                                     *)
LEMMA SyncEmpty ==
  ASSUME NEW m, NEW f, NEW p, NEW e, p \notin Bodied \cup {"reply"}
  PROVE  Synced(m, f, p, <<>>, <<>>, e)
<1> DEFINE d == <<>>
<1>1. Len(d) = 0
  OBVIOUS
<1> HIDE DEF d
<1>2. Plain(d) /\ Framed(p, d) /\ Whole(p, d)
  BY <1>1 DEF Plain, Framed, Whole, d
<1>3. QuerySync(f, p, d, d)
  BY <1>1 DEF QuerySync, d
<1>4. StreamCommands(m, d) /\ StreamUnits(d) /\ ~Has(d, "ID") /\ ~HasID(d)
  BY <1>1 DEF StreamCommands, StreamUnits, Has, HasID
<1>5. StreamSync(m, f, p, d, d)
  BY <1>4 DEF StreamSync, OwnID
<1> QED BY <1>2, <1>3, <1>5 DEF Synced, d

(* Only the application's own ID is waited for while streaming.            *)
LEMMA ReplyAwaited ==
  ASSUME NEW m, NEW f, NEW c, NEW s, NEW e, Synced(m, f, "reply", c, s, e), m # 0
  PROVE  f = "rawid"
<1>1. StreamSync(m, f, "reply", c, s)
  BY Zenon DEF Synced
<1> QED BY <1>1 DEF StreamSync, OwnID

(* The end of the stream is read: nothing is left in either direction.     *)
LEMMA SyncEnded ==
  ASSUME NEW f, NEW c \in Seq(Commands), NEW s \in Seq(Units), NEW e,
         Synced(-1, f, "recv", c, s, e), s # <<>>, s[1].k = "ENDSTREAM",
         UnitInv(-1, s), ~Has(c, "ENDSTREAM")
  PROVE  c = <<>> /\ Tail(s) = <<>>
<1> DEFINE r == Tail(s)
<1>1. /\ Len(s) \in Nat \ {0} /\ Len(r) = Len(s) - 1 /\ r \in Seq(Units)
  BY TailUnits
<1>2. StreamSync(-1, f, "recv", c, s)
  <2>1. -1 # 0
    OBVIOUS
  <2> QED BY <2>1, Zenon DEF Synced
<1>3. StreamCommands(-1, c) /\ StreamUnits(s) /\ ~Has(c, "ID") /\ ~HasID(s)
  BY <1>2 DEF StreamSync, OwnID
<1>4. c = <<>>
  <2>1. \A i \in 1..Len(c) : FALSE
    BY <1>3 DEF StreamCommands, Has
  <2>2. Len(c) \in Nat /\ (Len(c) = 0 => c = <<>>)
    BY LenProperties, EmptySeq
  <2> QED BY <2>1, <2>2
<1>5. Len(s) = 1
  <2>1. ASSUME 2 \in 1..Len(s)
        PROVE  FALSE
    <3>1. 1 \in 1..Len(s) /\ 1 < 2
      BY <1>1
    <3>2. s[2].src # "stream"
      BY <2>1, <3>1 DEF UnitInv
    <3> QED BY <1>3, <2>1, <3>2 DEF StreamUnits, HasID
  <2> QED BY <1>1, <2>1
<1> HIDE DEF r
<1>6. r = <<>>
  BY <1>1, <1>5, EmptySeq
<1> QED BY <1>4, <1>6 DEF r

-----------------------------------------------------------------------------
(* Every step keeps SyncInv.                                               *)

(* An exchange that fails half-way ends what SyncInv claims.               *)
LEMMA FailedInSync ==
  ASSUME NEW v, Return(v), clean' = FALSE
  PROVE  SyncInv'
  BY DEF Return, SyncInv

(* A step of a call that touches neither the connection nor the mode.      *)
LEMMA StayingInSync ==
  ASSUME SyncInv, UNCHANGED <<streaming, sock, peer, c2s, s2c, clean>>, fn # "connect",
         pc \notin Bodied \cup {"reply"}, pc' \notin Bodied, fn' # "connect",
         pc' = "reply" => streaming = 0
  PROVE  SyncInv'
<1>1. SUFFICES ASSUME clean PROVE InStep'
  BY DEF SyncInv
<1>2. sock = "open" /\ Synced(streaming, fn, pc, c2s, s2c, peer)
  BY <1>1 DEF SyncInv, InStep
<1>3. Synced(streaming, fn', pc', c2s, s2c, peer)
  BY <1>2, SyncStays
<1> QED BY <1>2, <1>3 DEF InStep

(* A unit is read, whatever its reader does with it; the call does not go  *)
(* on to read a body unless there is one.                                  *)
LEMMA TakingInSync ==
  ASSUME IInv, SyncInv, HeaderArrived \/ BodyArrived, UNCHANGED streaming,
         clean' => clean \/ fn = "connect", fn' # "connect",
         clean' /\ pc = "reply" => streaming = 0 \/ Head(s2c).k = "ID",
         clean' => pc' # "reply" /\ (pc' \in Bodied <=> Head(s2c).body # "none")
  PROVE  SyncInv'
<1>1. SUFFICES ASSUME clean' PROVE InStep'
  BY DEF SyncInv
<1>2. sock = "open" /\ Synced(streaming, fn, pc, c2s, s2c, peer)
  BY <1>1 DEF SyncInv, InStep
<1>3. c2s \in Seq(Commands) /\ s2c \in Seq(Units)
  BY InvParts DEF NetInv, NetType
<1>4. s2c # <<>> /\ s2c' = Tail(s2c) /\ UNCHANGED <<sock, peer, c2s>>
  BY DEF HeaderArrived, BodyArrived
<1>5. Head(s2c) = s2c[1]
  BY <1>3, <1>4, TailUnits
<1>6. Synced(streaming, fn', pc', c2s, Tail(s2c), peer)
  BY <1>1, <1>2, <1>3, <1>4, <1>5, SyncTaken
<1> QED BY <1>2, <1>4, <1>6 DEF InStep

(* A command is sent in query mode, or STREAM that ends it.                *)
LEMMA AskingInSync ==
  ASSUME IInv, SyncInv, NEW x \in Commands, Send(x), streaming = 0,
         pc \notin Bodied \cup {"reply"}, pc' \notin Bodied, UNCHANGED clean, fn' = "connect" => fn = "connect",
         \/ streaming' = 0 /\ x = "WRITE_N"
         \/ streaming' = 0 /\ pc' = "reply" /\ x \in Asked(fn')
         \/ streaming' = 1 /\ x = "STREAM" /\ pc' # "reply"
  PROVE  SyncInv'
<1>1. SUFFICES ASSUME clean \/ fn = "connect" PROVE InStep'
  BY DEF SyncInv
<1>2. sock = "open" /\ Synced(0, fn, pc, c2s, s2c, peer)
  BY <1>1 DEF SyncInv, InStep
<1>3. c2s \in Seq(Commands) /\ s2c \in Seq(Units) /\ c2s' \in Seq(Commands)
  BY InvParts, AppendCommand DEF NetInv, NetType, Send
<1>4. (c2s' = c2s \/ c2s' = Append(c2s, x)) /\ UNCHANGED <<sock, peer, s2c>>
  BY DEF Send
<1>5. /\ x = "WRITE_N" \/ (pc' = "reply" /\ x \in Asked(fn')) =>
           Synced(0, fn', pc', c2s', s2c, peer)
      /\ x = "STREAM" /\ pc' # "reply" => Synced(1, fn', pc', c2s', s2c, peer)
  BY <1>2, <1>3, <1>4, SyncAsks
<1> QED BY <1>2, <1>4, <1>5 DEF InStep

(* ENDSTREAM is sent, or the application's ID, while streaming.            *)
LEMMA AskingInStream ==
  ASSUME IInv, SyncInv, NEW x \in Commands, Send(x), streaming # 0,
         pc = "idle", fn' # "connect", UNCHANGED clean,
         \/ streaming = 1 /\ streaming' = -1 /\ x = "ENDSTREAM" /\ pc' = "loop"
         \/ UNCHANGED streaming /\ x = "ID" /\ pc' = "reply" /\ fn' = "rawid" /\ fn' \in Calls
  PROVE  SyncInv'
<1>1. fn # "connect" /\ streaming \in {-1, 1}
  BY InvParts DEF CallInv, DlcpType
<1>2. SUFFICES ASSUME clean PROVE InStep'
  BY DEF SyncInv
<1>3. sock = "open" /\ Synced(streaming, fn, pc, c2s, s2c, peer)
  BY <1>2 DEF SyncInv, InStep
<1>4. c2s \in Seq(Commands) /\ s2c \in Seq(Units) /\ c2s' \in Seq(Commands)
  BY InvParts, AppendCommand DEF NetInv, NetType, Send
<1>5. c2s' = Append(c2s, x) \/ (c2s = <<>> /\ c2s' = c2s)
  BY InvParts DEF NetInv, NetType, SocketInv, Send
<1>6. UNCHANGED <<sock, peer, s2c>> /\ pc \notin Bodied \cup {"reply"} /\ pc' \notin Bodied
  BY DEF Send, Bodied
<1>7. /\ x = "ENDSTREAM" /\ streaming = 1 /\ pc' # "reply" =>
           Synced(-1, fn', pc', c2s', s2c, peer)
      /\ x = "ID" /\ pc' = "reply" /\ fn' = "rawid" /\ fn' \in Calls =>
           Synced(streaming, fn', pc', c2s', s2c, peer)
  BY <1>1, <1>3, <1>4, <1>5, <1>6, SyncStreaming
<1> QED BY <1>3, <1>6, <1>7 DEF InStep

(* What each request asks for.                                             *)
LEMMA AskedOf ==
  /\ \A f \in ReplyFns : Asked(f) = {"QUERY"}
  /\ Asked("read") = {"READ"} /\ Asked("getinfo") = {"INFO"}
  /\ Asked("rawid") = {"ID"} /\ Asked("connect") = {"ID"}
<1>1. ASSUME NEW f \in ReplyFns
      PROVE  Asked(f) = {"QUERY"}
  <2>1. f \notin {"read", "getinfo", "rawid", "connect"}
    BY DEF ReplyFns
  <2> QED BY <1>1, <2>1 DEF Asked
<1>2. \A f \in {"read", "getinfo", "rawid", "connect"} : f \notin ReplyFns
  BY DEF ReplyFns
<1>3. Asked("read") = {"READ"} /\ Asked("getinfo") = {"INFO"}
  BY <1>2 DEF Asked
<1>4. Asked("rawid") = {"ID"} /\ Asked("connect") = {"ID"}
  BY <1>2 DEF Asked
<1> QED BY <1>1, <1>3, <1>4

(* A call that returns without input or output.                            *)
LEMMA NoIOInSync ==
  ASSUME SyncInv, fn # "connect", pc \notin Bodied \cup {"reply"}, NEW v, NoIO(v)
  PROVE  SyncInv'
<1>1. /\ UNCHANGED <<streaming, sock, peer, c2s, s2c, clean>>
      /\ pc' = "idle" /\ fn' = "none"
  BY DEF NoIO, Return, dlcp, net
<1>2. "idle" \notin Bodied
  BY DEF Bodied
<1> QED BY <1>1, <1>2, StayingInSync

(* The calls of the application, but dl_collect().                         *)
LEMMA CallingInSync ==
  ASSUME IInv, SyncInv,
         \/ Position \/ PositionAfter \/ Match \/ Reject \/ WriteAck \/ WriteNoAck
         \/ Read \/ ReadNext \/ GetInfo \/ RawID
  PROVE  SyncInv'
<1>1. /\ pc = "idle" /\ fn # "connect" /\ pc \notin Bodied \cup {"reply"}
      /\ {"idle", "reply"} \cap Bodied = {}
  <2>1. pc = "idle"
    BY DEF Position, PositionAfter, Match, Reject, WriteAck, WriteNoAck, Read, ReadNext,
           GetInfo, RawID, Refused, Request, MayCall
  <2> QED BY <2>1, InvParts DEF CallInv, Bodied
<1>2. ASSUME NEW f, Refused(f)
      PROVE  SyncInv'
  BY <1>1, <1>2, NoIOInSync DEF Refused
<1>3. ASSUME NEW f \in AllCalls, NEW x \in Commands, x \in Asked(f), NEW resp, Request(f, x, resp)
      PROVE  SyncInv'
  <2>1. CASE SendFails(resp) /\ Return(-1) /\ clean' = FALSE
    BY <2>1, FailedInSync
  <2>2. CASE Send(x) /\ Goto(f, "reply") /\ UNCHANGED clean
    <3>1. streaming = 0 /\ streaming' = 0
      BY <1>3 DEF Request, dlcp
    <3>2. pc' = "reply" /\ fn' = f /\ f # "connect"
      BY <2>2 DEF Goto, AllCalls, ReplyFns, CollectFns
    <3> QED BY <1>1, <1>3, <2>2, <3>1, <3>2, AskingInSync
  <2> QED BY <1>3, <2>1, <2>2 DEF Request
<1>4. /\ {"QUERY", "READ", "INFO", "ID", "WRITE_N"} \subseteq Commands
      /\ ReplyFns \cup {"read", "getinfo", "rawid"} \subseteq AllCalls
  BY DEF Commands, AllCalls
<1>5. CASE Position \/ PositionAfter \/ Match \/ Reject \/ WriteAck
  <2>1. \/ \E f \in ReplyFns : Refused(f)
        \/ \E f \in ReplyFns : Request(f, "QUERY", TRUE)
    BY <1>5 DEF Position, PositionAfter, Match, Reject, WriteAck, ReplyFns
  <2> QED BY <1>2, <1>3, <1>4, <2>1, AskedOf
<1>6. CASE Read \/ GetInfo
  BY <1>2, <1>3, <1>4, <1>6, AskedOf DEF Read, GetInfo
<1>7. CASE WriteNoAck
  <2>1. CASE SendFails(FALSE) /\ Return(-1) /\ clean' = FALSE
    BY <2>1, FailedInSync
  <2>2. CASE /\ Send("WRITE_N") /\ Return(0) /\ UNCHANGED clean
             /\ streaming = 0 /\ UNCHANGED dlcp
    <3>1. streaming' = 0 /\ pc' = "idle" /\ fn' = "none"
      BY <2>2 DEF Return, dlcp
    <3> QED BY <1>1, <1>4, <2>2, <3>1, AskingInSync
  <2> QED BY <1>2, <1>7, <2>1, <2>2 DEF WriteNoAck
<1>8. CASE ReadNext
  <2>1. CASE Return(-1) /\ clean' = FALSE
    BY <2>1, FailedInSync
  <2>2. CASE /\ Goto("read_next", "reply") /\ UNCHANGED clean
             /\ streaming = 0 /\ UNCHANGED <<dlcp, net>>
    <3>1. /\ UNCHANGED <<streaming, sock, peer, c2s, s2c, clean>>
          /\ pc' = "reply" /\ fn' = "read_next"
      BY <2>2 DEF Goto, dlcp, net
    <3> QED BY <1>1, <2>2, <3>1, StayingInSync
  <2> QED BY <1>2, <1>8, <2>1, <2>2 DEF ReadNext
<1>9. CASE RawID
  <2>1. CASE SendFails(TRUE) /\ Return(-1) /\ clean' = FALSE
    BY <2>1, FailedInSync
  <2>2. CASE Send("ID") /\ Goto("rawid", "reply") /\ UNCHANGED clean
    <3>1. /\ UNCHANGED streaming /\ "rawid" \in Calls
          /\ pc' = "reply" /\ fn' = "rawid" /\ "ID" \in Asked("rawid")
      BY <1>9, <2>2, AskedOf DEF RawID, MayCall, Goto, dlcp
    <3>2. CASE streaming = 0
      BY <1>1, <1>4, <2>2, <3>1, <3>2, AskingInSync
    <3>3. CASE streaming # 0
      BY <1>1, <1>4, <2>2, <3>1, <3>3, AskingInStream
    <3> QED BY <3>2, <3>3
  <2> QED BY <1>9, <2>1, <2>2 DEF RawID
<1> QED BY <1>5, <1>6, <1>7, <1>8, <1>9

(* STREAM or ENDSTREAM.                                                    *)
LEMMA StartInSync ==
  ASSUME IInv, SyncInv, NEW f \in CollectFns, NEW ending \in BOOLEAN, CollectStart(f, ending)
  PROVE  SyncInv'
<1>1. /\ pc = "idle" /\ fn # "connect" /\ pc \notin Bodied \cup {"reply"}
      /\ {"idle", "loop"} \cap Bodied = {} /\ f # "connect"
      /\ {"STREAM", "ENDSTREAM"} \subseteq Commands
  BY InvParts DEF CollectStart, MayCall, CallInv, Bodied, CollectFns, Commands
<1>2. CASE NoIO(DLERROR) \/ NoIO(DLENDED)
  BY <1>1, <1>2, NoIOInSync
<1>3. CASE SendFails(FALSE) /\ Return(DLERROR) /\ clean' = FALSE /\ UNCHANGED dlcp
  BY <1>3, FailedInSync
<1>4. CASE /\ streaming = 0 /\ streaming' = 1
           /\ Send("STREAM") /\ Goto(f, "loop") /\ UNCHANGED clean
  <2>1. pc' = "loop" /\ fn' = f
    BY <1>4 DEF Goto
  <2> QED BY <1>1, <1>4, <2>1, AskingInSync
<1>5. CASE /\ streaming = 1 /\ streaming' = -1
           /\ Send("ENDSTREAM") /\ Goto(f, "loop") /\ UNCHANGED clean
  <2>1. pc' = "loop" /\ fn' = f
    BY <1>5 DEF Goto
  <2> QED BY <1>1, <1>5, <2>1, AskingInStream
<1>6. CASE Goto(f, "loop") /\ UNCHANGED <<dlcp, clean, net>>
  <2>1. /\ UNCHANGED <<streaming, sock, peer, c2s, s2c, clean>>
        /\ pc' = "loop" /\ fn' = f
    BY <1>6 DEF Goto, dlcp, net
  <2> QED BY <1>1, <2>1, StayingInSync
<1>7. \/ NoIO(DLERROR) \/ NoIO(DLENDED)
      \/ streaming = 0 /\ SwitchMode(f, "STREAM", 1)
      \/ streaming = 1 /\ SwitchMode(f, "ENDSTREAM", -1)
      \/ Goto(f, "loop") /\ UNCHANGED <<dlcp, clean, net>>
  BY Zenon DEF CollectStart
<1> QED BY <1>2, <1>3, <1>4, <1>5, <1>6, <1>7 DEF SwitchMode

(* The end of an iteration without a packet leaves no body to be read.     *)
LEMMA Iterating ==
  ASSUME NEW t, NoPacketYet(t), fn # "connect"
  PROVE  /\ pc' \notin Bodied \cup {"reply"} /\ fn' # "connect" /\ UNCHANGED clean
<1>1. \/ pc' = "loop" /\ fn' = fn
      \/ pc' = "idle" /\ fn' = "none"
  BY DEF NoPacketYet, Goto, Return
<1> QED BY <1>1 DEF Bodied, NoPacketYet

(* The header of a packet, of the end of the stream, or of neither.        *)
LEMMA HeaderInSync ==
  ASSUME IInv, SyncInv, CollectHeader
  PROVE  SyncInv'
<1>1. /\ fn \in CollectFns /\ fn \notin {"connect", "rawid"} /\ pc = "recv" /\ HeaderArrived
      /\ NetInv /\ DlcpType /\ c2s \in Seq(Commands) /\ s2c \in Seq(Units)
  BY InvParts DEF CallInv, CollectHeader, CollectFns, NetInv, NetType
<1>2. s2c # <<>> /\ s2c' = Tail(s2c) /\ UNCHANGED <<sock, peer, c2s>> /\ Head(s2c) = s2c[1]
  BY <1>1, TailUnits DEF HeaderArrived
<1>3. \/ Goto(fn, "data") /\ Head(s2c).body = "fits" /\ UNCHANGED <<streaming, clean>>
      \/ Return(DLPACKET) /\ Head(s2c).body = "none" /\ UNCHANGED <<streaming, clean>>
      \/ Head(s2c).k = "ID" /\ NoPacketYet(-1) /\ UNCHANGED streaming
      \/ Head(s2c).k = "ENDSTREAM" /\ Return(DLENDED) /\ streaming' = 0 /\ UNCHANGED clean
      \/ Return(DLERROR) /\ clean' = FALSE
  BY Zenon DEF CollectHeader
<1>4. CASE Goto(fn, "data") /\ Head(s2c).body = "fits" /\ UNCHANGED <<streaming, clean>>
  <2>1. pc' = "data" /\ fn' = fn /\ pc' \in Bodied
    BY <1>4 DEF Goto, Bodied
  <2>2. Head(s2c).body # "none"
    BY <1>4
  <2> QED BY <1>1, <1>4, <2>1, <2>2, TakingInSync
<1>5. CASE Return(DLPACKET) /\ Head(s2c).body = "none" /\ UNCHANGED <<streaming, clean>>
  <2>1. pc' = "idle" /\ fn' = "none" /\ pc' \notin Bodied
    BY <1>5 DEF Return, Bodied
  <2> QED BY <1>1, <1>5, <2>1, TakingInSync
<1>6. CASE Head(s2c).k = "ID" /\ NoPacketYet(-1) /\ UNCHANGED streaming
  <2>1. pc' \notin Bodied \cup {"reply"} /\ fn' # "connect" /\ UNCHANGED clean
    BY <1>1, <1>6, Iterating
  <2>2. clean => Head(s2c).body = "none"
    <3>1. SUFFICES ASSUME clean PROVE Head(s2c).body = "none"
      OBVIOUS
    <3>2. Plain(s2c)
      BY <3>1, Zenon DEF SyncInv, InStep, Synced
    <3>3. 1 \in 1..Len(s2c)
      BY <1>1, <1>2, TailUnits
    <3> QED BY <1>2, <1>6, <3>2, <3>3 DEF Plain
  <2> QED BY <1>1, <1>6, <2>1, <2>2, TakingInSync
<1>7. CASE Head(s2c).k = "ENDSTREAM" /\ Return(DLENDED) /\ streaming' = 0 /\ UNCHANGED clean
  <2>1. pc' = "idle" /\ fn' = "none"
    BY <1>7 DEF Return
  <2>2. SUFFICES ASSUME clean PROVE InStep'
    BY <1>7, <2>1 DEF SyncInv
  <2>3. sock = "open" /\ Synced(streaming, fn, "recv", c2s, s2c, peer)
    BY <1>1, <2>2 DEF SyncInv, InStep
  <2>4. Settled /\ 1 \in 1..Len(s2c)
    BY <1>1, <1>2, <2>3, TailUnits DEF NetInv, WireInv, Connected
  <2>5. s2c[1].src = "stream" /\ ~NoEnd(s2c) /\ ~Quiet(s2c)
    BY <1>2, <1>7, <2>4 DEF Settled, UnitInv, NoEnd, Quiet
  <2>6. streaming = -1 /\ UnitInv(-1, s2c)
    BY <1>1, <2>4, <2>5 DEF Settled, UnitInv, DlcpType
  <2>7. ~Has(c2s, "ENDSTREAM")
    <3>1. CASE peer = "up"
      BY <2>4, <2>5, <2>6, <3>1 DEF Settled
    <3>2. CASE peer = "fin"
      <4>1. Len(c2s) = 0
        BY <1>1, <3>2, EmptySeq DEF NetInv, SocketInv
      <4> QED BY <4>1 DEF Has
    <3> QED BY <1>1, <3>1, <3>2 DEF NetInv, NetType
  <2>8. c2s = <<>> /\ Tail(s2c) = <<>>
    BY <1>1, <1>2, <1>7, <2>3, <2>6, <2>7, SyncEnded
  <2>9. "idle" \notin Bodied \cup {"reply"}
    BY DEF Bodied
  <2>10. Synced(0, "none", "idle", <<>>, <<>>, peer)
    BY <2>9, SyncEmpty
  <2> QED BY <1>2, <1>7, <2>1, <2>3, <2>8, <2>10 DEF InStep
<1>8. CASE Return(DLERROR) /\ clean' = FALSE
  BY <1>8, FailedInSync
<1> QED BY <1>3, <1>4, <1>5, <1>6, <1>7, <1>8

(* The loop of dl_collect() and dl_collect_nb(), without keepalives.       *)
LEMMA CollectingInSync ==
  ASSUME ~KeepaliveOn, IInv, SyncInv,
         \/ CollectTerminated \/ SendKeepalive \/ Poll \/ CollectHeader
         \/ NothingAvailable \/ SelectInterrupted
  PROVE  SyncInv'
<1>1. /\ pc \in {"loop", "recv"} /\ fn # "connect"
      /\ pc \notin Bodied \cup {"reply"} /\ {"idle", "recv"} \cap Bodied = {}
  <2>1. pc \in {"loop", "recv"}
    BY DEF CollectTerminated, SendKeepalive, Poll, CollectHeader, NothingAvailable, SelectInterrupted
  <2> QED BY <2>1, InvParts DEF CallInv, CollectFns, Bodied
<1>2. CASE CollectTerminated
  BY <1>1, <1>2, NoIOInSync DEF CollectTerminated
<1>3. CASE SendKeepalive
  BY <1>3 DEF SendKeepalive, KeepaliveDue
<1>4. CASE Poll
  <2>1. /\ UNCHANGED <<streaming, sock, peer, c2s, s2c, clean>>
        /\ pc' = "recv" /\ fn' = fn
    BY <1>4 DEF Poll, Goto, dlcp, net
  <2> QED BY <1>1, <2>1, StayingInSync
<1>5. CASE NothingAvailable
  <2>1. UNCHANGED <<streaming, sock, peer, c2s, s2c>> /\ NoPacketYet(trig)
    BY <1>5 DEF NothingAvailable, net
  <2>2. pc' \notin Bodied \cup {"reply"} /\ fn' # "connect" /\ UNCHANGED clean
    BY <1>1, <2>1, Iterating
  <2> QED BY <1>1, <2>1, <2>2, StayingInSync
<1>6. CASE SelectInterrupted
  <2>1. /\ UNCHANGED <<streaming, sock, peer, c2s, s2c, clean>>
        /\ pc' = "idle" /\ fn' = "none"
    BY <1>6 DEF SelectInterrupted, Return, dlcp
  <2> QED BY <1>1, <2>1, StayingInSync
<1> QED BY <1>2, <1>3, <1>4, <1>5, <1>6, HeaderInSync

(* dl_handlereply() leaves the connection in step, or reports that it is   *)
(* not; the call then stands at the message, if there is one.              *)
LEMMA HandlingInSync ==
  ASSUME NEW h, HandleReply(h), pc = "reply", fn # "connect"
  PROVE  /\ fn' # "connect" /\ (clean' => clean) /\ pc' # "reply"
         /\ clean' => (pc' \in Bodied <=> h.body # "none")
<1>1. CASE ReplyStatus(h) >= 0 /\ h.body = "fits"
  BY <1>1 DEF HandleReply, Bodied
<1>2. CASE ~(ReplyStatus(h) >= 0 /\ h.body = "fits")
  <2>1. pc' = "idle" /\ fn' = "none" /\ clean' = (clean /\ ReplyStatus(h) >= 0)
    BY <1>2, Zenon DEF HandleReply, Return
  <2>2. ReplyStatus(h) >= 0 => h.body \in {"none", "fits"}
    BY DEF ReplyStatus
  <2>3. (clean' => clean) /\ (clean' => h.body = "none")
    BY <1>2, <2>1, <2>2
  <2> QED BY <2>1, <2>3 DEF Bodied
<1> QED BY <1>1, <1>2

(* The replies to the requests.                                            *)
LEMMA RepliesInSync ==
  ASSUME IInv, SyncInv,
         \/ ReplyHeader \/ ReplyMessage \/ ReadHeader \/ ReadDiscard \/ InfoHeader
         \/ DataBody \/ RawIDReply \/ ReceiveFails
  PROVE  SyncInv'
<1>1. c2s \in Seq(Commands) /\ s2c \in Seq(Units)
  BY InvParts DEF NetInv, NetType
<1>2. UNCHANGED streaming
  BY DEF ReplyHeader, ReplyMessage, ReadHeader, ReadDiscard, InfoHeader, DataBody,
         RawIDReply, ReceiveFails, dlcp
<1>3. {"data", "discard"} \subseteq Bodied /\ "idle" \notin Bodied
  BY DEF Bodied
<1>4. ASSUME clean, s2c # <<>>, Head(s2c).k \in {"ID", "DATA"}
      PROVE  Head(s2c).body = "none"
  <2>1. Plain(s2c)
    BY <1>4, Zenon DEF SyncInv, InStep, Synced
  <2>2. 1 \in 1..Len(s2c) /\ Head(s2c) = s2c[1]
    BY <1>1, <1>4, TailUnits
  <2> QED BY <1>4, <2>1, <2>2 DEF Plain
<1>5. ASSUME pc = "reply", fn \notin {"connect", "rawid"}, HeaderArrived,
             fn' # "connect", clean' => clean,
             clean' => pc' # "reply" /\ (pc' \in Bodied <=> Head(s2c).body # "none")
      PROVE  SyncInv'
  <2>1. SUFFICES ASSUME clean PROVE SyncInv'
    BY <1>5 DEF SyncInv
  <2>2. Synced(streaming, fn, "reply", c2s, s2c, peer)
    BY <1>5, <2>1, Zenon DEF SyncInv, InStep
  <2>3. streaming = 0
    BY <1>5, <2>2, ReplyAwaited
  <2> QED BY <1>2, <1>5, <2>3, TakingInSync
<1>6. CASE ReplyHeader
  <2>1. pc = "reply" /\ fn \notin {"connect", "rawid"} /\ HeaderArrived /\ HandleReply(Head(s2c))
    BY <1>6 DEF ReplyHeader, ReplyFns
  <2> QED BY <1>5, <2>1, HandlingInSync
<1>7. CASE ReadHeader
  <2>1. pc = "reply" /\ fn \notin {"connect", "rawid"} /\ HeaderArrived
    BY <1>7 DEF ReadHeader
  <2>2. \/ Head(s2c).body = "fits" /\ Goto(fn, "data") /\ UNCHANGED clean
        \/ Head(s2c).body = "big" /\ Goto(fn, "discard") /\ UNCHANGED clean
        \/ Head(s2c).body = "none" /\ Return(0) /\ UNCHANGED clean
        \/ HandleReply(Head(s2c))
        \/ Return(-1) /\ clean' = FALSE
    BY <1>7, Zenon DEF ReadHeader
  <2>3. CASE HandleReply(Head(s2c))
    BY <1>5, <2>1, <2>3, HandlingInSync
  <2>4. CASE ~HandleReply(Head(s2c))
    <3>1. /\ fn' # "connect" /\ (clean' => clean)
          /\ clean' => pc' # "reply" /\ (pc' \in Bodied <=> Head(s2c).body # "none")
      BY <1>3, <2>1, <2>2, <2>4 DEF Goto, Return
    <3> QED BY <1>5, <2>1, <3>1
  <2> QED BY <2>3, <2>4
<1>8. CASE InfoHeader
  <2>1. pc = "reply" /\ fn \notin {"connect", "rawid"} /\ HeaderArrived
    BY <1>8 DEF InfoHeader
  <2>2. \/ Head(s2c).body = "fits" /\ Goto(fn, "data") /\ UNCHANGED clean
        \/ Head(s2c).body = "none" /\ Return(0) /\ UNCHANGED clean
        \/ HandleReply(Head(s2c))
        \/ Return(-1) /\ clean' = FALSE
    BY <1>8, Zenon DEF InfoHeader
  <2>3. CASE HandleReply(Head(s2c))
    BY <1>5, <2>1, <2>3, HandlingInSync
  <2>4. CASE ~HandleReply(Head(s2c))
    <3>1. /\ fn' # "connect" /\ (clean' => clean)
          /\ clean' => pc' # "reply" /\ (pc' \in Bodied <=> Head(s2c).body # "none")
      BY <1>3, <2>1, <2>2, <2>4 DEF Goto, Return
    <3> QED BY <1>5, <2>1, <3>1
  <2> QED BY <2>3, <2>4
<1>9. CASE RawIDReply
  <2>1. /\ pc = "reply" /\ fn = "rawid" /\ HeaderArrived /\ s2c # <<>>
        /\ pc' = "idle" /\ fn' = "none" /\ clean' = (clean /\ Head(s2c).k = "ID")
    BY <1>9 DEF RawIDReply, HeaderArrived, Return
  <2>2. clean' => clean /\ Head(s2c).k = "ID" /\ Head(s2c).body = "none"
    BY <1>4, <2>1
  <2> QED BY <1>2, <1>3, <2>1, <2>2, TakingInSync
<1>10. CASE ReplyMessage \/ ReadDiscard \/ DataBody
  <2>1. /\ pc \in {"message", "discard", "data"} /\ BodyArrived /\ Head(s2c).k = "DATA" /\ s2c # <<>>
        /\ pc' = "idle" /\ fn' = "none" /\ UNCHANGED clean
    BY <1>10 DEF ReplyMessage, ReadDiscard, DataBody, BodyArrived, Return
  <2>2. clean' => Head(s2c).body = "none"
    BY <1>4, <2>1
  <2> QED BY <1>2, <1>3, <2>1, <2>2, TakingInSync
<1>11. CASE ReceiveFails
  BY <1>11, FailedInSync DEF ReceiveFails
<1> QED BY <1>6, <1>7, <1>8, <1>9, <1>10, <1>11

(* Connecting and disconnecting.                                           *)
LEMMA ConnectingInSync ==
  ASSUME IInv, SyncInv,
         \/ ConnectFails \/ ConnectOpens \/ Disconnect
         \/ ExchangeRefused \/ ExchangeSend \/ ExchangeReply \/ ExchangeFails
  PROVE  SyncInv'
<1>1. CallInv /\ SocketInv /\ c2s \in Seq(Commands) /\ s2c \in Seq(Units)
  BY InvParts DEF NetInv, NetType
<1>2. CASE ConnectFails
  <2>1. sock = "closed" /\ fn' = "none" /\ UNCHANGED clean
    BY <1>2 DEF ConnectFails, Return
  <2> QED BY <2>1 DEF SyncInv, InStep
<1>3. CASE ConnectOpens
  <2>1. /\ sock' = "open" /\ peer' = "up" /\ fn' = "connect" /\ pc' = "exchange"
        /\ UNCHANGED streaming /\ c2s' = <<>> /\ s2c' = <<>>
    BY <1>1, <1>3 DEF ConnectOpens, Goto, SocketInv
  <2>2. "exchange" \notin Bodied \cup {"reply"}
    BY DEF Bodied
  <2>3. Synced(streaming', "connect", "exchange", <<>>, <<>>, "up")
    BY <2>2, SyncEmpty
  <2> QED BY <2>1, <2>3 DEF SyncInv, InStep
<1>4. CASE Disconnect \/ ExchangeRefused \/ ExchangeFails
  BY <1>4, FailedInSync DEF Disconnect, ExchangeRefused, ExchangeFails
<1>5. CASE ExchangeSend
  <2>1. /\ streaming = 0 /\ streaming' = 0 /\ pc = "exchange" /\ fn = "connect"
        /\ Send("ID") /\ pc' = "reply" /\ fn' = "connect" /\ UNCHANGED clean
    BY <1>1, <1>5 DEF ExchangeSend, Goto, dlcp, CallInv
  <2>2. /\ "ID" \in Commands /\ "ID" \in Asked("connect")
        /\ pc \notin Bodied \cup {"reply"} /\ pc' \notin Bodied
    BY <2>1, AskedOf DEF Commands, Bodied
  <2> QED BY <2>1, <2>2, AskingInSync
<1>6. CASE ExchangeReply
  <2>1. /\ streaming = 0 /\ UNCHANGED streaming /\ pc = "reply" /\ fn = "connect"
        /\ HeaderArrived /\ Head(s2c).k = "ID" /\ s2c # <<>>
        /\ pc' = "idle" /\ fn' = "none"
    BY <1>1, <1>6 DEF ExchangeReply, HeaderArrived, Return, dlcp, CallInv
  <2>2. Head(s2c).body = "none"
    <3>1. Plain(s2c)
      BY <2>1, Zenon DEF SyncInv, InStep, Synced
    <3>2. 1 \in 1..Len(s2c) /\ Head(s2c) = s2c[1]
      BY <1>1, <2>1, TailUnits
    <3> QED BY <2>1, <3>1, <3>2 DEF Plain
  <2>3. "idle" \notin Bodied
    BY DEF Bodied
  <2> QED BY <2>1, <2>2, <2>3, TakingInSync
<1> QED BY <1>2, <1>3, <1>4, <1>5, <1>6

(* The server's steps.                                                     *)
LEMMA ServingInSync ==
  ASSUME IInv, SyncInv, ServerStep
  PROVE  SyncInv'
<1>1. /\ CallInv /\ SocketInv /\ NetInv /\ DlcpType /\ NetType
      /\ c2s \in Seq(Commands) /\ s2c \in Seq(Units)
  BY InvParts DEF NetInv, NetType
<1>2. UNCHANGED <<dlcp, call, clean, sock>> /\ peer = "up"
  BY DEF ServerStep, ServerCommand, ServerReplies, ServerStores, ServerStartsStream,
     ServerEndsStream, ServerStreams, ServerCloses
<1>3. UNCHANGED <<streaming, fn, pc, clean, sock>>
  BY <1>2 DEF dlcp, call
<1>4. SUFFICES ASSUME clean \/ fn = "connect" PROVE InStep'
  BY <1>3 DEF SyncInv
<1>5. sock = "open" /\ Synced(streaming, fn, pc, c2s, s2c, "up")
  BY <1>2, <1>4 DEF SyncInv, InStep
<1>6. pc # "exchange" => CommandInv(streaming, c2s, smode)
  BY <1>1, <1>2, <1>5 DEF NetInv, WireInv, Connected, Settled
<1>7. pc = "exchange" => c2s = <<>> /\ smode = "query"
  BY <1>1 DEF CallInv
<1>8. SUFFICES Synced(streaming, fn, pc, c2s', s2c', peer')
  BY <1>3, <1>5 DEF InStep
<1>9. CASE ServerReplies
  <2>1. PICK h \in Replies(Head(c2s)) : s2c' = Push(s2c, h)
    BY <1>9 DEF ServerReplies
  <2>2. /\ c2s # <<>> /\ Head(c2s) \in {"ID", "QUERY", "READ", "INFO"}
        /\ c2s' = Tail(c2s) /\ peer' = "up"
    BY <1>2, <1>9 DEF ServerReplies
  <2> QED BY <1>1, <1>5, <2>1, <2>2, SyncReplies
<1>10. CASE ServerStores \/ ServerStartsStream
  <2>1. /\ c2s # <<>> /\ Head(c2s) \in {"WRITE_N", "STREAM"}
        /\ c2s' = Tail(c2s) /\ peer' = "up" /\ s2c' = s2c
    BY <1>2, <1>10 DEF ServerStores, ServerStartsStream
  <2> QED BY <1>1, <1>5, <2>1, SyncTakes
<1>11. CASE ServerEndsStream
  <2> DEFINE h == Header("ENDSTREAM", 0, "none", "stream")
  <2>1. /\ c2s # <<>> /\ Head(c2s) = "ENDSTREAM" /\ s2c' = Push(s2c, h)
        /\ c2s' = Tail(c2s) /\ peer' = "up"
    BY <1>2, <1>11 DEF ServerEndsStream
  <2>2. h \in Units /\ h.k = "ENDSTREAM" /\ h.body = "none" /\ h.src = "stream"
    BY DEF Header, Units, AllValues, AllBodies
  <2> HIDE DEF h
  <2>3. streaming = -1
    BY <1>1, <1>6, <1>7, <2>1, TakeEnd DEF DlcpType, NetType
  <2>4. streaming # 0
    BY <2>3
  <2> QED BY <1>1, <1>5, <2>1, <2>2, <2>4, SyncStreams
<1>12. CASE ServerStreams
  <2>1. PICK b \in Bodies : s2c' = Push(s2c, Header("PACKET", 0, b, "stream"))
    BY <1>12 DEF ServerStreams
  <2> DEFINE h == Header("PACKET", 0, b, "stream")
  <2>2. h \in Units /\ h.k = "PACKET" /\ h.src = "stream"
    BY BodiesAssumption DEF Header, Units, AllValues, AllBodies
  <2>3. s2c' = Push(s2c, h)
    BY <2>1
  <2> HIDE DEF h
  <2>4. streaming # 0 /\ c2s' = c2s /\ peer' = "up"
    BY <1>2, <1>6, <1>7, <1>12 DEF ServerStreams, CommandInv
  <2> QED BY <1>1, <1>5, <2>2, <2>3, <2>4, SyncStreams
<1>13. CASE ServerCloses
  <2>1. PICK n \in 0..Len(s2c) : s2c' = SubSeq(s2c, 1, n)
    BY <1>13 DEF ServerCloses
  <2>2. c2s' = <<>> /\ peer' = "fin"
    BY <1>13 DEF ServerCloses
  <2> QED BY <1>1, <1>5, <2>1, <2>2, SyncCloses
<1> QED BY <1>9, <1>10, <1>11, <1>12, <1>13 DEF ServerStep, ServerCommand

(* Every step, on a connection that sends no keepalive packets.            *)
LEMMA NextInSync ==
  ASSUME ~KeepaliveOn, IInv, SyncInv, [Next]_vars
  PROVE  SyncInv'
<1>1. CASE ApplicationCall
  <2>1. CASE ConnectFails \/ ConnectOpens \/ Disconnect
    BY <2>1, ConnectingInSync
  <2>2. CASE \E f \in CollectFns, ending \in BOOLEAN : CollectStart(f, ending)
    BY <2>2, StartInSync
  <2> QED BY <1>1, <2>1, <2>2, CallingInSync DEF ApplicationCall
<1>2. CASE CallStep
  BY <1>2, ConnectingInSync, RepliesInSync, CollectingInSync DEF CallStep
<1>3. CASE Terminate \/ UNCHANGED vars
  <2>1. UNCHANGED <<streaming, fn, pc, clean, sock, peer, c2s, s2c>>
    BY <1>3 DEF Terminate, call, net, vars
  <2> QED BY <2>1 DEF SyncInv, InStep
<1>4. CASE ServerStep
  BY <1>4, ServingInSync
<1> QED BY <1>1, <1>2, <1>3, <1>4 DEF Next

-----------------------------------------------------------------------------
(* SyncInv holds of every state of a connection without keepalives.        *)
THEOREM InSync ==
  ASSUME ~KeepaliveOn
  PROVE  Spec => []SyncInv
<1>1. Init => IInv /\ SyncInv
  BY InitInv DEF Init, SyncInv
<1>2. IInv /\ SyncInv /\ [Next]_vars => IInv' /\ SyncInv'
  BY NextInv, NextInSync
<1> QED BY <1>1, <1>2, PTL DEF Spec

(* Between calls in query mode no reply is owed or unread, as long as no   *)
(* exchange failed half-way: what every request of connection.c relies on  *)
(* when it takes the next header for its own reply.                        *)
THEOREM RepliesInStep ==
  ASSUME ~KeepaliveOn
  PROVE  Spec => []ReplyInSync
<1>1. SyncInv => ReplyInSync
  <2>1. SUFFICES ASSUME SyncInv, clean, pc = "idle", streaming = 0
                 PROVE  s2c = <<>> /\ \A i \in 1..Len(c2s) : c2s[i] = "WRITE_N"
    BY DEF ReplyInSync
  <2>2. QuerySync(fn, "idle", c2s, s2c)
    BY <2>1, Zenon DEF SyncInv, InStep, Synced
  <2> QED BY <2>2 DEF QuerySync, Bodied
<1> QED BY <1>1, InSync, PTL

(* A call finds the kind of header it asked for, never another call's;     *)
(* a packet of the application's own is answered by whatever comes next.   *)
THEOREM OwnReplies ==
  ASSUME ~KeepaliveOn
  PROVE  Spec => [](fn = "rawid" \/ OwnReply)
<1>1. IInv /\ SyncInv => fn = "rawid" \/ OwnReply
  <2>1. SUFFICES ASSUME IInv, SyncInv, clean \/ fn = "connect", fn # "rawid",
                        pc \in {"reply", "recv"}, s2c # <<>>
                 PROVE  Head(s2c).k \in Expected(fn)
    BY DEF OwnReply
  <2>2. Synced(streaming, fn, pc, c2s, s2c, peer)
    BY <2>1, Zenon DEF SyncInv, InStep
  <2>3. Head(s2c) = s2c[1] /\ 1 \in 1..Len(s2c) /\ pc \notin Bodied
    BY <2>1, InvParts, TailUnits DEF NetInv, NetType, Bodied
  <2>4. CASE streaming = 0
    <3>1. QuerySync(fn, pc, c2s, s2c)
      BY <2>2, <2>4, Zenon DEF Synced
    <3> QED BY <2>1, <2>3, <3>1 DEF QuerySync
  <2>5. CASE streaming # 0
    <3>1. StreamUnits(s2c) /\ OwnID(fn, pc, c2s, s2c) /\ Framed(pc, s2c)
      BY <2>2, <2>5, Zenon DEF Synced, StreamSync
    <3>2. pc = "recv" /\ fn \in CollectFns
      BY <2>1, <3>1, InvParts DEF OwnID, CallInv
    <3>3. s2c[1].k \in {"PACKET", "ENDSTREAM", "ID"}
      BY <2>3, <3>1 DEF StreamUnits, Framed
    <3>4. /\ fn \notin ReplyFns \cup {"read", "read_next", "getinfo", "rawid", "connect"}
      BY <3>2 DEF CollectFns, ReplyFns
    <3>5. Expected(fn) = {"PACKET", "ID", "ENDSTREAM"}
      BY <3>2, <3>4 DEF Expected
    <3> QED BY <2>3, <3>3, <3>5
  <2> QED BY <2>4, <2>5
<1> QED BY <1>1, Invariance, InSync, PTL

(* The call in progress is one the application makes.                      *)
CallMade == fn \in Calls \cup {"none", "connect"}

LEMMA CallsMade == Spec => []CallMade
<1>1. Init => CallMade
  BY DEF Init, CallMade
<1>2. CallMade /\ [Next]_vars => CallMade'
  <2>1. SUFFICES ASSUME CallMade, [Next]_vars PROVE CallMade'
    OBVIOUS
  <2>2. CASE ConnectFails \/ ConnectOpens \/ Disconnect
    BY <2>2 DEF ConnectFails, ConnectOpens, Disconnect, Return, Goto, CallMade
  <2>3. CASE \/ Position \/ PositionAfter \/ Match \/ Reject \/ WriteAck \/ WriteNoAck
             \/ Read \/ ReadNext \/ GetInfo \/ RawID
    <3>1. ASSUME NEW f, NEW x, NEW resp, Refused(f) \/ Request(f, x, resp)
          PROVE  CallMade'
      BY <3>1 DEF Refused, Request, MayCall, NoIO, Return, Goto, CallMade
    <3>2. CASE WriteNoAck \/ ReadNext \/ RawID
      BY <3>1, <3>2 DEF WriteNoAck, ReadNext, RawID, MayCall, Return, Goto, CallMade
    <3>3. CASE Position \/ PositionAfter \/ Match \/ Reject \/ WriteAck \/ Read \/ GetInfo
      BY <3>1, <3>3 DEF Position, PositionAfter, Match, Reject, WriteAck, Read, GetInfo
    <3> QED BY <2>3, <3>2, <3>3
  <2>4. ASSUME NEW f \in CollectFns, NEW ending \in BOOLEAN, CollectStart(f, ending)
        PROVE  CallMade'
    <3>1. f \in Calls /\ (fn' = "none" \/ fn' = f)
      BY <2>4, Zenon DEF CollectStart, MayCall, NoIO, SwitchMode, Goto, Return
    <3> QED BY <2>1, <3>1 DEF CallMade
  <2>5. CASE CallStep
    <3>1. fn' \in {fn, "none", "connect"}
      <4>1. ASSUME NEW h, HandleReply(h)
            PROVE  fn' \in {fn, "none"}
        BY <4>1, Zenon DEF HandleReply, Return
      <4>2. ASSUME NEW t, NoPacketYet(t)
            PROVE  fn' \in {fn, "none"}
        BY <4>2, Zenon DEF NoPacketYet, Goto, Return
      <4>3. CASE ExchangeRefused \/ ExchangeSend \/ ExchangeReply \/ ExchangeFails
        BY <4>3 DEF ExchangeRefused, ExchangeSend, ExchangeReply, ExchangeFails, Goto, Return
      <4>4. CASE ReplyHeader \/ ReplyMessage \/ ReadDiscard \/ DataBody \/ RawIDReply \/ ReceiveFails
        BY <4>1, <4>4 DEF ReplyHeader, ReplyMessage, ReadDiscard, DataBody, RawIDReply,
                          ReceiveFails, Return
      <4>5. CASE ReadHeader \/ InfoHeader
        BY <4>1, <4>5, Zenon DEF ReadHeader, InfoHeader, Goto, Return
      <4>6. CASE CollectTerminated \/ SendKeepalive \/ Poll \/ NothingAvailable \/ SelectInterrupted
        BY <4>2, <4>6 DEF CollectTerminated, SendKeepalive, Poll, NothingAvailable,
                          SelectInterrupted, NoIO, Goto, Return
      <4>7. CASE CollectHeader
        BY <4>2, <4>7, Zenon DEF CollectHeader, Goto, Return
      <4> QED BY <2>5, <4>3, <4>4, <4>5, <4>6, <4>7 DEF CallStep
    <3> QED BY <2>1, <3>1 DEF CallMade
  <2>6. CASE Terminate \/ ServerStep \/ UNCHANGED vars
    <3>1. UNCHANGED fn
      BY <2>6 DEF Terminate, ServerStep, ServerCommand, ServerReplies, ServerStores,
         ServerStartsStream, ServerEndsStream, ServerStreams, ServerCloses, call, vars
    <3> QED BY <2>1, <3>1 DEF CallMade
  <2> QED BY <2>1, <2>2, <2>3, <2>4, <2>5, <2>6 DEF Next, ApplicationCall
<1> QED BY <1>1, <1>2, PTL DEF Spec

(* A call finds the kind of header it asked for in an application that     *)
(* leaves the exchange of packets to libdali.                              *)
THEOREM OwnRepliesAlways ==
  ASSUME ~KeepaliveOn, "rawid" \notin Calls
  PROVE  Spec => []OwnReply
<1>1. (fn = "rawid" \/ OwnReply) /\ CallMade => OwnReply
  BY DEF CallMade
<1> QED BY <1>1, OwnReplies, CallsMade, PTL

(* dl_collect() returns DLENDED when the client terminates, when the       *)
(* server has shut down and all it sent was read, or when the server's     *)
(* ENDSTREAM was read: then it is in query mode, and none of the stream's  *)
(* packets is unread.  Keepalives or not, and after any failed call.       *)
THEOREM EndReported == Spec => EndedMeansOver
<1> DEFINE Told == \/ terminate = 1
                   \/ peer = "fin" /\ s2c = <<>>
                   \/ streaming' = 0 /\ smode' = "query" /\ Quiet(s2c')
           Over == pc = "recv" /\ pc' = "idle" /\ ret' = DLENDED => Told
<1>1. IInv /\ IInv' /\ [Next]_vars => [Over]_vars
  <2>1. SUFFICES ASSUME IInv, IInv', Next, pc = "recv", pc' = "idle", ret' = DLENDED
                 PROVE  Told
    BY DEF Over
  <2>2. ~(ApplicationCall \/ Terminate \/ ServerStep)
    <3>1. ~Terminate /\ ~ServerStep
      BY <2>1 DEF Terminate, ServerStep, ServerCommand, ServerReplies, ServerStores,
         ServerStartsStream, ServerEndsStream, ServerStreams, ServerCloses, call
    <3>2. ~ApplicationCall
      BY <2>1 DEF ApplicationCall, ConnectFails, ConnectOpens, Disconnect, Position,
         PositionAfter, Match, Reject, WriteAck, WriteNoAck, Read, ReadNext, GetInfo, RawID,
         Refused, Request, CollectStart, MayCall
    <3> QED BY <3>1, <3>2
  <2>3. ReceiveFails \/ CollectHeader \/ NothingAvailable \/ SelectInterrupted
    <3>1. CallStep
      BY <2>1, <2>2 DEF Next
    <3> QED BY <2>1, <3>1 DEF CallStep, ExchangeRefused, ExchangeSend, ExchangeReply,
         ExchangeFails, ReplyHeader, ReplyMessage, ReadHeader, ReadDiscard, InfoHeader, DataBody,
         RawIDReply, CollectTerminated, SendKeepalive, Poll
  <2>4. ASSUME NEW t, NoPacketYet(t)
        PROVE  terminate = 1
    <3>1. ~Goto(fn, "loop")
      BY <2>1 DEF Goto
    <3>2. Return(IF terminate = 1 THEN DLENDED ELSE DLNOPACKET)
      BY <2>4, <3>1, Zenon DEF NoPacketYet
    <3>3. ret' = IF terminate = 1 THEN DLENDED ELSE DLNOPACKET
      BY <3>2, Zenon DEF Return
    <3>4. DLENDED # DLNOPACKET
      BY DEF DLENDED, DLNOPACKET
    <3> QED BY <2>1, <3>3, <3>4
  <2>5. DLENDED # -1 /\ DLENDED # DLERROR /\ DLENDED # DLPACKET
    BY DEF DLENDED, DLERROR, DLPACKET
  <2>6. CASE ReceiveFails
    BY <2>1, <2>5, <2>6 DEF ReceiveFails, PeerShutdown, Return
  <2>7. CASE CollectHeader
    <3>1. \/ Goto(fn, "data")
          \/ Return(DLPACKET) \/ Return(DLERROR)
          \/ NoPacketYet(-1)
          \/ streaming' = 0
      BY <2>7, Zenon DEF CollectHeader
    <3>2. CASE streaming' = 0
      <4>1. sock = "open" /\ sock' = sock
        BY <2>1, <2>7 DEF IInv, CallInv, CollectHeader, HeaderArrived
      <4>2. Connected'
        BY <2>1, <4>1 DEF Connected
      <4>3. Settled'
        BY <2>1, <4>2 DEF IInv, WireInv
      <4>4. Quiet(s2c')
        BY <3>2, <4>3 DEF Settled, UnitInv
      <4>5. peer' \in {"up", "fin"}
        BY <2>1 DEF IInv, TypeOK
      <4>6. smode' = "query"
        BY <2>1, <3>2, <4>3, <4>5 DEF IInv, SocketInv, Settled, CommandInv
      <4> QED BY <3>2, <4>4, <4>6
    <3> QED BY <2>1, <2>4, <2>5, <3>1, <3>2 DEF Goto, Return
  <2>8. CASE NothingAvailable
    BY <2>4, <2>8 DEF NothingAvailable
  <2>9. CASE SelectInterrupted
    BY <2>1, <2>5, <2>9 DEF SelectInterrupted, Return
  <2> QED BY <2>3, <2>6, <2>7, <2>8, <2>9
<1> QED BY <1>1, Invariance, PTL DEF Spec, EndedMeansOver

-----------------------------------------------------------------------------
(* The console.  A step of it is a step of DaliConn or none, so that the   *)
(* invariants of the connection hold; ConsoleInv adds where the console    *)
(* may stand while a call is in progress, and while the connection is      *)
(* streaming.                                                              *)

(* A call runs only where the console waits for one; the STREAM command    *)
(* waits for dl_collect_nb().                                              *)
Placed ==
  pc # "idle" => /\ cpc \in {"starting", "reconnecting", "running", "collecting"}
                 /\ cpc = "collecting" => fn = "collect_nb"

(* dl_collect_nb() reads no message of a reply, and discards nothing.      *)
Apart == pc \in {"message", "discard"} => fn # "collect_nb"

(* The descriptor of an open socket is in the DLCP.                        *)
Linked == (sock = "open" => link # NoLink) /\ (clean => sock = "open")

(* The console writes nothing.                                             *)
Unwritten == ~Has(c2s, "WRITE_N")

(* A connection in step, and no signal received: it is streaming only in   *)
(* the loop of STREAM, and a dl_collect_nb() that is back has a packet or  *)
(* none yet, so that the loop goes on.                                     *)
GoesOn == cpc = "collecting" /\ (pc # "idle" \/ ret \in {DLPACKET, DLNOPACKET})
Looping ==
  clean /\ terminate = 0 /\ streaming # 0 => cpc \in {"collect", "select"} \/ GoesOn

ConsoleInv == ConsoleTypeOK /\ Placed /\ Apart /\ Linked /\ Unwritten /\ Looping
-----------------------------------------------------------------------------
(* A step of the console is a step of DaliConn, or changes nothing of it.  *)
LEMMA StepsOfConnection ==
  ASSUME [ConsoleNext]_cvars
  PROVE  [Next]_vars
<1>1. CASE \/ Startup \/ DropLink \/ Reconnect \/ ConnectClose \/ ConnectAnew
           \/ Exit \/ EndOfInput
  BY <1>1 DEF Startup, DropLink, Reconnect, ConnectClose, ConnectAnew, Exit, EndOfInput, Local,
              Next, ApplicationCall
<1>2. CASE DoID \/ DoPset \/ DoPafter \/ DoMatch \/ DoReject \/ DoInfo \/ DoRead
  BY <1>2 DEF DoID, DoPset, DoPafter, DoMatch, DoReject, DoInfo, DoRead, Next, ApplicationCall
<1>3. CASE StreamCollect
  <2>1. CollectStart("collect_nb", endflag = 1) /\ "collect_nb" \in CollectFns
    BY <1>3 DEF StreamCollect, CollectFns
  <2>2. PICK b \in BOOLEAN : b = (endflag = 1)
    OBVIOUS
  <2>3. CollectStart("collect_nb", b)
    BY <2>1, <2>2, Zenon
  <2> QED BY <2>1, <2>2, <2>3 DEF Next, ApplicationCall
<1>4. CASE \/ Started \/ Prompt \/ LinkUp \/ NoneLeft \/ Reconnected \/ HelpOrUsage \/ Finished
           \/ StreamStart \/ StreamResult \/ SelectNothing \/ SelectEnter \/ SelectSignal
  BY <1>4 DEF Started, Prompt, LinkUp, NoneLeft, Reconnected, HelpOrUsage, Without, Finished,
     StreamStart, StreamResult, SelectNothing, SelectEnter, SelectSignal, Local
<1>5. CASE CallStep \/ Terminate \/ ServerStep \/ UNCHANGED cvars
  BY <1>5 DEF Next, cvars
<1> QED BY <1>1, <1>2, <1>3, <1>4, <1>5 DEF ConsoleNext, CommandStep, StreamStep

(* Every invariant of DaliConn that is inductive holds under the console.  *)
THEOREM ConnectionUnderConsole == ConsoleSpec => []IInv
<1>1. ConsoleInit => IInv
  BY InitInv DEF ConsoleInit
<1>2. IInv /\ [ConsoleNext]_cvars => IInv'
  BY StepsOfConnection, NextInv
<1> QED BY <1>1, <1>2, PTL DEF ConsoleSpec
-----------------------------------------------------------------------------
(* What the steps of the connection do to the variables of ConsoleInv.     *)
NoneWritten == Has(c2s', "WRITE_N") => Has(c2s, "WRITE_N")
Kept        == UNCHANGED <<link, terminate, sock>> /\ (clean' => clean) /\ NoneWritten

LEMMA HasAppended ==
  ASSUME NEW q \in Seq(Commands), NEW x \in Commands \ {"WRITE_N"}, Has(Append(q, x), "WRITE_N")
  PROVE  Has(q, "WRITE_N")
<1>1. /\ Len(q) \in Nat /\ Len(Append(q, x)) = Len(q) + 1
      /\ \A i \in 1..Len(q) : Append(q, x)[i] = q[i]
      /\ Append(q, x)[Len(q) + 1] = x
  BY AppendProperties, LenProperties
<1>2. PICK i \in 1..(Len(q) + 1) : Append(q, x)[i] = "WRITE_N"
  BY <1>1, Zenon DEF Has
<1>3. i \in 1..Len(q)
  BY <1>1, <1>2
<1> QED BY <1>1, <1>2, <1>3 DEF Has

LEMMA HasTail ==
  ASSUME NEW q \in Seq(Commands), q # <<>>, Has(Tail(q), "WRITE_N")
  PROVE  Has(q, "WRITE_N")
<1>1. /\ Len(q) \in Nat \ {0} /\ Len(Tail(q)) = Len(q) - 1
      /\ \A i \in 1..Len(Tail(q)) : Tail(q)[i] = q[i + 1]
  BY HeadTailProperties, EmptySeq
<1>2. PICK i \in 1..Len(Tail(q)) : Tail(q)[i] = "WRITE_N"
  BY DEF Has
<1> QED BY <1>1, <1>2 DEF Has

LEMMA HasNone == ~Has(<<>>, "WRITE_N")
  BY EmptySeq DEF Has

(* Sending anything but a WRITE, and failing to send.                      *)
LEMMA Sends ==
  ASSUME NetType
  PROVE  /\ \A x \in Commands \ {"WRITE_N"} : Send(x) => UNCHANGED sock /\ NoneWritten
         /\ \A resp \in BOOLEAN : SendFails(resp) => UNCHANGED sock /\ NoneWritten
<1>1. ASSUME NEW x \in Commands \ {"WRITE_N"}, c2s' = c2s \/ c2s' = Append(c2s, x)
      PROVE  NoneWritten
  BY <1>1, HasAppended DEF NoneWritten, NetType
<1>2. "TORN" \in Commands \ {"WRITE_N"}
  BY DEF Commands
<1> QED BY <1>1, <1>2 DEF Send, SendFails

(* The calls that begin, but for WRITE: nothing of the mode changes.       *)
LEMMA Begins ==
  ASSUME IInv,
         \/ Position \/ PositionAfter \/ Match \/ Reject \/ Read \/ ReadNext
         \/ GetInfo \/ RawID
  PROVE  Kept /\ UNCHANGED streaming /\ pc = "idle"
<1>1. NetType
  BY InvParts DEF NetInv
<1>2. {"QUERY", "READ", "INFO", "ID"} \subseteq Commands \ {"WRITE_N"}
  BY DEF Commands
<1>3. ASSUME NEW f, Refused(f)
      PROVE  Kept /\ UNCHANGED streaming /\ pc = "idle"
  BY <1>3 DEF Refused, MayCall, NoIO, dlcp, net, Kept, NoneWritten
<1>4. ASSUME NEW f, NEW x \in {"QUERY", "READ", "INFO"}, NEW resp \in BOOLEAN, Request(f, x, resp)
      PROVE  Kept /\ UNCHANGED streaming /\ pc = "idle"
  BY <1>1, <1>2, <1>4, Sends DEF Request, MayCall, dlcp, Kept
<1>5. CASE Position \/ PositionAfter \/ Match \/ Reject \/ Read \/ GetInfo
  BY <1>3, <1>4, <1>5 DEF Position, PositionAfter, Match, Reject, Read, GetInfo
<1>6. CASE ReadNext
  BY <1>3, <1>6 DEF ReadNext, MayCall, dlcp, net, Kept, NoneWritten
<1>7. CASE RawID
  <2>1. /\ pc = "idle" /\ UNCHANGED dlcp
        /\ (Send("ID") /\ UNCHANGED clean) \/ (SendFails(TRUE) /\ clean' = FALSE)
    BY <1>7, Zenon DEF RawID, MayCall
  <2>2. UNCHANGED sock /\ NoneWritten
    BY <1>1, <1>2, <2>1, Sends
  <2>3. clean' => clean
    BY <2>1
  <2> QED BY <2>1, <2>2, <2>3 DEF dlcp, Kept
<1> QED BY <1>5, <1>6, <1>7

(* dl_collect_nb() begins.                                                 *)
LEMMA CollectBegins ==
  ASSUME IInv, NEW b \in BOOLEAN, CollectStart("collect_nb", b)
  PROVE  /\ Kept /\ pc = "idle"
         /\ \/ pc' = "loop" /\ fn' = "collect_nb"
            \/ pc' = "idle" /\ UNCHANGED streaming /\ (~clean' \/ link = NoLink \/ sock # "open")
<1>1. NetType
  BY InvParts DEF NetInv
<1>2. {"STREAM", "ENDSTREAM"} \subseteq Commands \ {"WRITE_N"}
  BY DEF Commands
<1>3. ASSUME NEW x \in {"STREAM", "ENDSTREAM"}, NEW m, SwitchMode("collect_nb", x, m)
      PROVE  /\ Kept
             /\ \/ pc' = "loop" /\ fn' = "collect_nb"
                \/ pc' = "idle" /\ UNCHANGED streaming /\ ~clean'
  <2>1. CASE /\ Send(x) /\ Goto("collect_nb", "loop") /\ UNCHANGED <<link, terminate, clean>>
    BY <1>1, <1>2, <2>1, Sends DEF Goto, Kept
  <2>2. CASE SendFails(FALSE) /\ Return(DLERROR) /\ clean' = FALSE /\ UNCHANGED dlcp
    BY <1>1, <2>2, Sends DEF Return, dlcp, Kept
  <2> QED BY <1>3, <2>1, <2>2, Zenon DEF SwitchMode
<1>4. pc = "idle"
  BY DEF CollectStart, MayCall
<1>5. CASE \E v : NoIO(v) /\ (link = NoLink \/ sock # "open")
  BY <1>4, <1>5 DEF NoIO, Return, dlcp, net, Kept, NoneWritten
<1>6. CASE Goto("collect_nb", "loop") /\ UNCHANGED <<dlcp, clean, net>>
  BY <1>4, <1>6 DEF Goto, dlcp, net, Kept, NoneWritten
<1> QED BY <1>3, <1>4, <1>5, <1>6, Zenon DEF CollectStart
(* A call goes on, is interrupted by a signal, or the server acts.         *)
LEMMA GoesOnKeeping ==
  ASSUME IInv, CallStep
  PROVE  /\ pc # "idle" /\ UNCHANGED <<link, terminate>> /\ NoneWritten
         /\ streaming' \in {streaming, 0}
         /\ \/ UNCHANGED sock /\ (clean' => clean)
            \/ UNCHANGED sock /\ sock = "open" /\ streaming = 0
            \/ sock' = "closed" /\ ~clean'
         /\ fn' = fn \/ pc' = "idle"
<1>1. NetType /\ CallInv
  BY InvParts DEF NetInv
<1>2. "ID" \in Commands \ {"WRITE_N"}
  BY DEF Commands
<1>3. ASSUME NEW v, Return(v)
      PROVE  pc' = "idle"
  BY <1>3 DEF Return
<1>4. ASSUME NEW h, HandleReply(h)
      PROVE  (fn' = fn \/ pc' = "idle") /\ (clean' => clean)
  BY <1>4 DEF HandleReply, Return
<1>5. ASSUME HeaderArrived \/ BodyArrived \/ NoSync \/ RecvTimesOut \/ UNCHANGED net
      PROVE  UNCHANGED sock /\ NoneWritten
  BY <1>5 DEF HeaderArrived, BodyArrived, NoSync, RecvTimesOut, net, NoneWritten
<1>6. ASSUME NEW t, NoPacketYet(t)
      PROVE  UNCHANGED <<link, terminate, clean>> /\ (fn' = fn \/ pc' = "idle")
  BY <1>6 DEF NoPacketYet, Goto, Return
<1>7. CASE ExchangeRefused \/ ExchangeFails
  BY <1>7, HasNone DEF ExchangeRefused, ExchangeFails, CloseSocket, Return, dlcp, NoneWritten
<1>8. CASE ExchangeSend
  <2>1. UNCHANGED sock /\ NoneWritten
    BY <1>1, <1>2, <1>8, Sends DEF ExchangeSend
  <2>2. fn = "connect"
    BY <1>1, <1>8 DEF CallInv, ExchangeSend
  <2> QED BY <1>8, <2>1, <2>2 DEF ExchangeSend, Goto, dlcp
<1>9. CASE ExchangeReply
  <2>1. sock = "open" /\ streaming = 0
    BY <1>1, <1>9 DEF CallInv, ExchangeReply
  <2> QED BY <1>5, <1>9, <2>1 DEF ExchangeReply, Return, dlcp
<1>10. CASE ReplyHeader \/ ReplyMessage \/ ReadDiscard \/ DataBody \/ RawIDReply
  <2>1. /\ HeaderArrived \/ BodyArrived
        /\ (\E v : Return(v)) \/ (\E h : HandleReply(h))
    BY <1>10, Zenon DEF ReplyHeader, ReplyMessage, ReadDiscard, DataBody, RawIDReply
  <2>3. (clean' => clean) \/ (\E h : HandleReply(h))
    <3>1. CASE RawIDReply
      BY <3>1 DEF RawIDReply
    <3>2. CASE ReplyHeader
      BY <3>2 DEF ReplyHeader
    <3> QED BY <1>10, <3>1, <3>2 DEF ReplyMessage, ReadDiscard, DataBody
  <2>2. pc # "idle" /\ UNCHANGED dlcp
    BY <1>10 DEF ReplyHeader, ReplyMessage, ReadDiscard, DataBody, RawIDReply
  <2> QED BY <1>3, <1>4, <1>5, <2>1, <2>2, <2>3 DEF dlcp
<1>11. CASE ReadHeader \/ InfoHeader
  <2>1. \/ \E l : Goto(fn, l) /\ UNCHANGED clean
        \/ \E v : Return(v) /\ (UNCHANGED clean \/ clean' = FALSE)
        \/ \E h : HandleReply(h)
    BY <1>11, Zenon DEF ReadHeader, InfoHeader
  <2>2. (fn' = fn \/ pc' = "idle") /\ (clean' => clean)
    BY <1>3, <1>4, <2>1 DEF Goto
  <2> QED BY <1>5, <1>11, <2>2 DEF ReadHeader, InfoHeader, dlcp
<1>12. CASE ReceiveFails
  BY <1>3, <1>5, <1>12 DEF ReceiveFails, PeerShutdown, dlcp
<1>13. CASE CollectTerminated \/ Poll
  BY <1>3, <1>5, <1>13 DEF CollectTerminated, Poll, NoIO, Goto, dlcp
<1>14. CASE SendKeepalive
  <2>1. \/ Send("ID") /\ Goto(fn, "recv") /\ UNCHANGED <<link, streaming, terminate, clean>>
        \/ SendFails(FALSE) /\ Return(DLERROR) /\ clean' = FALSE /\ UNCHANGED dlcp
    BY <1>14, Zenon DEF SendKeepalive
  <2>2. UNCHANGED sock /\ NoneWritten
    BY <1>1, <1>2, <2>1, Sends
  <2>3. pc # "idle"
    BY <1>14 DEF SendKeepalive
  <2>4. CASE Send("ID") /\ Goto(fn, "recv") /\ UNCHANGED <<link, streaming, terminate, clean>>
    BY <2>2, <2>3, <2>4 DEF Goto
  <2>5. CASE SendFails(FALSE) /\ Return(DLERROR) /\ clean' = FALSE /\ UNCHANGED dlcp
    BY <1>3, <2>2, <2>3, <2>5 DEF dlcp
  <2> QED BY <2>1, <2>4, <2>5
<1>15. CASE CollectHeader
  <2>1. \/ Goto(fn, "data") /\ UNCHANGED <<link, streaming, terminate, clean>>
        \/ Return(DLPACKET) /\ UNCHANGED <<link, streaming, terminate, clean>>
        \/ NoPacketYet(-1) /\ UNCHANGED streaming
        \/ Return(DLENDED) /\ streaming' = 0 /\ UNCHANGED <<link, terminate, clean>>
        \/ Return(DLERROR) /\ clean' = FALSE /\ UNCHANGED <<link, streaming, terminate>>
    BY <1>15, Zenon DEF CollectHeader
  <2> QED BY <1>3, <1>5, <1>6, <1>15, <2>1 DEF CollectHeader, Goto
<1>16. CASE NothingAvailable
  BY <1>5, <1>6, <1>16 DEF NothingAvailable
<1>17. CASE SelectInterrupted
  BY <1>3, <1>17 DEF SelectInterrupted, dlcp, NoneWritten
<1> QED BY <1>7, <1>8, <1>9, <1>10, <1>11, <1>12, <1>13, <1>14, <1>15, <1>16, <1>17 DEF CallStep

LEMMA Outside ==
  ASSUME IInv, Terminate \/ ServerStep
  PROVE  /\ UNCHANGED <<link, streaming, fn, pc, ret, clean, sock>> /\ NoneWritten
         /\ terminate' = terminate \/ terminate' = 1
<1>1. NetType
  BY InvParts DEF NetInv
<1>2. c2s' \in {c2s, <<>>} \/ (c2s # <<>> /\ c2s' = Tail(c2s))
  BY DEF Terminate, ServerStep, ServerCommand, ServerReplies, ServerStores, ServerStartsStream,
     ServerEndsStream, ServerStreams, ServerCloses, net
<1>3. NoneWritten
  BY <1>1, <1>2, HasTail, HasNone DEF NoneWritten, NetType
<1> QED BY <1>3 DEF Terminate, ServerStep, ServerCommand, ServerReplies, ServerStores,
     ServerStartsStream, ServerEndsStream, ServerStreams, ServerCloses, net, dlcp, call

LEMMA StaysApart ==
  ASSUME IInv, CallStep
  PROVE  Apart'
<1>1. SUFFICES ASSUME pc' \in {"message", "discard"} PROVE fn' # "collect_nb"
  BY DEF Apart
<1>2. ASSUME NEW v
      PROVE  ~Return(v) /\ ~NoIO(v)
  BY <1>1 DEF NoIO, Return
<1>3. ASSUME NEW f, NEW l \in {"data", "loop", "recv", "reply"}
      PROVE  ~Goto(f, l)
  BY <1>1 DEF Goto
<1>4. ASSUME NEW t
      PROVE  ~NoPacketYet(t)
  BY <1>2, <1>3, Zenon DEF NoPacketYet
<1>5. ReplyHeader \/ ReadHeader \/ InfoHeader
  <2>1. ~(ExchangeRefused \/ ExchangeSend \/ ExchangeReply \/ ExchangeFails)
    BY <1>2, <1>3 DEF ExchangeRefused, ExchangeSend, ExchangeReply, ExchangeFails
  <2>2. ~(ReplyMessage \/ ReadDiscard \/ DataBody \/ RawIDReply \/ ReceiveFails)
    BY <1>2 DEF ReplyMessage, ReadDiscard, DataBody, RawIDReply, ReceiveFails
  <2>3. ~(CollectTerminated \/ SendKeepalive \/ Poll \/ NothingAvailable \/ SelectInterrupted)
    BY <1>2, <1>3, <1>4 DEF CollectTerminated, SendKeepalive, Poll, NothingAvailable, SelectInterrupted
  <2>4. ~CollectHeader
    BY <1>2, <1>3, <1>4, Zenon DEF CollectHeader
  <2> QED BY <2>1, <2>2, <2>3, <2>4 DEF CallStep
<1>6. fn \in ReplyFns \cup {"read", "read_next", "getinfo"}
  BY <1>5 DEF ReplyHeader, ReadHeader, InfoHeader
<1>7. UNCHANGED fn
  <2>1. \/ \E h : HandleReply(h)
        \/ \E l : Goto(fn, l)
    <3>1. CASE ReplyHeader
      BY <3>1 DEF ReplyHeader
    <3>2. CASE ReadHeader
      BY <1>2, <3>2, Zenon DEF ReadHeader
    <3>3. CASE InfoHeader
      BY <1>2, <3>3, Zenon DEF InfoHeader
    <3> QED BY <1>5, <3>1, <3>2, <3>3
  <2> QED BY <1>2, <2>1, Zenon DEF HandleReply, Goto
<1> QED BY <1>6, <1>7 DEF ReplyFns

(* A dl_collect_nb() that comes back from a stream in step has a packet,   *)
(* none yet, the end of the stream, or has been told to terminate.         *)
LEMMA CollectReturns ==
  ASSUME IInv, CallStep, Apart, fn = "collect_nb", pc' = "idle", clean', terminate' = 0
  PROVE  streaming' = 0 \/ ret' \in {DLPACKET, DLNOPACKET}
<1>1. CallInv
  BY InvParts
<1>2. ~(ExchangeRefused \/ ExchangeSend \/ ExchangeReply \/ ExchangeFails)
  BY <1>1 DEF ExchangeRefused, ExchangeSend, ExchangeReply, ExchangeFails, CallInv
<1>3. ~(ReplyHeader \/ ReadHeader \/ InfoHeader \/ RawIDReply \/ CollectTerminated \/ SelectInterrupted)
  BY DEF ReplyHeader, ReadHeader, InfoHeader, RawIDReply, CollectTerminated, SelectInterrupted, ReplyFns
<1>4. ~(ReceiveFails \/ Poll \/ SendKeepalive)
  BY DEF ReceiveFails, Poll, SendKeepalive, Goto
<1>5. ASSUME NEW t, NoPacketYet(t)
      PROVE  ret' = DLNOPACKET
  <2>1. fn # "collect" /\ terminate # 1
    BY <1>5 DEF NoPacketYet
  <2> QED BY <1>5, <2>1, Zenon DEF NoPacketYet, Return
<1>6. ASSUME NEW l, Goto(fn, l), l \in {"data", "loop"}
      PROVE  FALSE
  BY <1>6 DEF Goto
<1>7. CASE CollectHeader
  <2>1. \/ Goto(fn, "data")
        \/ Return(DLPACKET)
        \/ NoPacketYet(-1)
        \/ streaming' = 0
        \/ clean' = FALSE
    BY <1>7, Zenon DEF CollectHeader
  <2> QED BY <1>5, <1>6, <2>1 DEF Return
<1>8. CASE ReplyMessage \/ ReadDiscard \/ DataBody
  BY <1>8 DEF ReplyMessage, ReadDiscard, DataBody, Apart, Return
<1>9. CASE NothingAvailable
  BY <1>5, <1>9 DEF NothingAvailable
<1> QED BY <1>2, <1>3, <1>4, <1>7, <1>8, <1>9 DEF CallStep
-----------------------------------------------------------------------------
(* A step of the console alone.                                            *)
LEMMA LocalKeeps ==
  ASSUME ConsoleInv,
         \/ Started \/ Prompt \/ LinkUp \/ NoneLeft \/ Reconnected \/ HelpOrUsage \/ Finished
         \/ StreamStart \/ StreamResult \/ SelectNothing \/ SelectEnter \/ SelectSignal
  PROVE  UNCHANGED vars /\ ConsoleInv'
<1> USE DEF ConsoleInv
<1>1. UNCHANGED vars
  BY DEF Started, Prompt, LinkUp, NoneLeft, Reconnected, HelpOrUsage, Without, Finished,
     StreamStart, StreamResult, SelectNothing, SelectEnter, SelectSignal, Local
<1>2. UNCHANGED <<link, streaming, terminate, fn, pc, ret, clean, sock, c2s>>
  BY <1>1 DEF vars
<1>3. pc = "idle"
  BY DEF Started, Prompt, LinkUp, NoneLeft, Reconnected, HelpOrUsage, Without, Finished,
     StreamStart, StreamResult, SelectNothing, SelectEnter, SelectSignal, At, Placed
<1>4. Placed' /\ Apart' /\ Linked' /\ Unwritten'
  BY <1>2, <1>3 DEF Placed, Apart, Linked, Unwritten
<1>5. ConsoleTypeOK'
  BY CmdsAssumption DEF ConsoleTypeOK, Started, Prompt, LinkUp, NoneLeft, Reconnected, HelpOrUsage,
     Without, Finished, StreamStart, StreamResult, SelectNothing, SelectEnter, SelectSignal, At
<1>6. Looping'
  <2>1. SUFFICES ASSUME clean, terminate = 0, streaming # 0
                 PROVE  cpc' \in {"collect", "select"} \/ GoesOn'
    BY <1>2 DEF Looping
  <2>2. cpc \in {"collect", "select"} \/ GoesOn
    BY <2>1 DEF Looping
  <2>3. StreamResult \/ SelectNothing \/ SelectEnter
    BY <2>1, <2>2 DEF GoesOn, Started, Prompt, LinkUp, NoneLeft, Reconnected, HelpOrUsage, Without,
       Finished, StreamStart, SelectSignal, At
  <2> QED BY <2>2, <2>3 DEF StreamResult, SelectNothing, SelectEnter, At, GoesOn
<1> QED BY <1>1, <1>4, <1>5, <1>6

(* A step that connects or disconnects.                                    *)
LEMMA LinkingKeeps ==
  ASSUME IInv, ConsoleInv, ConnectFails \/ ConnectOpens \/ Disconnect, ConsoleTypeOK',
         cpc \notin {"collect", "collecting", "select"},
         cpc' \in {"starting", "reconnecting", "running"} \/ Disconnect
  PROVE  ConsoleInv'
<1> USE DEF ConsoleInv
<1>1. CASE ConnectFails
  <2>1. pc' = "idle" /\ UNCHANGED <<link, streaming, clean, sock, c2s>> /\ terminate' \in {terminate, 1}
    BY <1>1 DEF ConnectFails, Return, net
  <2> QED BY <2>1 DEF Placed, Apart, Linked, Unwritten, Looping, GoesOn
<1>2. CASE ConnectOpens
  <2>1. /\ pc' = "exchange" /\ UNCHANGED <<streaming, terminate, clean, c2s>>
        /\ link' = Fd /\ sock' = "open"
    BY <1>2 DEF ConnectOpens, Goto
  <2>2. ~Disconnect
    BY <2>1 DEF Disconnect, NoLink, Fd
  <2> QED BY <2>1, <2>2 DEF Placed, Apart, Linked, Unwritten, Looping, GoesOn, NoLink, Fd
<1>3. CASE Disconnect
  <2>1. pc' = "idle" /\ ~clean' /\ sock' = "closed" /\ c2s' = <<>>
    BY <1>3 DEF Disconnect, CloseSocket, Return
  <2> QED BY <2>1, HasNone DEF Placed, Apart, Linked, Unwritten, Looping
<1> QED BY <1>1, <1>2, <1>3

(* A step that begins a request.                                           *)
LEMMA RequestsKeep ==
  ASSUME IInv, ConsoleInv, DoID \/ DoPset \/ DoPafter \/ DoMatch \/ DoReject \/ DoInfo \/ DoRead
  PROVE  ConsoleInv'
<1> USE DEF ConsoleInv
<1>1. Kept /\ UNCHANGED streaming /\ pc = "idle"
  BY Begins DEF DoID, DoPset, DoPafter, DoMatch, DoReject, DoInfo, DoRead
<1>2. cpc = "dispatch" /\ cpc' = "running" /\ UNCHANGED <<cmd, endflag, tried>>
  BY DEF DoID, DoPset, DoPafter, DoMatch, DoReject, DoInfo, DoRead, Run, At
<1>3. ConsoleTypeOK' /\ Placed' /\ Linked' /\ Unwritten' /\ Looping'
  BY <1>1, <1>2 DEF Kept, NoneWritten, ConsoleTypeOK, Placed, Linked, Unwritten, Looping, GoesOn
<1>4. Apart'
  <2>1. pc' \in {"idle", "reply"}
    BY DEF DoID, DoPset, DoPafter, DoMatch, DoReject, DoInfo, DoRead, RawID, Position, PositionAfter,
       Match, Reject, GetInfo, Read, ReadNext, Refused, Request, NoIO, Goto, Return
  <2> QED BY <2>1 DEF Apart
<1> QED BY <1>3, <1>4

LEMMA CollectKeeps ==
  ASSUME IInv, ConsoleInv, StreamCollect
  PROVE  ConsoleInv'
<1> USE DEF ConsoleInv
<1>1. PICK b \in BOOLEAN : CollectStart("collect_nb", b)
  <2>1. PICK b \in BOOLEAN : b = (endflag = 1)
    OBVIOUS
  <2>2. CollectStart("collect_nb", endflag = 1)
    BY DEF StreamCollect
  <2>3. CollectStart("collect_nb", b)
    BY <2>1, <2>2, Zenon
  <2> QED BY <2>3
<1>2. /\ Kept /\ pc = "idle"
      /\ \/ pc' = "loop" /\ fn' = "collect_nb"
         \/ pc' = "idle" /\ UNCHANGED streaming /\ (~clean' \/ link = NoLink \/ sock # "open")
  BY <1>1, CollectBegins
<1>3. cpc = "collect" /\ cpc' = "collecting" /\ UNCHANGED <<cmd, endflag, tried>>
  BY DEF StreamCollect, At
<1> QED BY <1>2, <1>3 DEF Kept, NoneWritten, ConsoleTypeOK, Placed, Apart, Linked, Unwritten, Looping, GoesOn

(* A call goes on.                                                         *)
LEMMA CallsKeep ==
  ASSUME IInv, ConsoleInv, CallStep, UNCHANGED console
  PROVE  ConsoleInv'
<1> USE DEF ConsoleInv
<1>1. /\ pc # "idle" /\ UNCHANGED <<link, terminate>> /\ NoneWritten
      /\ streaming' \in {streaming, 0}
      /\ \/ UNCHANGED sock /\ (clean' => clean)
         \/ UNCHANGED sock /\ sock = "open" /\ streaming = 0
         \/ sock' = "closed" /\ ~clean'
      /\ fn' = fn \/ pc' = "idle"
  BY GoesOnKeeping
<1>2. UNCHANGED <<cpc, cmd, endflag, tried>>
  BY DEF console
<1>3. ConsoleTypeOK' /\ Placed' /\ Linked' /\ Unwritten'
  BY <1>1, <1>2 DEF ConsoleTypeOK, Placed, Linked, Unwritten, NoneWritten
<1>4. Apart'
  BY StaysApart
<1>5. Looping'
  <2>1. SUFFICES ASSUME clean', terminate = 0, streaming' # 0
                 PROVE  GoesOn'
    BY <1>1 DEF Looping
  <2>2. clean /\ streaming # 0
    BY <1>1, <2>1
  <2>3. GoesOn /\ fn = "collect_nb"
    BY <1>1, <2>1, <2>2 DEF Looping, Placed, GoesOn
  <2>4. pc' = "idle" => ret' \in {DLPACKET, DLNOPACKET}
    BY <1>1, <2>1, <2>3, CollectReturns
  <2> QED BY <1>2, <2>3, <2>4 DEF GoesOn
<1> QED BY <1>3, <1>4, <1>5

LEMMA ConsoleKeeps ==
  ASSUME IInv, ConsoleInv, [ConsoleNext]_cvars
  PROVE  ConsoleInv'
<1>1. CASE \/ Started \/ Prompt \/ LinkUp \/ NoneLeft \/ Reconnected \/ HelpOrUsage \/ Finished
           \/ StreamStart \/ StreamResult \/ SelectNothing \/ SelectEnter \/ SelectSignal
  BY <1>1, LocalKeeps
<1>2. CASE \/ Startup \/ DropLink \/ Reconnect \/ ConnectClose \/ ConnectAnew
           \/ Exit \/ EndOfInput
  <2>1. /\ ConsoleTypeOK' /\ UNCHANGED <<cmd, endflag>>
        /\ cpc \notin {"collect", "collecting", "select"}
    BY <1>2 DEF ConsoleInv, ConsoleTypeOK, Startup, DropLink, Reconnect, ConnectClose, ConnectAnew,
       Exit, EndOfInput, At
  <2>2. CASE Local
    <3>1. UNCHANGED <<link, streaming, terminate, fn, pc, ret, clean, sock, c2s>>
      BY <2>2 DEF Local, vars
    <3>2. pc = "idle"
      BY <1>2 DEF Startup, DropLink, Reconnect, ConnectClose, ConnectAnew, Exit, EndOfInput, At,
         ConnectFails, ConnectOpens, Disconnect
    <3> QED BY <2>1, <3>1, <3>2 DEF ConsoleInv, Placed, Apart, Linked, Unwritten, Looping, GoesOn
  <2>3. CASE ~Local
    <3>1. \/ Disconnect
          \/ (ConnectFails \/ ConnectOpens) /\ cpc' \in {"starting", "reconnecting", "running"}
      BY <1>2, <2>3 DEF Startup, DropLink, Reconnect, ConnectClose, ConnectAnew, Exit, EndOfInput, At
    <3> QED BY <2>1, <3>1, LinkingKeeps
  <2> QED BY <2>2, <2>3
<1>3. CASE DoID \/ DoPset \/ DoPafter \/ DoMatch \/ DoReject \/ DoInfo \/ DoRead
  BY <1>3, RequestsKeep
<1>4. CASE StreamCollect
  BY <1>4, CollectKeeps
<1>5. CASE CallStep /\ UNCHANGED console
  BY <1>5, CallsKeep
<1>6. CASE (Terminate \/ ServerStep) /\ UNCHANGED console
  <2>1. /\ UNCHANGED <<link, streaming, fn, pc, ret, clean, sock>> /\ NoneWritten
        /\ terminate' = terminate \/ terminate' = 1
    BY <1>6, Outside
  <2> QED BY <1>6, <2>1 DEF console, ConsoleInv, ConsoleTypeOK, Placed, Apart, Linked, Unwritten,
             NoneWritten, Looping, GoesOn
<1>7. CASE UNCHANGED cvars
  BY <1>7 DEF cvars, vars, console, ConsoleInv, ConsoleTypeOK, Placed, Apart, Linked, Unwritten,
     Looping, GoesOn
<1> QED BY <1>1, <1>2, <1>3, <1>4, <1>5, <1>6, <1>7 DEF ConsoleNext, CommandStep, StreamStep

(* ConsoleInv, and with it the invariant of the connection, holds of every *)
(* state of the console: a call runs only where the console waits for it,  *)
(* and a connection in step is streaming only in the loop of STREAM.       *)
THEOREM ConsoleInvariance == ConsoleSpec => [](IInv /\ ConsoleInv)
<1>1. ConsoleInit => IInv /\ ConsoleInv
  <2>1. SUFFICES ASSUME ConsoleInit PROVE ConsoleInv
    BY InitInv DEF ConsoleInit
  <2> QED BY <2>1, HasNone DEF ConsoleInit, Init, ConsoleInv, ConsoleTypeOK, Placed, Apart, Linked,
             Unwritten, Looping, AllCmds
<1>2. IInv /\ ConsoleInv /\ [ConsoleNext]_cvars => IInv' /\ ConsoleInv'
  BY StepsOfConnection, NextInv, ConsoleKeeps
<1> QED BY <1>1, <1>2, PTL DEF ConsoleSpec

(* The console stands at one of its places, for all commands and calls.    *)
THEOREM ConsoleTypeCorrect == ConsoleSpec => []ConsoleTypeOK
<1>1. ConsoleInv => ConsoleTypeOK
  BY DEF ConsoleInv
<1> QED BY <1>1, ConsoleInvariance, PTL

(* At the prompt the client is in query mode, and so is a server that is   *)
(* still up, with nothing of a stream unread: keepalives or not.           *)
PromptQuiet ==
  cpc = "prompt" /\ clean /\ terminate = 0 =>
    streaming = 0 /\ Quiet(s2c) /\ (peer = "up" => smode = "query")

THEOREM QuietPrompt == ConsoleSpec => []PromptQuiet
<1>1. IInv /\ ConsoleInv => PromptQuiet
  <2>1. SUFFICES ASSUME IInv, ConsoleInv, cpc = "prompt", clean, terminate = 0
                 PROVE  streaming = 0 /\ Quiet(s2c) /\ (peer = "up" => smode = "query")
    BY DEF PromptQuiet
  <2>2. streaming = 0 /\ Connected
    BY <2>1 DEF ConsoleInv, Looping, GoesOn, Linked, Placed, Connected
  <2>3. Settled
    BY <2>1, <2>2 DEF IInv, WireInv
  <2> QED BY <2>2, <2>3 DEF Settled, UnitInv, CommandInv
<1> QED BY <1>1, ConsoleInvariance, PTL

(* Without keepalives nothing is owed either way: the command typed next   *)
(* reads its own reply.                                                    *)
THEOREM PromptInQueryMode ==
  ASSUME ~KeepaliveOn
  PROVE  ConsoleSpec => []PromptIsQueryMode
<1>1. ConsoleInit => SyncInv
  BY DEF ConsoleInit, Init, SyncInv
<1>2. IInv /\ SyncInv /\ [ConsoleNext]_cvars => SyncInv'
  BY StepsOfConnection, NextInSync
<1>3. IInv /\ ConsoleInv /\ SyncInv => PromptIsQueryMode
  <2>1. SUFFICES ASSUME IInv, ConsoleInv, SyncInv, cpc = "prompt", clean, terminate = 0
                 PROVE  streaming = 0 /\ s2c = <<>> /\ c2s = <<>>
    BY DEF PromptIsQueryMode
  <2>2. streaming = 0 /\ pc = "idle"
    BY <2>1 DEF ConsoleInv, Looping, GoesOn, Placed
  <2>3. QuerySync(fn, "idle", c2s, s2c)
    BY <2>1, <2>2, Zenon DEF SyncInv, InStep, Synced
  <2>4. s2c = <<>> /\ \A i \in 1..Len(c2s) : c2s[i] = "WRITE_N"
    BY <2>3 DEF QuerySync, Bodied
  <2>5. c2s \in Seq(Commands) /\ ~Has(c2s, "WRITE_N")
    BY <2>1, InvParts DEF NetInv, NetType, ConsoleInv, Unwritten
  <2>6. Len(c2s) = 0
    BY <2>4, <2>5 DEF Has
  <2> QED BY <2>2, <2>4, <2>5, <2>6, EmptySeq
<1> QED BY <1>1, <1>2, <1>3, ConsoleInvariance, PTL DEF ConsoleSpec
=============================================================================
