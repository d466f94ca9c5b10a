------------------------------ MODULE Records ------------------------------
(***************************************************************************)
(* The records of libmseed, versions 2 and 3: the samples of an MS3Record  *)
(* packed into records one after another (pack.c), the records found in a  *)
(* buffer and parsed (parseutils.c), and their samples decoded (unpack.c). *)
(*                                                                         *)
(* A frame is FrameSize bytes, 64 in the code; extra headers are           *)
(* HeadLength bytes each.  CRCs and byte order are left out, and so is     *)
(* memory running out.  Samples are numbers in all encodings.              *)
(***************************************************************************)
EXTENDS Blockettes, Encodings

CONSTANT HeadLength

ASSUME HeadAssumption == HeadLength \in Nat

FrameSize == 4 * WordsPerFrame
MinRecLen == 40
MaxRecLen == 131172

\* the smallest of two, and the smallest multiple of the frames
Least2(a, b)  == IF a < b THEN a ELSE b
Frames(bytes) == ((bytes + FrameSize - 1) \div FrameSize) * FrameSize

(* ms_samplesize() of a type, and the bytes of a sample of an encoding.    *)
SampleSize(type) ==
  CASE type \in {"t", "a"} -> 1 [] type \in {"i", "f"} -> 4 [] type = "d" -> 8 [] OTHER -> 0
SampleBytes(encoding) ==
  CASE encoding = "text" -> 1 [] encoding = "int16" -> 2 [] encoding \in {"int32", "float32"} -> 4
    [] encoding = "float64" -> 8 [] OTHER -> 0
Types(encoding) ==
  CASE encoding = "text" -> {"t", "a"} [] encoding \in {"int16", "int32", "steim1", "steim2"} -> {"i"}
    [] encoding = "float32" -> {"f"} [] encoding = "float64" -> {"d"} [] OTHER -> {}
Steims == [steim1 |-> Steim1, steim2 |-> Steim2]
IsSteim(encoding) == encoding \in DOMAIN Steims

-----------------------------------------------------------------------------
(* msr3_pack_header3() and the header that msr3_unpack_mseed3() reads.     *)
ExtraLength(msr) ==
  HeadLength * (Cardinality(DOMAIN msr.heads) + Len(msr.lists.Exception) + Len(msr.lists.Detection)
                + Len(msr.lists.Sequence))

PackHeader3(msr, buflen) ==
  LET length == MinRecLen + msr.sidlen + ExtraLength(msr)
  IN  IF msr.reclen \notin MinRecLen..MaxRecLen \/ buflen < length \/ msr.sidlen > 255 THEN Refuse
      ELSE [error |-> FALSE, headerlen |-> length, start |-> msr.start, flags |-> msr.flags,
            rate |-> IF msr.rate[1] > 0 /\ msr.rate[1] < msr.rate[2] THEN <<-msr.rate[2], msr.rate[1]>>
                     ELSE msr.rate,
            pubversion |-> msr.pubversion, sidlen |-> msr.sidlen, heads |-> msr.heads,
            lists |-> msr.lists, encoding |-> msr.encoding]

Unpack3(raw) ==
  [start |-> raw.start, rate |-> raw.rate, flags |-> raw.flags, pubversion |-> raw.pubversion,
   sidlen |-> raw.sidlen, heads |-> raw.heads, lists |-> raw.lists, encoding |-> raw.encoding,
   reclen |-> raw.len, seed |-> TRUE]

-----------------------------------------------------------------------------
(* msr_pack_data(): as many samples as there is room for.                  *)
PackData(samples, room, type, encoding) ==
  LET bytes == SampleBytes(encoding)
      n     == Least2(Len(samples), room \div bytes)
      code  == IF encoding = "int16" THEN EncodeInt16(samples, n) ELSE EncodeWhole(samples, n)
      Framed(steim) ==
        IF steim.error THEN Refuse
        ELSE [error |-> FALSE, n |-> steim.samples, bytes |-> steim.frames * FrameSize, code |-> steim]
  IN  IF type \notin Types(encoding) THEN Refuse
      ELSE IF IsSteim(encoding)
      THEN IF room < FrameSize THEN Refuse
           ELSE Framed(EncodeSteim(Steims[encoding], samples, 0, room \div FrameSize))
      ELSE IF encoding # "text" /\ room < bytes THEN Refuse
      ELSE [error |-> FALSE, n |-> n, bytes |-> n * bytes, code |-> code]

Period(rate) == (NSTModulus * Hz(rate)[2]) \div Hz(rate)[1]
(* Mutant of StartOf: the start of a record is taken from the end of the   *)
(* one before.                                                             *)
StartOf_LastSample(msr, done) ==
  IF Hz(msr.rate)[1] = 0 \/ done = 0 THEN msr.start ELSE SampleTime(msr.start, done - 1, Period(msr.rate))

StartOf(msr, done) ==
  IF Hz(msr.rate)[1] = 0 THEN msr.start ELSE SampleTime(msr.start, done, Period(msr.rate))

\* the fields of both, as @@ has them
Joined(f, g) == [x \in DOMAIN f \cup DOMAIN g |-> IF x \in DOMAIN f THEN f[x] ELSE g[x]]

\* one record; all have the header of the first, but for the start
Record(msr, header, version, offset, done, p) ==
  LET raw == [version |-> version, dataoffset |-> offset, code |-> p.code, bytes |-> p.bytes,
              encoding |-> IF msr.samples = <<>> THEN "text" ELSE msr.encoding,
              numsamples |-> IF version = 2 THEN p.n % Pow2(16) ELSE p.n,
              datalength |-> p.bytes % Pow2(16), sidlen |-> msr.sidlen,
              len |-> IF version = 2 THEN msr.reclen ELSE offset + (p.bytes % Pow2(16))]
      time == IF version = 2 THEN [fsec |-> StartOf(msr, done) \div Fsec]
              ELSE [start |-> StartOf(msr, done)]
  IN  Joined(raw, Joined(time, header))

(* Records while there are more samples than one can hold, or until all    *)
(* are packed when flushing.  The loop does not end when a text has no     *)
(* room at all.                                                            *)
PackResult(error, endless, recs) == [error |-> error, endless |-> endless, recs |-> recs]

PackSamples(msr, header, version, offset, flush) ==
  LET room   == msr.reclen - offset
      total  == Len(msr.samples)
      most   == IF IsSteim(msr.encoding)
                THEN (room \div FrameSize) * (WordsPerFrame - 1) * Steims[msr.encoding][1].n
                ELSE room \div SampleSize(msr.type)
      packs[done \in 0..(total - 1)] ==
        LET Before(rec, rest) == PackResult(rest.error, rest.endless, <<rec>> \o rest.recs)
            Made(n, rec) == IF n = 0 THEN PackResult(FALSE, TRUE, <<rec>>)
                            ELSE IF done + n >= total THEN PackResult(FALSE, FALSE, <<rec>>)
                            ELSE Before(rec, packs[done + n])
            With(p) == IF p.error THEN PackResult(TRUE, FALSE, <<>>)
                       ELSE Made(p.n, Record(msr, header, version, offset, done, p))
        IN  IF ~(total - done > most \/ flush) THEN PackResult(FALSE, FALSE, <<>>)
            ELSE With(PackData(SubSeq(msr.samples, done + 1, total), room, msr.type, msr.encoding))
  IN  IF SampleSize(msr.type) = 0 THEN PackResult(TRUE, FALSE, <<>>) ELSE packs[0]

NoData == [n |-> 0, bytes |-> 0, code |-> <<>>]

(* msr3_pack_mseed2(): frames start at a multiple of their size.           *)
PackMseed2(msr, flush) ==
  LET Offset(len) == IF IsSteim(msr.encoding) THEN Frames(len) ELSE len
      With(header) ==
        IF header.error THEN PackResult(TRUE, FALSE, <<>>)
        ELSE IF msr.samples = <<>> THEN PackResult(FALSE, FALSE, <<Record(msr, header, 2, 0, 0, NoData)>>)
        ELSE PackSamples(msr, header, 2, Offset(header.headerlen), flush)
  IN  With(PackHeader2(msr))

\* msr3_pack_mseed3()
PackMseed3(msr, flush) ==
  LET With(header) ==
        IF header.error THEN PackResult(TRUE, FALSE, <<>>)
        ELSE IF msr.samples = <<>>
        THEN PackResult(FALSE, FALSE, <<Record(msr, header, 3, header.headerlen, 0, NoData)>>)
        ELSE PackSamples(msr, header, 3, header.headerlen, flush)
  IN  With(PackHeader3(msr, msr.reclen))

Pack(msr, version, flush) == IF version = 2 THEN PackMseed2(msr, flush) ELSE PackMseed3(msr, flush)

-----------------------------------------------------------------------------
Unpack(raw) == IF raw.version = 2 THEN Unpack2(raw) @@ [sidlen |-> raw.sidlen] ELSE Unpack3(raw)

(* msr3_data_bounds(): a length from the samples where theirs is fixed,    *)
(* without the empty frames at the end where they are in frames; of these  *)
(* as many stay as there are whole frames before the data.                 *)
DataSize(raw) ==
  LET size == IF raw.version = 2 THEN raw.len - raw.dataoffset ELSE raw.datalength
      raws == raw.numsamples * SampleBytes(raw.encoding)
      trimmed == Least2(size, raw.bytes + (raw.dataoffset \div FrameSize) * FrameSize)
  IN  IF ~IsSteim(raw.encoding) THEN IF raws < size THEN raws % Pow2(16) ELSE size
      ELSE IF size % FrameSize = 0 THEN trimmed ELSE size

(* ms_decode_data() and msr3_unpack_data(): all of the samples or none.    *)
DecodeData(raw, size) ==
  IF IsSteim(raw.encoding) THEN DecodeSteim(raw.code, raw.numsamples)
  ELSE LET n == Least2(raw.numsamples, size \div SampleBytes(raw.encoding))
       IN  IF raw.encoding = "int16" THEN DecodeInt16(SubSeq(raw.code, 1, n)) ELSE DecodeWhole(raw.code, n)

Decode(raw) ==
  LET size == DataSize(raw)
      out  == DecodeData(raw, size)
  IN  IF raw.numsamples = 0 THEN [error |-> FALSE, samples |-> <<>>]
      ELSE IF raw.dataoffset \notin MinRecLen..(raw.len - 1) \/ size < raw.bytes
              \/ Len(out) # raw.numsamples THEN Refuse
      ELSE [error |-> FALSE, samples |-> out]

(* msr3_repack_mseed3(): another header for the same data.                 *)
Repack3(raw, buflen) ==
  LET size == DataSize(raw)
      Rest(header) ==
        IF header.error THEN Refuse
        ELSE [version |-> 3, dataoffset |-> header.headerlen, code |-> raw.code, bytes |-> raw.bytes,
              numsamples |-> raw.numsamples, datalength |-> size % Pow2(16),
              len |-> header.headerlen + size] @@ header
      With(msr) == IF buflen < MinRecLen + ExtraLength(msr) + size THEN Refuse
                   ELSE Rest(PackHeader3(msr, buflen))
  IN  With(Unpack(raw))

-----------------------------------------------------------------------------
(* ms3_detect() on the first n bytes of a buffer with this record and      *)
(* another one like it.  It reads the type and the place of the next       *)
(* blockette whether or not they are among these bytes, so that with a     *)
(* part of them it may go on or give up.  Without a blockette 1000 the     *)
(* next header says where the record ends.                                 *)
Scan(raw, n) == IF raw.len % 64 = 0 /\ raw.len + 48 < n THEN raw.len ELSE 0

Detect(raw, n) ==
  LET walk[at \in {0} \cup DOMAIN raw.chain] ==
        IF at <= 47 \/ at > n THEN {Scan(raw, n)}
        ELSE IF at + 4 > n THEN {Scan(raw, n), -1}
        ELSE LET b == raw.chain[at]
             IN  IF b.type = 1000 /\ at + 8 <= n THEN {raw.reclen}
                 ELSE IF b.next # 0 /\ b.next - 4 <= at THEN {-1} ELSE walk[b.next]
  IN  IF n < MinRecLen THEN {-1}
      ELSE IF raw.version = 3 THEN {raw.dataoffset + raw.datalength} ELSE walk[raw.first]

(* Mutant of Asks: what is there is not taken off.                         *)
Asks_Whole(reclen, n) == reclen

\* the bytes that are missing
Asks(reclen, n) == reclen - n

(* msr3_parse(): "notseed", "parsed", or a number of bytes to ask for.     *)
Outcome(result, asks) == [result |-> result, asks |-> asks]

PowerOfTwo(n) == n \in {2 ^ i : i \in 0..17}

ParseOf(raw, n, atend, detected) ==
  LET known == IF raw.version = 2 /\ detected = 0 /\ atend /\ PowerOfTwo(n) THEN n ELSE detected
  IN  IF known < 0 THEN Outcome("notseed", 0) ELSE IF known = 0 THEN Outcome("more", MinRecLen)
      ELSE IF known \notin MinRecLen..MaxRecLen THEN Outcome("outofrange", 0)
      ELSE IF known > n THEN Outcome("more", Asks(known, n)) ELSE Outcome("parsed", known)

Parse(raw, n, atend) == {ParseOf(raw, n, atend, d) : d \in Detect(raw, n)}

-----------------------------------------------------------------------------
(* Records are packed without a gap: their samples, one after another, are *)
(* those that were given, all of them when flushing; every record starts   *)
(* where its first sample is, to the unit of a version's time, and holds   *)
(* what its header says.  Packed as version 3 it holds the same still.     *)
(* Only 16 bits of a sample are kept where it is packed in 16.             *)
RecordsFollow(msr, version, flush) ==
  LET kept  == IF msr.encoding = "int16" THEN DecodeInt16(msr.samples) ELSE msr.samples
      exact == IF version = 2 THEN Fsec ELSE 1
      Due(done) == IF done = 0 \/ Hz(msr.rate)[1] = 0 THEN msr.start
                   ELSE SampleTime(msr.start, done, Period(msr.rate))
      Near(off) == off < exact /\ -off < exact
      Same(new, out, start) == ~new.error /\ Decode(new) = out /\ Unpack(new).start = start
      Holds(raw, out, read, done) ==
        /\ ~out.error /\ out.samples = SubSeq(kept, done + 1, done + raw.numsamples)
        /\ Near(read.start - Due(done)) /\ raw.len <= msr.reclen
        /\ Same(Repack3(raw, 2 * raw.len + ExtraLength(read) + 64), out, read.start)
      Given(recs) == FoldLeft(LAMBDA n, r : n + r.numsamples, 0, recs)
      Follow(packed) ==
        /\ \A i \in DOMAIN packed.recs :
             Holds(packed.recs[i], Decode(packed.recs[i]), Unpack(packed.recs[i]),
                   Given(SubSeq(packed.recs, 1, i - 1)))
        /\ flush /\ ~packed.error /\ ~packed.endless => Given(packed.recs) = Len(msr.samples)
  IN  Follow(Pack(msr, version, flush))

(* What is packed: the length of the header and the data, or of version 2  *)
(* a power of two that the first blockette says; the places of its         *)
(* blockettes rise, and the last says that there is none.                  *)
Parseable(raw) ==
  /\ raw.len \in MinRecLen..MaxRecLen
  /\ \/ /\ raw.version = 3 /\ raw.dataoffset \in Nat /\ raw.datalength \in Nat
        /\ raw.len = raw.dataoffset + raw.datalength
     \/ /\ {"version", "len", "first", "reclen", "chain"} \subseteq DOMAIN raw
        /\ raw.version = 2 /\ raw.len \in PowersOfTwo /\ raw.reclen = raw.len /\ raw.first = 48
        /\ 48 \in DOMAIN raw.chain /\ raw.chain[48].type = 1000 /\ DOMAIN raw.chain \subseteq Nat
        /\ \A at \in DOMAIN raw.chain :
             LET next == raw.chain[at].next IN next = 0 \/ (next \in DOMAIN raw.chain /\ next >= at + 8)

(* Given any part of a record, the parser asks for more bytes, and never   *)
(* for more than are left of it; given all of it, it parses it, whatever   *)
(* follows.  It may take a record of version 2 for none where the first    *)
(* blockette is cut in its first four bytes.  Of a record that does not    *)
(* say how long it is it takes all bytes up to the next one, or to the end *)
(* of the file.                                                            *)
ParseAsks(raw) ==
  /\ \A n \in MinRecLen..(raw.len + 64) : \A p \in Parse(raw, n, FALSE) :
       \/ n >= raw.len /\ p = Outcome("parsed", raw.len)
       \/ n < raw.len /\ p.result = "more" /\ p.asks > 0 /\ n + p.asks <= raw.len
       \/ raw.version = 2 /\ n \in 48..51 /\ p.result = "notseed"
  /\ raw.version = 2 =>
       LET bare == [raw EXCEPT !.first = 0]
       IN  /\ Parse(bare, raw.len, TRUE) = {Outcome("parsed", raw.len)}
           /\ \A n \in MinRecLen..(raw.len + 64) :
                Parse(bare, n, FALSE) = {IF n > raw.len + 48 THEN Outcome("parsed", raw.len)
                                         ELSE Outcome("more", MinRecLen)}

(* So does it of every record that is packed.                              *)
PackedParses(msr, version, flush) ==
  LET Parses(packed) == \A i \in DOMAIN packed.recs : Parseable(packed.recs[i]) /\ ParseAsks(packed.recs[i])
  IN  Parses(Pack(msr, version, flush))
=============================================================================
