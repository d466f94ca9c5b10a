----------------------------- MODULE Encodings -----------------------------
(***************************************************************************)
(* The encodings of samples: packdata.c and unpackdata.c of libmseed.      *)
(*                                                                         *)
(* A Steim word is the widths it was packed with and the differences in    *)
(* it; a frame is WordsPerFrame words, the first of which names the        *)
(* packing of the others.  Byte order is left out, and so are differences  *)
(* that overflow 32 bits.                                                  *)
(***************************************************************************)
EXTENDS Integers, Sequences, SequencesExt

CONSTANT WordsPerFrame   \* 16: the first frame also holds X0 and Xn

ASSUME FrameAssumption == WordsPerFrame \in Nat /\ WordsPerFrame > 3

Pow2(n) == 2 ^ n

\* the low bits of a number, and their value as one with a sign
Extract(value, start, bits) == (value \div Pow2(start)) % Pow2(bits)
Signed(value, bits) ==
  IF bits = 32 THEN value
  ELSE LET low == value % Pow2(bits) IN IF low >= Pow2(bits - 1) THEN low - Pow2(bits) ELSE low

BitWidth(value) ==
  LET Fits(bits) == bits = 32 \/ (value >= -Pow2(bits - 1) /\ value < Pow2(bits - 1))
  IN  CHOOSE b \in {4, 5, 6, 8, 10, 15, 16, 30, 32} :
        Fits(b) /\ \A c \in {4, 5, 6, 8, 10, 15, 16, 30, 32} : c < b => ~Fits(c)

-----------------------------------------------------------------------------
(* The packings of a word, in the order they are tried; Steim1 packs a     *)
(* difference of any width into a word of its own.                         *)
Packing(n, bits) == [n |-> n, bits |-> bits]

Steim1 == <<Packing(4, 8), Packing(2, 16), Packing(1, 32)>>
Steim2 == <<Packing(7, 4), Packing(6, 5), Packing(5, 6), Packing(4, 8), Packing(3, 10), Packing(2, 15),
            Packing(1, 30)>>

\* the differences: the first relates to a sample before these
Differences(samples, diff0) ==
  [i \in DOMAIN samples |-> IF i = 1 THEN diff0 ELSE samples[i] - samples[i - 1]]

\* the first packing that holds the differences from the i-th on
Fitting(packings, diffs, i) ==
  {k \in DOMAIN packings : i + packings[k].n - 1 <= Len(diffs)
     /\ \A j \in i..(i + packings[k].n - 1) : BitWidth(diffs[j]) <= packings[k].bits}

(* Mutant of Packed: a word takes the differences of the widest packing    *)
(* that the first one fits.                                                *)
Packed_FirstOnly(packings, diffs, i) ==
  LET fits == {k \in DOMAIN packings : i + packings[k].n - 1 <= Len(diffs)
                                       /\ BitWidth(diffs[i]) <= packings[k].bits}
  IN  IF fits = {} THEN <<>>
      ELSE LET p == packings[CHOOSE k \in fits : \A j \in fits : k <= j]
           IN  <<[packing |-> p, diffs |-> SubSeq(diffs, i, i + p.n - 1)]>>

Packed(packings, diffs, i) ==
  LET fits == Fitting(packings, diffs, i)
  IN  IF fits = {} THEN <<>>
      ELSE LET p == packings[CHOOSE k \in fits : \A j \in fits : k <= j]
           IN  <<[packing |-> p, diffs |-> SubSeq(diffs, i, i + p.n - 1)]>>

(* msr_encode_steim1() and msr_encode_steim2(): words until the samples or *)
(* the frames are used up; so many of them, the next difference, whether   *)
(* one was too wide.                                                       *)
WithWord(coded, word) ==
  IF word = <<>> THEN [coded EXCEPT !.error = TRUE]
  ELSE [coded EXCEPT !.words = @ \o word, !.at = @ + word[1].packing.n]

Coded(packings, diffs, room) ==
  LET coded[n \in 0..room] ==
        IF n = 0 THEN [error |-> FALSE, words |-> <<>>, at |-> 1]
        ELSE LET before == coded[n - 1]
             IN  IF before.error \/ before.at > Len(diffs) THEN before
                 ELSE WithWord(before, Packed(packings, diffs, before.at))
  IN  coded[room]

Room(maxframes)   == IF maxframes = 0 THEN 0 ELSE maxframes * (WordsPerFrame - 1) - 2
FramesUsed(words) == IF words = <<>> THEN 0 ELSE 1 + (Len(words) + 1) \div (WordsPerFrame - 1)

EncodeSteim(packings, samples, diff0, maxframes) ==
  LET Written(coded) ==
        IF coded.error THEN [error |-> TRUE]
        ELSE [error |-> FALSE, x0 |-> samples[1], words |-> coded.words, samples |-> coded.at - 1,
              xn |-> IF coded.words # <<>> THEN samples[coded.at - 1] ELSE 0, frames |-> FramesUsed(coded.words)]
  IN  Written(Coded(packings, Differences(samples, diff0), Room(maxframes)))

(* msr_decode_steim1() and msr_decode_steim2(): what a word holds of its   *)
(* differences is their low bits.                                          *)
DecodeWord(w) == [i \in DOMAIN w.diffs |-> Signed(w.diffs[i], w.packing.bits)]

DecodeSteim(record, samplecount) ==
  LET diffs == FoldLeft(LAMBDA d, w : d \o DecodeWord(w), <<>>, record.words)
      count == IF samplecount < Len(diffs) THEN samplecount ELSE Len(diffs)
      output[i \in 1..count] == IF i = 1 THEN record.x0 ELSE output[i - 1] + diffs[i]
  IN  [i \in 1..count |-> output[i]]

\* Xn is checked only when all samples are there
Intact(record, samplecount) ==
  LET out == DecodeSteim(record, samplecount)
  IN  Len(out) = samplecount /\ samplecount > 0 => out[samplecount] = record.xn

-----------------------------------------------------------------------------
(* Text, 32-bit integers and floating point numbers: as many samples as    *)
(* there is room for, as they are.                                         *)
EncodeWhole(samples, room) == SubSeq(samples, 1, IF Len(samples) < room THEN Len(samples) ELSE room)
DecodeWhole(codes, room)   == SubSeq(codes, 1, IF Len(codes) < room THEN Len(codes) ELSE room)

(* msr_encode_int16() and msr_decode_int16(): the low half of a sample.    *)
EncodeInt16(samples, room) ==
  LET Half(i) == samples[i] % Pow2(16) IN [i \in DOMAIN EncodeWhole(samples, room) |-> Half(i)]
DecodeInt16(codes) == [i \in DOMAIN codes |-> Signed(codes[i], 16)]

(* The older encodings of 16 bits, which are only read: a mantissa and a   *)
(* range of gain.  GEOSCOPE divides, and has the pair for a fraction.      *)
DecodeGeoscope24(code)        == Signed(code, 24)
DecodeGeoscope16(code, width) == <<Extract(code, 0, 12) - 2048, Pow2(Extract(code, 12, width))>>
DecodeCDSN(code) ==
  LET shift == <<0, 2, 4, 7>> IN (Extract(code, 0, 14) - 8191) * Pow2(shift[1 + Extract(code, 14, 2)])
DecodeSRO(code) ==
  LET exponent == 10 - Extract(code, 12, 4)
  IN  IF exponent < 0 THEN [error |-> TRUE] ELSE [error |-> FALSE, sample |-> Signed(code, 12) * Pow2(exponent)]
DecodeDWWSSN(code) == Signed(code, 16)

-----------------------------------------------------------------------------
(* Samples are the same after they have been coded, and the last one is as *)
(* the record says: all of them while there are frames, a prefix that      *)
(* fills the frames when there are not.  Only Steim2 refuses, and only a   *)
(* difference that is wider than 30 bits.                                  *)
SteimKept(packings, samples, diff0, maxframes) ==
  LET diffs == Differences(samples, diff0)
      Refused == packings = Steim2 /\ \E i \in DOMAIN diffs : BitWidth(diffs[i]) > 30
      Kept(record) ==
           /\ DecodeSteim(record, record.samples) = SubSeq(samples, 1, record.samples)
           /\ Intact(record, record.samples) /\ record.frames <= maxframes
           /\ record.samples < Len(samples) => Len(record.words) = maxframes * (WordsPerFrame - 1) - 2
      Told(record) == IF record.error THEN Refused ELSE Kept(record)
  IN  Told(EncodeSteim(packings, samples, diff0, maxframes))

(* A number is the same after it has been 16 bits, if it fits; the formats *)
(* with a gain are the mantissa times its power, and are read in full.     *)
CodesRead(code) ==
  /\ DecodeInt16(EncodeInt16(<<DecodeDWWSSN(code)>>, 1)) = <<DecodeDWWSSN(code)>>
  /\ DecodeDWWSSN(code) \in -Pow2(15)..(Pow2(15) - 1) /\ DecodeDWWSSN(code) % Pow2(16) = code
  /\ DecodeGeoscope24(code * 256) = DecodeDWWSSN(code) * 256
  /\ DecodeCDSN(code) \in ((1 - Pow2(13)) * 128)..(Pow2(13) * 128)
  /\ DecodeGeoscope16(code, 3)[2] <= 128 /\ DecodeGeoscope16(code, 4)[1] \in -Pow2(11)..(Pow2(11) - 1)
  /\ DecodeSRO(code).error <=> code >= 11 * Pow2(12)
=============================================================================
