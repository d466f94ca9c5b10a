----------------------------- MODULE Blockettes -----------------------------
(***************************************************************************)
(* The headers of miniSEED 2 records: what msr3_pack_header2() (pack.c)    *)
(* makes of a record's start, rate, flags and extra headers, and what      *)
(* msr3_unpack_mseed2() (unpack.c) and the functions of extraheaders.c     *)
(* make of that again.                                                     *)
(*                                                                         *)
(* Rates are exact fractions <<n, d>>, a period one with n < 0.  A value   *)
(* of an extra header is a number, 0 for FALSE, for an empty string and    *)
(* for the last choice of a list; heads are the plain headers, lists the   *)
(* arrays, without their /FDSN/.  Offsets are bytes, byte order is left    *)
(* out.                                                                    *)
(***************************************************************************)
EXTENDS MSTimes, FiniteSets, SequencesExt, TLC

CONSTANT MicrosPerFsec  \* 100: microseconds of the unit of a BTIME

ASSUME UnitsAssumption == MicrosPerFsec \in Nat \ {0}

Fsec   == Submicro * MicrosPerFsec
Refuse == [error |-> TRUE]

-----------------------------------------------------------------------------
(* Rates                                                                   *)
Hz(rate)  == IF rate[1] < 0 THEN <<rate[2], -rate[1]>> ELSE rate  \* msr3_sampratehz()
Short     == 32767
Greatest(S) == CHOOSE i \in S : \A j \in S : j <= i

(* ms_reduce_rate() of an integer above 16 bits: the greatest divisor not  *)
(* above the root, or the factor that leaves least before the other one    *)
(* would be above 16 bits too.                                             *)
Factors(rate) ==
  LET root  == Greatest({i \in 1..Short : i <= rate \div i})
      stop  == Greatest({i \in 2..root : rate \div (i - 1) > Short})
      divs  == {i \in stop..root : rate % i = 0}
      least == CHOOSE i \in stop..(root - 1) :
                 /\ \A j \in stop..(root - 1) : rate % i <= rate % j
                 /\ \A j \in (i + 1)..(root - 1) : rate % i < rate % j
      f     == IF divs # {} THEN Greatest(divs) ELSE least
  IN  IF rate \div f <= Short THEN <<f, rate \div f>> ELSE <<>>

(* ms_ratapprox(): the last convergent with both numbers within 16 bits.   *)
RatApprox(rate) ==
  LET first == [p |-> rate[2], q |-> rate[1] % rate[2], a1 |-> 1, b1 |-> 0,
                a |-> rate[1] \div rate[2], b |-> 1]
      Next(c) == LET t == c.p \div c.q
                 IN  [p |-> c.q, q |-> c.p % c.q, a1 |-> c.a, b1 |-> c.b,
                      a |-> t * c.a + c.a1, b |-> t * c.b + c.b1]
      last == FoldLeft(LAMBDA c, i : IF c.q = 0 \/ c.a >= Short \/ c.b >= Short THEN c ELSE Next(c),
                       first, [i \in 1..20 |-> i])
  IN  IF last.a < Short /\ last.b < Short THEN <<last.a, last.b>> ELSE <<last.a1, last.b1>>

ReduceRate(rate) ==
  LET approx == RatApprox(rate)
  IN  IF rate[1] % rate[2] = 0
      THEN IF rate[1] \div rate[2] <= Short THEN <<rate[1] \div rate[2], 1>>
           ELSE Factors(rate[1] \div rate[2])
      ELSE IF rate[1] \div rate[2] < Short THEN <<approx[1], -approx[2]>> ELSE <<>>

GenFactMult(rate) ==  \* <<>>: the rate cannot be represented
  LET hz == Hz(rate)
      Negative(period) == IF period = <<>> THEN <<>> ELSE <<-period[1], -period[2]>>
  IN  IF hz[1] = 0 THEN <<0, 0>> ELSE IF hz[1] >= hz[2] THEN ReduceRate(hz)
      ELSE Negative(ReduceRate(<<hz[2], hz[1]>>))

NomSampRate(factor, multiplier) ==
  LET base == IF factor > 0 THEN <<factor, 1>> ELSE IF factor < 0 THEN <<1, -factor>> ELSE <<0, 1>>
  IN  IF multiplier > 0 THEN <<base[1] * multiplier, base[2]>>
      ELSE IF multiplier < 0 THEN <<base[1], base[2] * (-multiplier)>> ELSE base

\* two rates that are not within 0.0001 of one another
Apart(r, s) ==
  LET d == r[1] * s[2] - s[1] * r[2]
  IN  (IF d < 0 THEN -d ELSE d) > (r[2] * s[2]) \div 10000

-----------------------------------------------------------------------------
(* Extra headers: mseh_set_ptr_r() sets a plain one and appends to a list. *)
SetHead(heads, name, value) == (name :> value) @@ heads
AddEntry(lists, name, entry) == [lists EXCEPT ![name] = Append(@, entry)]
NoLists == [Exception |-> <<>>, Detection |-> <<>>, Sequence |-> <<>>]

Value(has, name) == IF name \in DOMAIN has THEN has[name] ELSE 0

FlagHeads ==
  {"Event/Begin", "Event/End", "Event/InProgress", "Flags/StationVolumeParityError",
   "Flags/LongRecordRead", "Flags/ShortRecordRead", "Flags/StartOfTimeSeries", "Flags/EndOfTimeSeries",
   "Flags/AmplifierSaturation", "Flags/DigitizerClipping", "Flags/Spikes", "Flags/Glitches",
   "Flags/MissingData", "Flags/TelemetrySyncError", "Flags/FilterCharging"}
Flags == {"calibration", "questionable", "locked"}  \* bits of the record of every version

-----------------------------------------------------------------------------
(* Blockettes with entries of the lists: the length they are written with, *)
(* the one the reader asks for (ms2_blktlen()), and their fields.  The     *)
(* reader makes a header of some whatever they hold (Kept), of the others  *)
(* only when they are not 0.                                               *)
Calibrations == {300, 310, 320, 390}
Length(type) ==
  CASE type \in {1000, 1001} -> 8 [] type = 100 -> 12 [] type = 395 -> 16 [] type = 390 -> 28
    [] type = 200 -> 52 [] type \in {201, 300, 310} -> 60 [] type = 320 -> 64 [] type = 500 -> 200
BlktLen(type) ==
  CASE type \in {500, 1000, 1001} -> 8 [] type = 100 -> 12 [] type \in {395, 400} -> 16
    [] type \in {200, 320, 390} -> 28 [] type \in {300, 310} -> 32 [] type = 201 -> 36 [] OTHER -> 0

TimeOf(type) ==
  CASE type = 500 -> "Time" [] type \in {200, 201} -> "OnsetTime"
    [] type \in Calibrations -> "BeginTime" [] type = 395 -> "EndTime"

Kept(type) ==
  CASE type = 500 -> {"VCOCorrection", "ReceptionQuality"} [] type = 200 -> {"Units"}
    [] type = 201 -> {"Wave", "MEDLookback", "MEDPickAlgorithm"}
    [] type = 300 -> {"Trigger", "Steps"} [] type \in {310, 320, 390} -> {"Trigger"} [] type = 395 -> {}

Detections == {"SignalAmplitude", "SignalPeriod", "BackgroundEstimate", "Detector"}
Responses  == {"ReferenceAmplitude", "Coupling", "Rolloff"}
Inputs     == {"Continued", "Duration", "Amplitude", "InputChannel"}
Fields(type) ==
  CASE type = 500 -> {"Count", "Type", "ClockStatus"} [] type = 200 -> Detections
    [] type = 201 -> Detections \cup {"MEDSNR"}
    [] type = 300 -> Inputs \cup Responses \cup {"StepFirstPulsePositive", "StepAlternateSign", "StepBetween"}
    [] type = 310 -> Inputs \cup Responses \cup {"AmplitudeRange", "SinePeriod"}
    [] type = 320 -> Inputs \cup Responses \cup {"AmplitudeRange", "Noise"}
    [] type = 390 -> Inputs [] type = 395 -> {}

\* the times of all but timing exceptions are cut to a BTIME
TimeUnit(type) == IF type = 500 THEN Submicro ELSE Fsec

(* A sine calibration's coupling and rolloff are written where a pseudo-   *)
(* random one has them: into the reference amplitude and the coupling.     *)
Displaced(has) ==
  [ReferenceAmplitude |-> IF Value(has, "Coupling") # 0 THEN Value(has, "Coupling")
                          ELSE Value(has, "ReferenceAmplitude"),
   Coupling |-> IF Value(has, "Rolloff") # 0 THEN Value(has, "Rolloff") ELSE Value(has, "Coupling"),
   Rolloff  |-> Value(has, "Rolloff")]

(* A generic detection without a wave is written as one that has it.       *)
GenericWave(has) ==
  [WaveGiven |-> IF "Wave" \in DOMAIN has THEN 0 ELSE 1, Wave |-> Value(has, "Wave")]

Written(type, has) ==
  LET plain == [f \in Kept(type) \cup Fields(type) |-> Value(has, f)]
      time  == TimeOf(type) :> Value(has, TimeOf(type)) \div TimeUnit(type)
  IN  (IF type = 310 THEN Displaced(has) ELSE IF type = 200 THEN GenericWave(has) ELSE <<>>) @@ plain @@ time

ReadBack(type, has) ==
  LET wave == IF type = 200 /\ has.WaveGiven = 1 THEN {"Wave"} ELSE {}
      kept == Kept(type) \cup wave \cup {f \in Fields(type) : has[f] # 0}
      time == IF has[TimeOf(type)] = 0 THEN <<>> ELSE TimeOf(type) :> has[TimeOf(type)] * TimeUnit(type)
  IN  [f \in kept |-> has[f]] @@ time

-----------------------------------------------------------------------------
(* msr3_pack_header2(): the blockettes in their order.  An entry's type is *)
(* "" when it has none.                                                    *)
Block(type, has) == [type |-> type, has |-> has]
Size(blocks) == 48 + FoldLeft(LAMBDA n, b : n + Length(b.type), 0, blocks)

\* an entry's blockettes: what has no type ends a calibration
CalibrationType(entry) ==
  CASE entry.type = "STEP" -> 300 [] entry.type = "SINE" -> 310 [] entry.type = "PSEUDORANDOM" -> 320
    [] entry.type = "GENERIC" -> 390 [] entry.type = "" /\ "EndTime" \in DOMAIN entry.has -> 395
    [] OTHER -> 0

EntryBlocks(list, entry) ==
  LET type == CASE list = "Exception" -> 500
                [] list = "Detection" -> IF entry.type = "MURDOCK" THEN 201 ELSE 200
                [] list = "Sequence"  -> CalibrationType(entry)
      first == IF type = 395 THEN <<>> ELSE <<Block(type, Written(type, entry.has))>>
      ends  == IF list = "Sequence" /\ "EndTime" \in DOMAIN entry.has
               THEN <<Block(395, Written(395, entry.has))>> ELSE <<>>
  IN  IF type = 0 THEN Refuse ELSE [error |-> FALSE, blocks |-> first \o ends]

Leads(msr, factmult) ==
  LET micro == (msr.start \div Submicro) % MicrosPerFsec
  IN  <<Block(1000, <<>>)>>
      \o (IF "Time/Quality" \in DOMAIN msr.heads \/ micro # 0
          THEN <<Block(1001, [quality |-> Value(msr.heads, "Time/Quality") % 256, micro |-> micro])>>
          ELSE <<>>)
      \o (IF Apart(Hz(msr.rate), NomSampRate(factmult[1], factmult[2]))
          THEN <<Block(100, [rate |-> msr.rate])>> ELSE <<>>)

\* the flags of the fixed header
Bits_Unapplied(msr) ==  \* mutant of Bits: the time correction is not marked as applied
  {b \in FlagHeads : Value(msr.heads, b) # 0} \cup msr.flags
  \cup (IF Value(msr.heads, "Time/LeapSecond") > 0 THEN {"positive leap"} ELSE {})
  \cup (IF Value(msr.heads, "Time/LeapSecond") < 0 THEN {"negative leap"} ELSE {})

Bits(msr) ==
  {b \in FlagHeads : Value(msr.heads, b) # 0} \cup msr.flags
  \cup (IF Value(msr.heads, "Time/LeapSecond") > 0 THEN {"positive leap"} ELSE {})
  \cup (IF Value(msr.heads, "Time/LeapSecond") < 0 THEN {"negative leap"} ELSE {})
  \cup (IF "Time/Correction" \in DOMAIN msr.heads THEN {"corrected"} ELSE {})

\* the chain of blockettes: where each is, and where the next one
Chain(blocks) ==
  LET OffsetOf(i) == Size(SubSeq(blocks, 1, i - 1))
  IN  [at \in {OffsetOf(i) : i \in DOMAIN blocks} |->
        LET i == CHOOSE j \in DOMAIN blocks : OffsetOf(j) = at
        IN  [type |-> blocks[i].type, has |-> blocks[i].has,
             next |-> IF i = Len(blocks) THEN 0 ELSE OffsetOf(i + 1)]]

PowersOfTwo == {2 ^ i : i \in 7..17}

\* all blockettes: each must fit into the record
Blocks(msr, factmult) ==
  LET Of(list) == [i \in DOMAIN msr.lists[list] |-> EntryBlocks(list, msr.lists[list][i])]
      Add(h, new) == IF h.error \/ new.error THEN Refuse
                     ELSE IF Size(h.blocks \o new.blocks) > msr.reclen THEN Refuse
                     ELSE [error |-> FALSE, blocks |-> h.blocks \o new.blocks]
  IN  FoldLeft(Add, [error |-> FALSE, blocks |-> Leads(msr, factmult)],
               Of("Exception") \o Of("Detection") \o Of("Sequence"))

Header2(msr, factmult, all) ==
  LET Clocked(b) == IF b.type # 500 THEN b
                    ELSE [b EXCEPT !.has = ("Clock/Model" :> Value(msr.heads, "Clock/Model")) @@ @]
  IN  IF all.error THEN Refuse
      ELSE [error |-> FALSE, headerlen |-> Size(all.blocks), fsec |-> msr.start \div Fsec,
            quality |-> IF "DataQuality" \in DOMAIN msr.heads THEN msr.heads["DataQuality"] ELSE 2,
            bits |-> Bits(msr), factor |-> factmult[1], multiplier |-> factmult[2],
            correction |-> Value(msr.heads, "Time/Correction"), first |-> 48,
            chain |-> Chain([i \in DOMAIN all.blocks |-> Clocked(all.blocks[i])]),
            encoding |-> msr.encoding, reclen |-> msr.reclen]

PackHeader2(msr) ==
  LET Rated(factmult) == IF factmult = <<>> THEN Refuse ELSE Header2(msr, factmult, Blocks(msr, factmult))
  IN  IF msr.reclen \notin PowersOfTwo \/ ~msr.seed THEN Refuse ELSE Rated(GenFactMult(msr.rate))

-----------------------------------------------------------------------------
(* msr3_unpack_mseed2(): the walk along the blockettes ends at one that is *)
(* not known, not within the record, or not followed by a later one.       *)
Walk(raw) ==
  LET walk[at \in Nat] ==
        IF at = 0 \/ at >= raw.reclen THEN <<>>
        ELSE LET b == raw.chain[at]
                 end == at + BlktLen(b.type)
             IN  IF BlktLen(b.type) = 0 \/ end > raw.reclen THEN <<>>
                 ELSE <<b>> \o (IF b.next # 0 /\ (b.next < end \/ b.next > raw.reclen) THEN <<>>
                                ELSE walk[b.next])
  IN  walk[raw.first]

EntryType(type) ==
  CASE type = 500 -> "" [] type = 200 -> "GENERIC" [] type = 201 -> "MURDOCK" [] type = 300 -> "STEP"
    [] type = 310 -> "SINE" [] type = 320 -> "PSEUDORANDOM" [] type = 390 -> "GENERIC" [] type = 395 -> "ABORT"
ListOf(type) ==
  CASE type = 500 -> "Exception" [] type \in {200, 201} -> "Detection"
    [] type \in Calibrations \cup {395} -> "Sequence"

ReadBlock(msr, b) ==
  CASE b.type = 100  -> [msr EXCEPT !.rate = b.has.rate]
    [] b.type = 1000 -> msr
    [] b.type = 1001 -> [msr EXCEPT !.start = @ + b.has.micro * Submicro,
                                    !.heads = SetHead(@, "Time/Quality", b.has.quality)]
    [] b.type = 400  -> msr
    [] OTHER -> LET entry == [type |-> EntryType(b.type), has |-> ReadBack(b.type, b.has)]
                    read  == [msr EXCEPT !.lists = AddEntry(@, ListOf(b.type), entry)]
                IN  IF b.type = 500
                    THEN [read EXCEPT !.heads = SetHead(@, "Clock/Model", b.has["Clock/Model"])] ELSE read

Unpack2(raw) ==
  LET leap == IF "negative leap" \in raw.bits THEN "Time/LeapSecond" :> -1
              ELSE IF "positive leap" \in raw.bits THEN "Time/LeapSecond" :> 1 ELSE <<>>
      heads == [b \in raw.bits \cap FlagHeads |-> 1] @@ leap
               @@ (IF raw.correction # 0 THEN "Time/Correction" :> raw.correction ELSE <<>>)
      correction == IF "corrected" \in raw.bits THEN 0 ELSE raw.correction
      fixed == [start |-> (raw.fsec + correction) * Fsec, seed |-> TRUE,
                rate |-> NomSampRate(raw.factor, raw.multiplier),
                flags |-> raw.bits \cap Flags, pubversion |-> raw.quality, heads |-> heads,
                lists |-> NoLists, encoding |-> raw.encoding, reclen |-> raw.reclen]
  IN  FoldLeft(ReadBlock, fixed, Walk(raw))

-----------------------------------------------------------------------------
(* What an entry says is said by the one that is read for it; not so a     *)
(* generic detection's wave, a sine calibration's response and an end time.*)
SameEntry(e, type, read) ==
  LET lost == {TimeOf(type), "EndTime"} \cup (IF type = 200 THEN {"Wave"} ELSE {})
              \cup (IF type = 310 THEN Responses ELSE {})
  IN  /\ \A f \in DOMAIN e.has \ lost : Value(read.has, f) = e.has[f]
      /\ LET time == Value(e.has, TimeOf(type))
         IN  Value(read.has, TimeOf(type)) = (time \div TimeUnit(type)) * TimeUnit(type)

\* what is read back says what was packed
HeaderSays(msr, raw, back) ==
  LET first == [msr.lists EXCEPT !.Sequence = SelectSeq(@, LAMBDA e : e.type # "")]
      read  == [back.lists EXCEPT !.Sequence = SelectSeq(@, LAMBDA e : e.type # "ABORT")]
      Same(list, e, of) == SameEntry(e, EntryBlocks(list, e).blocks[1].type, of)
  IN  /\ back.start = (msr.start \div Submicro) * Submicro
      /\ ~Apart(Hz(back.rate), Hz(msr.rate)) /\ back.flags = msr.flags
      /\ \A h \in FlagHeads : Value(back.heads, h) # 0 <=> Value(msr.heads, h) # 0
      /\ \A h \in {"Time/Quality", "Time/Correction", "Time/LeapSecond"} \cap DOMAIN msr.heads :
           Value(back.heads, h) = msr.heads[h]
      /\ \A list \in DOMAIN first :
           /\ Len(first[list]) = Len(read[list])
           /\ \A i \in DOMAIN first[list] : Same(list, first[list][i], read[list][i])
      /\ Len(back.lists.Sequence) - Len(read.Sequence)
           = Cardinality({i \in DOMAIN msr.lists.Sequence : "EndTime" \in DOMAIN msr.lists.Sequence[i].has})
      /\ read = back.lists /\ (\A i \in DOMAIN read.Detection : read.Detection[i].type # "GENERIC")
           => PackHeader2(back) = [raw EXCEPT !.quality = 2]

(* A header of miniSEED 2 says what the record and its extra headers said: *)
(* the start to the microsecond, with a correction neither lost nor made   *)
(* again, the rate, the flags and every entry in its place.  Packed once   *)
(* more, what was read gives the same header, but for the data quality,    *)
(* generic detections and aborted calibrations.                            *)
HeaderKept(msr) ==
  LET Kept2(raw) == IF raw.error THEN msr.lists # NoLists \/ Hz(msr.rate)[1] > Short * Hz(msr.rate)[2]
                    ELSE HeaderSays(msr, raw, Unpack2(raw))
  IN  Kept2(PackHeader2(msr))
=============================================================================
