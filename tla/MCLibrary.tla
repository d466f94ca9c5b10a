----------------------------- MODULE MCLibrary -----------------------------
(***************************************************************************)
(* The parts that no protocol runs through, each on a small instance: the  *)
(* line editor, trace list and files, which keep a state, and functions,    *)
(* which are called with the arguments of Calls.  None of them meets the   *)
(* others, so one run takes each in turn.  The arguments of TimeCalls and   *)
(* RecordCalls are among them.                                             *)
(***************************************************************************)
EXTENDS LineEdit, TraceList, MCSelections, Files, Logs, ExtraHeaders, TimeCalls, RecordCalls

vars == <<linevars, tracevars, filevars, mslog, mseh, call>>

-----------------------------------------------------------------------------
(* The line editor: two characters, completions for one of them.           *)
OfferedC == [c \in {a} |-> <<<<a, Blank>>, <<a, a>>>>]

(* The trace list: a gap and what fills it, two versions, a rate that      *)
(* differs, a type that differs, and samples that are not unpacked.        *)
Added(sid, version, start, n, period, type, data) ==
  [sid |-> sid, version |-> version, start |-> start, n |-> n, period |-> period,
   type |-> type, data |-> data]
RecordsC ==
  {Added(1, 1, 0, 2, 2, "i", TRUE), Added(1, 2, 4, 2, 2, "i", TRUE), Added(1, 1, 8, 1, 2, "i", TRUE),
   Added(1, 1, 11, 2, 2, "i", TRUE), Added(1, 1, 0, 2, 4, "i", FALSE), Added(2, 1, 4, 1, 2, "t", TRUE),
   Added(1, 1, 4, 1, 2, "t", TRUE)}

(* Files: a record that fills the buffer but for 100 bytes, small ones     *)
(* before and after it, one that is torn, not picked, or cannot be         *)
(* decoded, and bytes that are no record; a record of version 3 after one  *)
(* that does not say how long it is.                                       *)
Piece(kind, version, len) ==
  [kind |-> kind, version |-> version, len |-> len, size |-> len, crc |-> version = 3, picked |-> TRUE,
   bad |-> FALSE]
Small == Piece("record", 3, 64)
Small2 == Piece("record", 2, 64)
Minimal == Piece("record", 3, 40)
Large == Piece("record", 2, 131072)
Bare  == Piece("bare", 2, 128)
Noise == Piece("other", 3, 45)
Unpicked == [Small EXCEPT !.picked = FALSE]
DisksC ==
  {<<Small, Large, Small, Unpicked, Minimal>>, <<Large, Large>>, <<Bare, Bare, Small2, Bare>>,
   <<Small, Noise, Small>>, <<[Small EXCEPT !.bad = TRUE]>>, <<Small, Piece("record", 3, 131200)>>,
   <<Bare, Piece("other", 3, 131172)>>, <<[Small2 EXCEPT !.size = 48], Small, Small>>, <<Bare, Minimal>>}
BatchC == {<<Small>>, <<Small2, Small>>}
OpensC(d) ==
  LET small == Bytes(d) < 1000
  IN  [start : {0, 64}, end : {0, 127, 200}, skip : IF small THEN BOOLEAN ELSE {FALSE},
       chunk : IF small THEN {0, 100} ELSE {0, 100, 16384}]

(* Logs: messages that end with a newline or not, that just fit a text of  *)
(* seven characters and that are cut.                                      *)
ParensC    == <<40, 41, 32>>
ErrPrefixC == <<69>>
RLogInitC  == <<114>>
TooLargeC  == <<b, a>>
TooLong    == <<a, a, a, a, a, a, a, a>>
NamesC     == {<<>>, <<b, b>>}
SaidC      == {<<a, a, a, a, a, a, a, Newline>>, <<a, a, a, a, a, a, Newline>>}
PrefixesC  == {<<<<>>, <<>>>>, <<<<b>>, <<>>>>, <<TooLong, TooLong>>}

-----------------------------------------------------------------------------
(* Names and lists: "h" and "d" are the default host, 16 its port; the     *)
(* ports that can be read are 1, 11 and 16.                                *)
HostC  == <<104, 100>>
PortC  == <<49, 54>>
PortsC == {<<49>>, <<49, 49>>, PortC}

Chans == Strings({a, Underscore}, 0..6)
NameCalls ==
  \/ call' \in {<<"address", host>> : host \in Strings({a, Colon, 49}, 1..4)}
  \/ call' \in {<<"streamid", id>> : id \in Strings({Underscore, Slash, a}, 0..6)}
  \/ call' \in {<<"streams", lines>> : lines \in Strings(Strings({Blank, a, Hash}, 0..3), 0..2)}
  \/ call' \in {<<"codes", n, s, l, c>> : n \in Strings({a, b}, 0..1), s \in Strings({a, b}, 0..2),
                                        l \in Strings({a, b}, 0..1), c \in Chans}
  \/ call' \in {<<"range", p, s, e>> : p \in Strings({a, At, Dash, 49}, 0..4), s \in Strings({48}, 0..3),
                                     e \in Strings({48}, 0..3)}

NamesRead ==
  /\ Called("address") => AddressReached(call[2], <<49>>)
  /\ Called("streamid") => StreamIDJoins(call[2])
  /\ Called("streams") => StreamListRead(call[2])
  /\ Called("codes") => CodesKept(call[2], call[3], call[4], call[5])
  /\ Called("range") => RangeRead(call[2], call[3], call[4])

(* Times: a second is 6 ticks, of 2 nanoseconds, a minute 2 seconds and    *)
(* so on.                                                                  *)
Years == {1900, 1901, 1903, 1904, 1968, 1969, 1970, 1971, 1972, 2000, 2003, 2007, 2008, 2099, 2100,
          2101, 2399, 2400, 2401}
TimeArgsC == {<<y, d>> \o t : y \in Years, d \in {1, 59, 60, 365, 366}, t \in [1..4 -> 0..1]}
NSTimeArgsC ==
  {<<y, d>> \o t \o <<f, s>> :
     y \in {1678, 1968, 1969, 1970, 2262}, d \in {1, 60, 366},
     t \in {<<0, 0, 0, 0>>, <<1, 1, 1, 11>>, <<0, 1, 0, 1>>, <<0, 0, 1, 6>>, <<1, 0, 1, 2>>},
     f \in Formats, s \in Subseconds}

-----------------------------------------------------------------------------
(* Encodings: differences around the edges of every width; codes of the    *)
(* formats of 16 bits at the edges of their fields.                        *)
Sums(d) == [i \in DOMAIN d |-> FoldLeft(LAMBDA x, y : x + y, 0, SubSeq(d, 1, i))]
Widths == {-9, 7, 8, 15, -33, 127, -512, -16385, 32767, 32768, -536870912}
Differing == Strings({0, 8, -129}, 1..6) \cup Strings(Widths, 1..3) \cup [1..8 -> {7, -16}]
             \cup {<<0, 536870912, 0>>}
SteimArgsC == {<<p, Sums(d), f, m>> : p \in {Steim1, Steim2}, d \in Differing, f \in {0, 9}, m \in {1, 2}}
CodeArgsC  == {0, 1, 2047, 2048, 4095, 4096, 8190, 8191, 8192, 32767, 32768, 65535, 11 * 4096 - 1, 11 * 4096}

(* Headers of version 2: rates that are and are not a factor times a       *)
(* multiplier, all flags, and entries of every kind of blockette.          *)
Header(start, rate, flags, heads, lists) ==
  [start |-> start, rate |-> rate, flags |-> flags, heads |-> heads, lists |-> lists, seed |-> TRUE,
   encoding |-> "text", reclen |-> 512]
Rates == {<<0, 1>>, <<1, 1>>, <<20, 1>>, <<1, 10>>, <<3, 7>>, <<200, 3>>, <<-10, 1>>, <<-7, 3>>,
          <<32768, 1>>, <<65537, 1>>, <<65535, 2>>, <<40003, 40001>>}
Heads ==
  {<<>>, [h \in {"Event/Begin", "Flags/Spikes", "Time/Correction"} |-> IF h = "Time/Correction" THEN 7 ELSE 1],
   [h \in {"Event/Begin", "Time/Quality"} |-> 0],
   [h \in {"Time/LeapSecond", "Time/Quality", "DataQuality"} |-> 1],
   [h \in {"Time/LeapSecond", "Time/Correction"} |-> -1],
   [h \in {"Time/Quality", "Clock/Model"} |-> 100]}
Entry(type, has) == [type |-> type, has |-> has]
Exceptions ==
  {<<>>, <<Entry("", [Time |-> 25, Count |-> 3])>>,
   <<Entry("", [VCOCorrection |-> 3, Type |-> 2, ReceptionQuality |-> 4, ClockStatus |-> 9, Time |-> 33])>>}
Detected ==
  {<<>>, <<Entry("GENERIC", [SignalAmplitude |-> 4, OnsetTime |-> 25])>>,
   <<Entry("GENERIC", [Wave |-> 1, Units |-> 1, Detector |-> 4]),
     Entry("MURDOCK", [Wave |-> 1, MEDSNR |-> 4, OnsetTime |-> 13])>>}
Calibrated ==
  {<<>>,
   <<Entry("STEP", [BeginTime |-> 25, Steps |-> 3, StepAlternateSign |-> 1, Duration |-> 4, Coupling |-> 3])>>,
   <<Entry("SINE", [BeginTime |-> 25, SinePeriod |-> 3, Rolloff |-> 1, ReferenceAmplitude |-> 4,
                    Coupling |-> 3, EndTime |-> 31])>>,
   <<Entry("PSEUDORANDOM", [Noise |-> 1, AmplitudeRange |-> 1, Trigger |-> 1]), Entry("", [EndTime |-> 31])>>,
   <<Entry("GENERIC", [Continued |-> 1, InputChannel |-> 1])>>,
   <<Entry("ABORT", [EndTime |-> 31])>>}
HeaderCalls ==
  \/ call' \in {<<"header", Header(s, r, f, h, NoLists)>> :
                  s \in {12, 17, 34}, r \in Rates, f \in {{}, Flags, {"locked"}}, h \in Heads}
  \/ call' \in {<<"header", Header(17, r, {}, h, [Exception |-> x, Detection |-> d, Sequence |-> q])>> :
                  r \in {<<20, 1>>, <<200, 3>>}, h \in Heads, x \in Exceptions, d \in Detected, q \in Calibrated}

HeadersKept ==
  /\ Called("header") => HeaderKept(call[2])
  /\ ~MsehIdle => DocumentsKept(mseh)
  /\ Called("json") => TextRead(call[2])

(* JSON: every text of up to four tokens, and of five that opens; extra    *)
(* headers with keys "a", "b" and one that has to be escaped, an array, a  *)
(* key twice, and pointers that lead to them, past them and nowhere.       *)
Digit0 == 48
One == Leaf("int", <<1>>)
Two == Leaf("str", <<b>>)
JsonTokens == Marks \cup {One, Two}
JsonCalls ==
  \/ call' \in {<<"json", t>> : t \in Strings(JsonTokens, 0..4)}
  \/ call' \in {<<"json", <<c>> \o t>> : c \in {Mark("["), Mark("{")}, t \in [1..4 -> JsonTokens]}

Obj(items)  == Container("obj", items)
TextOf(root) == WriteDoc(MutOf(root))
ExtrasC ==
  {<<>>, <<<<Mark("{"), One>>>>, TextOf(Obj(<<>>)), TextOf(Obj(<<Item(<<a>>, One), Item(<<a>>, Two)>>)),
   TextOf(Obj(<<Item(<<a>>, Container("arr", <<Item(<<>>, Two), Item(<<>>, One)>>))>>))}
PointersC ==
  {<<>>, <<Slash, a>>, <<Slash, b, Slash, a>>, <<Slash, a, Slash, Digit0>>, <<Slash, 126, Digit0>>, <<Slash, 126>>}
LeavesC  == {One}
PatchesC == {Leaf("nan", <<>>), Obj(<<Item(<<a>>, Leaf("null", <<>>))>>),
             Obj(<<Item(<<b>>, Obj(<<Item(<<a>>, Leaf("null", <<>>))>>))>>)}

(* Records: every encoding, types that do and do not go with it, record    *)
(* lengths with room for some samples, and one that is no power of two.    *)
Ramp(n, step) == [i \in 1..n |-> i * step]
Sampled == {<<>>, <<5>>, Ramp(30, 1), Ramp(30, 300), [i \in 1..21 |-> IF i = 17 THEN 1073741000 ELSE -i]}
Coding ==
  {<<"i", "steim1">>, <<"i", "steim2">>, <<"i", "int16">>, <<"i", "int32">>, <<"t", "text">>,
   <<"d", "float64">>, <<"f", "steim2">>, <<"a", "text">>, <<"f", "float32">>}
RecordArgsC ==
  {[sidlen |-> 12, pubversion |-> 1, type |-> e[1], samples |-> d]
   @@ [encoding |-> e[2], reclen |-> l] @@ Header(s, r, {}, h, NoLists) :
     s \in {17, 44}, r \in {<<0, 1>>, <<1, 1>>, <<4, 1>>, <<-3, 1>>},
     h \in {<<>>, [h \in {"Time/Correction"} |-> 7]}, e \in Coding, l \in {128, 256, 72}, d \in Sampled}

-----------------------------------------------------------------------------
Calls ==
  \/ CallTimes \/ CallRecords
  \/ Idle /\ (NameCalls \/ SelectionCalls \/ HeaderCalls \/ JsonCalls)

Init == LineInit /\ TraceInit /\ FileInit /\ LogsInit /\ MsehInit /\ Idle

Next ==
  \/ Idle /\ TraceIdle /\ FileIdle /\ LogsIdle /\ MsehIdle /\ LineNext
     /\ UNCHANGED <<tracevars, filevars, mslog, mseh, call>>
  \/ Idle /\ LineIdle /\ FileIdle /\ LogsIdle /\ MsehIdle /\ TraceNext
     /\ UNCHANGED <<linevars, filevars, mslog, mseh, call>>
  \/ Idle /\ LineIdle /\ TraceIdle /\ LogsIdle /\ MsehIdle /\ FilesNext
     /\ UNCHANGED <<linevars, tracevars, mslog, mseh, call>>
  \/ Idle /\ LineIdle /\ TraceIdle /\ FileIdle /\ MsehIdle /\ LogsNext
     /\ UNCHANGED <<linevars, tracevars, filevars, mseh, call>>
  \/ Idle /\ LineIdle /\ TraceIdle /\ FileIdle /\ LogsIdle /\ MsehNext
     /\ UNCHANGED <<linevars, tracevars, filevars, mslog, call>>
  \/ LineIdle /\ TraceIdle /\ FileIdle /\ LogsIdle /\ MsehIdle /\ Calls
     /\ UNCHANGED <<linevars, tracevars, filevars, mslog, mseh>>
  \/ Return /\ UNCHANGED <<linevars, tracevars, filevars, mslog, mseh>>

Spec == Init /\ [][Next]_vars
=============================================================================
