----------------------------- MODULE RecordCalls -----------------------------
(***************************************************************************)
(* Calls of the functions of libmseed that encode samples and decode them, *)
(* and pack records and parse them.                                        *)
(***************************************************************************)
EXTENDS Records, LibraryCall

CONSTANTS
  SteimArgs,   \* one of Steims, samples, the first difference, the most frames
  CodeArgs,    \* codes of 16 bits
  RecordArgs   \* what is packed: an MS3Record

\* an MS3Record can be packed, whatever its headers say and its entries are
Lists3 == {"Exception", "Detection", "Sequence"}
Packable(msr, E) ==
  /\ msr.samples \in Seq(Int) /\ msr.sidlen \in Nat /\ msr.reclen \in Int
  /\ IsFiniteSet(DOMAIN msr.heads) /\ \A list \in Lists3 : msr.lists[list] \in Seq(E)

ASSUME SampleArgsAssumption ==
  /\ \A x \in SteimArgs : /\ x[1] \in {Steim1, Steim2} /\ x[2] \in Seq(Int) /\ x[2] # <<>>
                          /\ x[3] \in Int /\ x[4] \in Nat \ {0}
  /\ CodeArgs \subseteq 0..(Pow2(16) - 1)

ASSUME RecordArgsAssumption ==
  \A msr \in RecordArgs : Packable(msr, UNION {Range(msr.lists[list]) : list \in Lists3})

CallRecords == Calling("steim", SteimArgs) \/ Calling("code", CodeArgs) \/ Calling("record", RecordArgs)

RecordsSpec == Idle /\ [][CallRecords \/ Return]_call

-----------------------------------------------------------------------------
(* Samples are decoded to what was encoded, and codes to what they stand   *)
(* for.                                                                    *)
SamplesDecoded ==
  /\ Called("steim") => LET x == call[2] IN SteimKept(x[1], x[2], x[3], x[4])
  /\ Called("code") => CodesRead(call[2])

(* Records of either version follow one another and hold the samples that  *)
(* were packed, flushed or not.                                            *)
RecordsPacked ==
  Called("record") => \A version \in {2, 3}, flush \in BOOLEAN : RecordsFollow(call[2], version, flush)

(* A parser that is given a beginning of a record that was packed asks for *)
(* more while bytes are missing and never for too much.                    *)
RecordsParsed ==
  Called("record") => \A version \in {2, 3} : PackedParses(call[2], version, TRUE)
=============================================================================
