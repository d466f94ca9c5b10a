----------------------------- MODULE TraceList -----------------------------
(***************************************************************************)
(* The trace list of libmseed (src/libmseed/tracelist.c): records are      *)
(* added in any order and joined into continuous segments, and the samples *)
(* of the segments are packed into new records.                            *)
(*                                                                         *)
(* A segment is a record, the list of segments a sequence; pointers, the   *)
(* skip list's heights and the buffers' sizes are left out.  A sample is   *)
(* its own time, so that a misplaced one can be seen.  Record lists are    *)
(* kept, as MSF_RECORDLIST asks.  Every record holds a sample or more, at  *)
(* a rate that is not 0, and two rates are never within the tolerance of   *)
(* one another; the tolerances are the default ones.  Memory never runs    *)
(* out.                                                                    *)
(***************************************************************************)
EXTENDS Integers, Sequences, FiniteSets, SequencesExt

CONSTANTS
  Records,    \* sid, version, start, n, period, type, and data: samples unpacked
  PerRecord,  \* samples of a full record that is packed
  Numeric,    \* the sample types that can be converted into each other
  MaxAdds,    \* records added to a list
  MaxPacks    \* times it is packed, or a segment converted

ASSUME TraceAssumption ==
  /\ PerRecord \in Nat \ {0} /\ MaxAdds \in Nat /\ MaxPacks \in Nat
  /\ \A r \in Records :
       /\ r.sid \in Int /\ r.version \in Nat /\ r.start \in Int /\ r.n \in Nat \ {0}
       /\ r.period \in Nat \ {0} /\ r.data \in BOOLEAN

VARIABLES
  traces,       \* MS3TraceID entries, in order
  heal, split,  \* autoheal and splitversion, the same in every call
  listed,       \* there is a list
  written,      \* the records handed to record_handler()
  adds, packs, taken, \* records added, segments packed or converted; samples added
  flushed,      \* all samples have been packed at some time
  altered       \* segments were packed or converted

tracevars == <<traces, heal, split, listed, written, adds, packs, taken, flushed, altered>>

TraceInit ==
  /\ traces = <<>> /\ heal = FALSE /\ split = FALSE /\ listed = FALSE
  /\ written = <<>> /\ adds = 0 /\ packs = 0 /\ taken = 0 /\ flushed = FALSE /\ altered = FALSE

TraceIdle == ~listed

mstl3_init ==
  /\ ~listed /\ listed' = TRUE /\ heal' \in BOOLEAN /\ split' \in BOOLEAN
  /\ UNCHANGED <<traces, written, adds, packs, taken, flushed, altered>>

mstl3_free ==
  /\ listed /\ listed' = FALSE /\ traces' = <<>> /\ heal' = FALSE /\ split' = FALSE
  /\ written' = <<>> /\ adds' = 0 /\ packs' = 0 /\ taken' = 0 /\ flushed' = FALSE
  /\ altered' = FALSE

-----------------------------------------------------------------------------
(* Records and segments.                                                   *)
Flatten(seqs) == FlattenSeq(seqs)
Total(counts) == FoldLeft(LAMBDA sum, n : sum + n, 0, counts)

Times(r)   == [i \in 1..r.n |-> r.start + (i - 1) * r.period]
Decoded(r) == IF r.data THEN Times(r) ELSE <<>>
(* msr3_parse() leaves sampletype unset where it does not decode.          *)
SampleType(r) == IF r.data THEN r.type ELSE "none"
EndTime(r) == r.start + (r.n - 1) * r.period  \* msr3_endtime()
Tolerance(r) == r.period \div 2

Meet(from, to, r) == to - from - r.period \in -Tolerance(r)..Tolerance(r)
EndsBefore(seg, r)  == Meet(seg.end, r.start, r) /\ seg.period = r.period
StartsAfter(seg, r) == Meet(EndTime(r), seg.start, r) /\ seg.period = r.period

mstl3_msr2seg(r) ==
  [start |-> r.start, end |-> EndTime(r), period |-> r.period, type |-> SampleType(r),
   count |-> r.n, samples |-> Decoded(r), recs |-> <<r>>]

CanAdd(seg, r) == r.data => r.type = seg.type

\* mstl3_addmsrtoseg() and mstl3_add_recordptr(), at the end and at the beginning
Ended(seg, r) ==
  [seg EXCEPT !.end = EndTime(r), !.count = @ + r.n, !.samples = @ \o Decoded(r),
              !.recs = Append(@, r)]
Begun_AtEnd(seg, r) ==  \* mutant of Begun: as if at the end
  [seg EXCEPT !.start = r.start, !.count = @ + r.n, !.samples = @ \o Decoded(r),
              !.recs = <<r>> \o @]

Begun(seg, r) ==
  [seg EXCEPT !.start = r.start, !.count = @ + r.n, !.samples = Decoded(r) \o @,
              !.recs = <<r>> \o @]

mstl3_addsegtoseg(seg1, seg2) ==
  [seg1 EXCEPT !.end = seg2.end, !.count = @ + seg2.count, !.samples = @ \o seg2.samples,
               !.recs = @ \o seg2.recs]

(* Segments are in the order of their start times, the longer first.       *)
Precedes(seg1, seg2) ==
  seg1.start < seg2.start \/ (seg1.start = seg2.start /\ seg1.end > seg2.end)

\* the segment at i moves down past those before it in time, or else up
Sorted(segs, i) ==
  LET down == {j \in i..Len(segs) : \A k \in (i + 1)..j : Precedes(segs[k], segs[i])}
      up   == {j \in 1..i : \A k \in j..(i - 1) : Precedes(segs[i], segs[k])}
      to   == IF down # {i} THEN CHOOSE j \in down : \A k \in down : k <= j
              ELSE CHOOSE j \in up : \A k \in up : k >= j
  IN  InsertAt(RemoveAt(segs, i), to, segs[i])

-----------------------------------------------------------------------------
(* mstl3_findID(): a version of 0 is any.  Of several entries that match,  *)
(* the one the skip list meets first.                                      *)
mstl3_findID(sid, version) ==
  {k \in DOMAIN traces : traces[k].sid = sid /\ version \in {0, traces[k].pubversion}}

\* mstl3_addID(): before the first entry of a higher source ID or version
mstl3_addID(r) ==
  LET version == IF split THEN r.version ELSE 0
      lower == {k \in DOMAIN traces :
                  traces[k].sid < r.sid
                  \/ (traces[k].sid = r.sid /\ traces[k].pubversion < version)}
  IN  traces' = InsertAt(traces, Cardinality(lower) + 1,
                  [sid |-> r.sid, pubversion |-> r.version, earliest |-> r.start,
                   latest |-> EndTime(r), segs |-> <<mstl3_msr2seg(r)>>])

Grown(t, r, segs, i) ==
  [t EXCEPT !.segs = Sorted(segs, i),
            !.pubversion = IF r.version > @ THEN r.version ELSE @,
            !.earliest = IF r.start < @ THEN r.start ELSE @,
            !.latest = IF EndTime(r) > @ THEN EndTime(r) ELSE @]

Covered(k, r, segs, i) == traces' = [traces EXCEPT ![k] = Grown(@, r, segs, i)]

Counts(r) == adds' = adds + 1 /\ taken' = taken + Len(Decoded(r))

\* a record joins the segment at i; samples of another type are refused
Appends(k, r, i) ==
  LET segs == traces[k].segs
  IN  \/ /\ CanAdd(segs[i], r) /\ Counts(r)
         /\ Covered(k, r, [segs EXCEPT ![i] = Ended(@, r)], i)
      \/ ~CanAdd(segs[i], r) /\ UNCHANGED <<traces, adds, taken>>

Prepends(k, r, i) ==
  LET segs == traces[k].segs
  IN  \/ /\ CanAdd(segs[i], r) /\ Counts(r)
         /\ Covered(k, r, [segs EXCEPT ![i] = Begun(@, r)], i)
      \/ ~CanAdd(segs[i], r) /\ UNCHANGED <<traces, adds, taken>>

StartsSegment(k, r, i) ==
  Counts(r) /\ Covered(k, r, InsertAt(traces[k].segs, i, mstl3_msr2seg(r)), i)

(* The cases tried before the list is searched, in their order.            *)
AtEnd(t, r)     == EndsBefore(Last(t.segs), r)
AfterAll(t, r)  == r.start - r.period - Tolerance(r) > t.latest
BeforeAll(t, r) == EndTime(r) + r.period + Tolerance(r) < t.earliest
AtStart(t, r)   == StartsAfter(Head(t.segs), r)

Simple(k, r) ==
  LET t == traces[k]
  IN  \/ AtEnd(t, r) /\ Appends(k, r, Len(t.segs))
      \/ ~AtEnd(t, r) /\ AfterAll(t, r) /\ StartsSegment(k, r, Len(t.segs) + 1)
      \/ ~AtEnd(t, r) /\ ~AfterAll(t, r) /\ BeforeAll(t, r) /\ StartsSegment(k, r, 1)
      \/ /\ ~AtEnd(t, r) /\ ~AfterAll(t, r) /\ ~BeforeAll(t, r) /\ AtStart(t, r)
         /\ Prepends(k, r, 1)

(* The search.  An autohealing one ends at a segment of the same times;    *)
(* one that does not heal ends at the first segment the record fits.       *)
Least(S) == CHOOSE i \in S : \A j \in S : i <= j

Exact(segs, r) == {i \in DOMAIN segs : segs[i].start = r.start /\ segs[i].end = EndTime(r)}

Scanned(segs, r) ==
  IF heal /\ Exact(segs, r) # {} THEN 1..(Least(Exact(segs, r)) - 1) ELSE DOMAIN segs

FollowSeg(segs, r) ==
  IF heal /\ Exact(segs, r) # {} THEN Least(Exact(segs, r))
  ELSE LET earlier == {i \in DOMAIN segs : r.start > segs[i].start}
       IN  IF earlier = {} THEN 0 ELSE CHOOSE i \in earlier : \A j \in earlier : j <= i

\* the record closes the gap between two segments, if their samples are of one type
Joins(k, r, i, j) ==
  LET segs == traces[k].segs
      seg  == Ended(segs[i], r)
      same == segs[j].samples = <<>> \/ segs[j].type = seg.type
  IN  /\ IF CanAdd(segs[i], r) THEN Counts(r) ELSE UNCHANGED <<adds, taken>>
      /\ \/ /\ CanAdd(segs[i], r) /\ same
            /\ Covered(k, r, RemoveAt([segs EXCEPT ![i] = mstl3_addsegtoseg(seg, segs[j])], j),
                       IF j < i THEN i - 1 ELSE i)
         \/ /\ CanAdd(segs[i], r) /\ ~same
            /\ traces' = [traces EXCEPT ![k].segs[i] = seg]
         \/ ~CanAdd(segs[i], r) /\ UNCHANGED traces

\* a segment that fits on both sides (what is left of a packed one) is one after
FirstOf(i, after) == i \in after /\ \A j \in after : i <= j

\* Mutant of Searches: it does not join.
Searches_Unjoined(k, r) ==
  LET segs   == traces[k].segs
      after  == {i \in Scanned(segs, r) : StartsAfter(segs[i], r)}
      before == {i \in Scanned(segs, r) : EndsBefore(segs[i], r) /\ ~FirstOf(i, after)}
  IN  \/ before # {} /\ Appends(k, r, Least(before))
      \/ before = {} /\ after # {} /\ Prepends(k, r, Least(after))
      \/ before = {} /\ after = {} /\ StartsSegment(k, r, FollowSeg(segs, r) + 1)

Searches(k, r) ==
  LET segs   == traces[k].segs
      after  == {i \in Scanned(segs, r) : StartsAfter(segs[i], r)}
      before == {i \in Scanned(segs, r) : EndsBefore(segs[i], r) /\ ~FirstOf(i, after)}
      first  == Least(before \cup after)
  IN  \/ before = {} /\ after = {} /\ StartsSegment(k, r, FollowSeg(segs, r) + 1)
      \/ heal /\ before # {} /\ after # {} /\ Joins(k, r, Least(before), Least(after))
      \/ heal /\ before # {} /\ after = {} /\ Appends(k, r, Least(before))
      \/ heal /\ before = {} /\ after # {} /\ Prepends(k, r, Least(after))
      \/ ~heal /\ before \cup after # {} /\ first \in before /\ Appends(k, r, first)
      \/ ~heal /\ before \cup after # {} /\ first \notin before /\ Prepends(k, r, first)

mstl3_addmsr ==
  /\ listed /\ adds < MaxAdds
  /\ \E r \in Records :
       LET found == mstl3_findID(r.sid, IF split THEN r.version ELSE 0)
       IN  \/ found = {} /\ mstl3_addID(r) /\ Counts(r)
           \/ \E k \in found :
                LET t == traces[k]
                IN  \/ Simple(k, r)
                    \/ /\ ~AtEnd(t, r) /\ ~AfterAll(t, r) /\ ~BeforeAll(t, r) /\ ~AtStart(t, r)
                       /\ Searches(k, r)
  /\ UNCHANGED <<heal, split, listed, written, packs, flushed, altered>>

-----------------------------------------------------------------------------
(* The segments in their order, to be changed one or all together.         *)
OneSegment(Change(_)) ==
  /\ listed
  /\ \E k \in DOMAIN traces : \E i \in DOMAIN traces[k].segs :
       traces' = [traces EXCEPT ![k].segs[i] = Change(@)]
  /\ UNCHANGED <<heal, split, listed, written, flushed>>

(* mstl3_unpack_recordlist(), into the segment's own buffer: the records   *)
(* are of one type, and as many samples as the segment counts.             *)
Unpacked(seg) ==
  LET samples == Flatten([i \in DOMAIN seg.recs |-> Times(seg.recs[i])])
  IN  IF /\ seg.samples = <<>> /\ Len(samples) = seg.count
         /\ \A i \in DOMAIN seg.recs : seg.recs[i].type = seg.recs[1].type
      THEN [seg EXCEPT !.samples = samples, !.type = seg.recs[1].type] ELSE seg

mstl3_unpack_recordlist ==
  /\ OneSegment(Unpacked)
  /\ taken' = Total([k \in DOMAIN traces' |->
                            Total([i \in DOMAIN traces'[k].segs |-> Len(traces'[k].segs[i].samples)])])
                            + Total([i \in DOMAIN written |-> Len(written[i].samples)])
  /\ UNCHANGED <<adds, packs, altered>>

mstl3_convertsamples ==
  \E type \in Numeric :
    /\ OneSegment(LAMBDA seg : [seg EXCEPT !.type = IF @ \in Numeric \cup {"none"} THEN type ELSE @])
    /\ packs < MaxPacks /\ packs' = packs + 1 /\ altered' = TRUE /\ UNCHANGED <<taken, adds>>

(* mstl3_pack(): the full records of each segment, or all of its samples.  *)
(* A segment without samples is packed into a record without samples.      *)
PackCount(seg, flush) ==
  LET n == Len(seg.samples)
  IN  IF flush THEN n ELSE IF n = 0 THEN 0 ELSE ((n - 1) \div PerRecord) * PerRecord

Emitted(t, seg, flush) ==
  LET n == PackCount(seg, flush)
  IN  IF seg.samples = <<>>
      THEN <<[sid |-> t.sid, version |-> t.pubversion, start |-> seg.start, samples |-> <<>>]>>
      ELSE [i \in 1..((n + PerRecord - 1) \div PerRecord) |->
             [sid |-> t.sid, version |-> t.pubversion,
              start |-> seg.start + (i - 1) * PerRecord * seg.period,
              samples |-> SubSeq(seg.samples, (i - 1) * PerRecord + 1,
                                 IF i * PerRecord < n THEN i * PerRecord ELSE n)]]

Remaining(seg, flush) ==
  LET n == PackCount(seg, flush)
  IN  IF n = 0 THEN seg
      ELSE [seg EXCEPT !.start = IF n = Len(seg.samples) THEN seg.end ELSE @ + n * seg.period,
                       !.samples = SubSeq(@, n + 1, Len(@)), !.count = @ - n]

mstl3_pack ==
  /\ listed /\ packs < MaxPacks /\ packs' = packs + 1 /\ altered' = TRUE
  /\ \E flush \in BOOLEAN :
       /\ flushed' = (flushed \/ flush)
       /\ written' = written \o Flatten([k \in DOMAIN traces |->
            Flatten([i \in DOMAIN traces[k].segs |-> Emitted(traces[k], traces[k].segs[i], flush)])])
       /\ traces' = [k \in DOMAIN traces |->
            [traces[k] EXCEPT !.segs = [i \in DOMAIN @ |-> Remaining(@[i], flush)]]]
  /\ UNCHANGED <<heal, split, listed, adds, taken>>

TraceNext ==
  \/ mstl3_init \/ mstl3_free \/ mstl3_addmsr \/ mstl3_unpack_recordlist
  \/ mstl3_convertsamples \/ mstl3_pack

-----------------------------------------------------------------------------
(* The list is in order: entries by source ID and version, and until it is *)
(* altered the segments of an entry by time, between its earliest and      *)
(* latest time.  In a list that heals, no two segments of an entry are     *)
(* left that continue one another.  The order and the healing are of       *)
(* entries whose records are of one rate and type, all with their samples  *)
(* or none, not unpacked either: a record that fits two segments that do   *)
(* not fit each other is added to one of them, which stays where it is.    *)
Of(segs) == UNION {Range(segs[i].recs) : i \in DOMAIN segs}

Alike(segs) ==
  /\ \A r, s \in Of(segs) : r.period = s.period /\ SampleType(r) = SampleType(s)
  /\ (\A r \in Of(segs) : r.data) \/ (\A i \in DOMAIN segs : segs[i].samples = <<>>)

SegmentsHealed ==
  /\ \A k \in 1..(Len(traces) - 1) :
       \/ traces[k].sid < traces[k + 1].sid
       \/ split /\ traces[k].sid = traces[k + 1].sid
  /\ ~altered => \A k \in DOMAIN traces :
       LET t == traces[k] segs == t.segs
       IN  /\ \A i, j \in DOMAIN segs : i < j /\ Alike(segs) => ~Precedes(segs[j], segs[i])
           /\ \A i \in DOMAIN segs : t.earliest <= segs[i].start /\ segs[i].end <= t.latest
           /\ \E i, j \in DOMAIN segs : t.earliest = segs[i].start /\ segs[j].end = t.latest
           /\ heal /\ Alike(segs) =>
                \A i, j \in DOMAIN segs : ~EndsBefore(segs[i], Head(segs[j].recs))

(* Until altered, the samples of a segment are those of its records,       *)
(* which follow one another in time.  Until it is flushed, the samples of  *)
(* a record written out follow one another from its start time on, give or *)
(* take a tolerance for each record they may come from; this is of source  *)
(* IDs whose records are of one rate and were all unpacked when they were  *)
(* added: samples have no place for a record between them that has none.   *)
(* No sample is ever lost or kept twice.                                   *)
Near(x, y, by) == x - y \in -by..by

AddedTo(sid) == UNION {Of(traces[k].segs) : k \in {k \in DOMAIN traces : traces[k].sid = sid}}
Even(recs)   == \A r, s \in recs : r.data /\ r.period = s.period

InTime(rec) ==
  Even(AddedTo(rec.sid)) =>
    \A r \in AddedTo(rec.sid) : \A j \in DOMAIN rec.samples :
      Near(rec.samples[j], rec.start + (j - 1) * r.period, adds * Tolerance(r))

SamplesFollowRecords ==
  /\ ~altered => \A k \in DOMAIN traces : \A i \in DOMAIN traces[k].segs :
       LET seg == traces[k].segs[i] recs == seg.recs
       IN  /\ seg.samples # <<>> /\ (\A j \in DOMAIN recs : recs[j].data) =>
                seg.samples = Flatten([j \in DOMAIN recs |-> Times(recs[j])])
           /\ \A j \in 1..(Len(recs) - 1) : Meet(EndTime(recs[j]), recs[j + 1].start, recs[j])
           /\ seg.start = Head(recs).start /\ seg.end = EndTime(Last(recs))
  /\ ~flushed => \A j \in DOMAIN written : InTime(written[j])
  /\ Total([k \in DOMAIN traces |-> Total([i \in DOMAIN traces[k].segs |-> Len(traces[k].segs[i].recs)])]) = adds
  /\ taken = Total([i \in DOMAIN written |-> Len(written[i].samples)])
             + Total([k \in DOMAIN traces |->
                 Total([i \in DOMAIN traces[k].segs |-> Len(traces[k].segs[i].samples)])])
=============================================================================
