------------------------------- MODULE Files -------------------------------
(***************************************************************************)
(* The files of libmseed: records written to one, and read from it or from *)
(* a URL through a buffer (fileutils.c, msio.c), or read from memory       *)
(* (mstl3_readbuffer_selection() of tracelist.c).                          *)
(*                                                                         *)
(* A file is a sequence of pieces: records, records of version 2 that do   *)
(* not say how long they are (bare), and other bytes.  A record has size   *)
(* bytes of its len ones, so that a torn one can be seen; crc if it has    *)
(* one that is checked, picked if the selections take it, bad if its       *)
(* samples cannot be decoded.  Bytes within a piece are not taken for the  *)
(* start of another.                                                       *)
(* Of libcurl only what it hands over is here; memory never runs out.      *)
(***************************************************************************)
EXTENDS Records, Text

CONSTANTS
  Disks,      \* files that are there
  Opens(_),   \* the ways a file is opened: start, end, skip, and chunk, the bytes
              \* a URL delivers at a time, or 0 for a file
  Batch,      \* the records a call writes
  Torn,       \* bytes of a record that may be written when the rest is not
  MaxPieces,  \* a file is not written to beyond these
  MaxDigits   \* 20, of a number in a range

(* A bare record is as long as a power of two, as those of version 2 are   *)
(* that say how long they are; none is shorter than 64 bytes.              *)
IsPiece(c) ==
  /\ c \in [kind : {"record", "bare", "other"}, version : {2, 3}, len : Nat, size : Nat,
            crc : BOOLEAN, picked : BOOLEAN, bad : BOOLEAN]
  /\ c.kind = "bare" => c.version = 2 /\ PowerOfTwo(c.len)
  /\ c.kind # "other" /\ c.version = 2 => c.len >= 64

ASSUME FilesAssumption ==
  /\ \A pieces \in Disks \cup Batch : \A i \in DOMAIN pieces : IsPiece(pieces[i])
  /\ Disks \cup Batch \subseteq Seq(UNION {Range(pieces) : pieces \in Disks \cup Batch})
  /\ \A pieces \in Disks : \A i \in DOMAIN pieces : pieces[i].size > 0
  /\ Torn \subseteq Nat

VARIABLES
  disk,       \* the file
  msfp,       \* MS3FileParam of an open file, or <<>>
  reading,    \* within ms3_readmsr_selection()
  hint,       \* parseval
  ret,        \* what the last call returned
  returned,   \* the records handed out: fileoffset and reclen
  listing     \* within ms3_readtracelist_selection()

filevars == <<disk, msfp, reading, hint, ret, returned, listing>>

FileInit ==
  disk = <<>> /\ msfp = <<>> /\ reading = FALSE /\ hint = 0 /\ ret = "" /\ returned = <<>> /\ listing = FALSE

FileIdle == disk = <<>> /\ msfp = <<>> /\ ret = ""

-----------------------------------------------------------------------------
(* Pieces and their places.                                                *)
Bytes(pieces) == FoldLeft(LAMBDA n, c : n + c.size, 0, pieces)
PlaceOf(i)    == Bytes(SubSeq(disk, 1, i - 1))
PieceAt(p)    == {i \in DOMAIN disk : PlaceOf(i) = p}
Whole(i)      == disk[i].size = disk[i].len
Starts        == {i \in DOMAIN disk : disk[i].kind # "other"}

\* ms3_detect() with n bytes from p on
DetectedAt(p, n) ==
  LET i == CHOOSE i \in PieceAt(p) : TRUE
      Next2 == {k \in Starts : k > i /\ disk[k].version = 2 /\ (PlaceOf(k) - p) % 64 = 0}
      next == {PlaceOf(j) - p : j \in Next2}
      seen == {d \in next : d + 48 < n}
  IN  IF PieceAt(p) \cap Starts = {} THEN -1
      ELSE IF disk[i].kind = "record" THEN disk[i].len
      ELSE IF seen = {} THEN 0 ELSE CHOOSE d \in seen : \A e \in seen : d <= e

ParseAt(p, n, atend) ==
  LET i == CHOOSE i \in PieceAt(p) : TRUE
      version == IF PieceAt(p) = {} THEN 3 ELSE disk[i].version
      parsed  == ParseOf([version |-> version], n, atend, DetectedAt(p, n))
  IN  IF parsed.result = "parsed" /\ disk[i].crc /\ ~Whole(i) THEN Outcome("invalidcrc", 0) ELSE parsed

-----------------------------------------------------------------------------
(* msr3_writemseed() and mstl3_writemseed(): each record is written, or    *)
(* only part of it; either way the next one follows and all are counted.   *)
FileAppears ==
  /\ FileIdle /\ disk' \in Disks /\ ret' = "" /\ UNCHANGED <<msfp, reading, hint, returned, listing>>

Write ==
  /\ msfp = <<>> /\ ret \in {"", "written"} /\ Len(disk) < MaxPieces
  /\ \E overwrite \in BOOLEAN, batch \in Batch :
       \E sizes \in [DOMAIN batch -> Torn \cup {0, MaxRecLen}] :
         LET written == [i \in DOMAIN batch |-> [batch[i] EXCEPT !.size = Least2(sizes[i], @)]]
             Add(pieces, c) == IF c.size = 0 THEN pieces ELSE Append(pieces, c)
         IN  disk' = FoldLeft(Add, IF overwrite THEN <<>> ELSE disk, written)
  /\ ret' = "written" /\ returned' = <<>> /\ UNCHANGED <<msfp, reading, hint, listing>>

-----------------------------------------------------------------------------
(* msio_fopen(): a file is read from its start offset.  A URL is asked for *)
(* a range; the server's answer names the one it sends, or there is no     *)
(* range in it and all is sent.  The connection may be lost at any chunk,  *)
(* which is not told from the end of the stream.                           *)
Source(o) ==
  LET size == Bytes(disk)
      last == IF o.end > 0 THEN Least2(size, o.end + 1) ELSE size
      Opened(end, from, till) ==
        [chunk |-> o.chunk, skip |-> o.skip, start |-> o.start, end |-> end, from |-> from, till |-> till,
         streampos |-> o.start, count |-> 0, length |-> 0, offset |-> 0, got |-> 0, eof |-> FALSE]
      Sent(from, till) == {till, Least2(till, from + o.chunk)}
  IN  IF o.chunk = 0 THEN {Opened(o.end, o.start, size)}
      ELSE {Opened(o.end, 0, till) : till \in Sent(0, size)}
           \cup IF o.start = 0 /\ o.end = 0 THEN {}
                ELSE {Opened(last - 1, o.start, till) : till \in Sent(o.start, last)}

ms3_open ==
  /\ msfp = <<>> /\ disk # <<>> /\ ret \in {"", "written"} /\ \E o \in Opens(disk) : msfp' \in Source(o)
  /\ reading' = TRUE /\ hint' = 0 /\ returned' = <<>> /\ ret' = "" /\ listing' \in BOOLEAN /\ UNCHANGED disk

(* msio_fread(): a file is at its end once a read came short.  A URL's     *)
(* chunk is left with libcurl when it does not fit.                        *)
Reads(m, room) ==
  LET left == IF m.till > m.from + m.got THEN m.till - m.from - m.got ELSE 0
      n    == Least2(left, room)
      full == (n \div m.chunk) * m.chunk
      rest == IF left - full < m.chunk /\ left <= room THEN left ELSE full
      Read(k, eof) == [m EXCEPT !.got = @ + k, !.length = @ + k, !.eof = eof]
  IN  IF m.chunk = 0 THEN {Read(n, n < room)}
      ELSE {Read(rest, rest = left /\ rest < room)} \cup (IF rest = left THEN {Read(rest, TRUE)} ELSE {})

-----------------------------------------------------------------------------
(* ms3_readmsr_selection(): one pass through its loop is one action.       *)
Buffered(m) == m.length - m.offset

(* Mutant of Shifted: the bytes before the offset are still counted.       *)
Shifted_KeepsLength(m) ==
  IF Buffered(m) <= 0 THEN [m EXCEPT !.length = 0, !.offset = 0]
  ELSE [m EXCEPT !.offset = 0]

\* ms3_shift_msfp()
Shifted(m) ==
  IF Buffered(m) <= 0 THEN [m EXCEPT !.length = 0, !.offset = 0]
  ELSE [m EXCEPT !.length = @ - m.offset, !.offset = 0]

Passed(m, n) == [m EXCEPT !.offset = @ + n, !.streampos = @ + n]

Result(m, parseval, retcode) == [msfp |-> m, hint |-> parseval, ret |-> retcode]
Loop(m, parseval) == Result(m, parseval, "")

\* after msr3_parse() of the buffer, which starts at p of the file
Judged(m, p, parsed) ==
  LET i   == CHOOSE i \in PieceAt(p) : TRUE
      len == parsed.asks
  IN  CASE parsed.result = "parsed" /\ ~disk[i].picked -> Loop(Passed(m, len), 0)
        [] parsed.result = "parsed" /\ disk[i].picked ->
             IF disk[i].bad THEN Result(m, 0, "GENERROR")
             ELSE Result([Passed(m, len) EXCEPT !.count = @ + 1], 0, "NOERROR")
        [] parsed.result \in {"notseed", "outofrange", "invalidcrc"} ->
             IF m.skip THEN Loop(Passed(m, 1), 0) ELSE Result(m, 0, parsed.result)
        [] parsed.result = "more" ->
             IF Buffered(m) + len > MaxRecLen
             THEN IF m.skip THEN Loop(Passed(m, 1), len) ELSE Result(m, len, "outofrange")
             ELSE IF m.eof THEN Result(m, len, "ENDOFFILE") ELSE Loop(m, len)

\* the end of the pass
StreamEnded(r) ==
  IF r.ret = "" /\ r.msfp.eof /\ Buffered(r.msfp) < MinRecLen
  THEN [r EXCEPT !.ret = IF r.msfp.count = 0 THEN "notseed" ELSE "ENDOFFILE"] ELSE r

\* more is read when too little is left, or for a record of which more is needed
Fills(m) == ~m.eof /\ (Buffered(m) < MinRecLen \/ hint > 0)

Passes(m) ==
  LET kept == Shifted(m)
      PlaceIn(f) == f.from + f.got - Buffered(f)
      Pass(f) == StreamEnded(IF Buffered(f) < MinRecLen THEN Loop(f, hint)
                             ELSE Judged(f, PlaceIn(f), ParseAt(PlaceIn(f), Buffered(f), f.eof)))
  IN  IF m.end > 0 /\ m.end + 1 - m.streampos < MinRecLen THEN {Result(m, hint, "ENDOFFILE")}
      ELSE IF ~Fills(m) THEN {Pass(m)}
      ELSE {IF f.got = m.got /\ ~f.eof THEN Result(f, hint, "GENERROR") ELSE Pass(f) :
              f \in Reads(kept, MaxRecLen - kept.length)}

ReadPass ==
  /\ reading
  /\ \E r \in Passes(msfp) :
       /\ msfp' = r.msfp /\ hint' = r.hint /\ ret' = r.ret /\ reading' = (r.ret = "")
       /\ returned' = IF r.ret # "NOERROR" THEN returned
                      ELSE LET len == r.msfp.offset - (IF Fills(msfp) THEN 0 ELSE msfp.offset)
                           IN  Append(returned, [at |-> r.msfp.streampos - len, len |-> len])
  /\ UNCHANGED <<disk, listing>>

\* the next call of it; ms3_readtracelist_selection() makes it after every record
NextRecord ==
  /\ msfp # <<>> /\ ~reading /\ ret = "NOERROR" /\ reading' = TRUE /\ hint' = 0 /\ ret' = ""
  /\ UNCHANGED <<disk, msfp, returned, listing>>

\* the call without a path; a trace list is read well when the end was reached
CloseFile ==
  /\ msfp # <<>> /\ ~reading /\ (listing => ret # "NOERROR") /\ msfp' = <<>>
  /\ ret' = IF ~listing THEN "closed" ELSE IF ret = "ENDOFFILE" THEN "listed" ELSE ret
  /\ UNCHANGED <<disk, reading, hint, returned, listing>>

(* mstl3_readbuffer_selection(): all records of a buffer, at once.         *)
ReadBuffer ==
  LET size == Bytes(disk)
      read[at \in Nat] ==
        LET i == CHOOSE i \in PieceAt(at) : TRUE
            Parsed(p) ==
              IF p.result = "more" THEN [ret |-> "read", recs |-> <<>>]
              ELSE IF p.result # "parsed" THEN [ret |-> p.result, recs |-> <<>>]
              ELSE IF ~disk[i].picked THEN read[at + p.asks]
              ELSE IF disk[i].bad THEN [ret |-> "GENERROR", recs |-> <<>>]
              ELSE [read[at + p.asks] EXCEPT !.recs = <<[at |-> at, len |-> p.asks]>> \o @]
        IN  IF size - at <= MinRecLen THEN [ret |-> "read", recs |-> <<>>]
            ELSE Parsed(ParseAt(at, size - at, FALSE))
  IN  /\ msfp = <<>> /\ disk # <<>> /\ ret \in {"", "written"}
      /\ ret' = read[0].ret /\ returned' = read[0].recs /\ UNCHANGED <<disk, msfp, reading, hint, listing>>

\* the file is left for another one
FileEnds ==
  /\ msfp = <<>> /\ ret \notin {"", "written"} /\ disk' = <<>> /\ ret' = "" /\ returned' = <<>> /\ listing' = FALSE
  /\ hint' = 0 /\ UNCHANGED <<msfp, reading>>

FilesNext ==
  FileAppears \/ Write \/ ms3_open \/ ReadPass \/ NextRecord \/ CloseFile \/ ReadBuffer \/ FileEnds

FilesSpec == FileInit /\ [][FilesNext]_filevars

-----------------------------------------------------------------------------
(* parse_pathname_range(): a path may end in a range, '@START-END', either *)
(* of which may be missing.  Numbers are their digits.                     *)
Digit == Zero..(Zero + 9)

(* Mutant of PathRange: the first '@' starts the range.                    *)
PathRange_FirstAt(path) ==
  LET range == From(path, First(path, At) + 1)
      dash  == IF Places(range, Dash) = {} THEN Len(range) + 1 ELSE First(range, Dash)
  IN  IF Places(path, At) = {} \/ ~(Range(range) \subseteq Digit \cup {Dash})
      THEN [path |-> path, start |-> <<>>, end |-> <<>>]
      ELSE [path |-> SubSeq(path, 1, First(path, At) - 1), start |-> SubSeq(range, 1, dash - 1),
            end |-> From(range, dash + 1)]

PathRange(path) ==
  LET at    == CHOOSE i \in Places(path, At) : \A j \in Places(path, At) : j <= i
      range == From(path, at + 1)
      dash  == IF Places(range, Dash) = {} THEN Len(range) + 1 ELSE First(range, Dash)
      start == SubSeq(range, 1, dash - 1)
      end   == From(range, dash + 1)
  IN  IF \/ Places(path, At) = {} \/ ~(Range(start) \cup Range(end) \subseteq Digit)
         \/ Len(start) > MaxDigits \/ Len(end) > MaxDigits
      THEN [path |-> path, start |-> <<>>, end |-> <<>>]
      ELSE [path |-> SubSeq(path, 1, at - 1), start |-> start, end |-> end]

(* header_callback(): what follows "Content-Range: bytes".  Blanks before  *)
(* the first digit are passed over, anything else but digits and one dash  *)
(* ends the range, and a number that is too long voids both.               *)
ContentRange(value) ==
  LET Step(r, c) ==
        IF r.done \/ (c = Blank /\ r.start = <<>>) THEN r
        ELSE IF c \in Digit
        THEN LET read == IF r.dash THEN [r EXCEPT !.end = Append(@, c)] ELSE [r EXCEPT !.start = Append(@, c)]
             IN  IF Len(read.start) > MaxDigits \/ Len(read.end) > MaxDigits
                 THEN [read EXCEPT !.start = <<>>, !.end = <<>>, !.done = TRUE] ELSE read
        ELSE IF c = Dash /\ ~r.dash THEN [r EXCEPT !.dash = TRUE] ELSE [r EXCEPT !.done = TRUE]
      read == FoldLeft(Step, [start |-> <<>>, end |-> <<>>, dash |-> FALSE, done |-> FALSE], value)
  IN  [start |-> read.start, end |-> read.end]

(* A range put to a path is read back, and the path with it, whatever the  *)
(* path: two numbers, the first with or without the dash, or the second.   *)
(* So is the range of an answer, of whatever total.                        *)
RangeRead(path, start, end) ==
  LET fits == Len(start) <= MaxDigits /\ Len(end) <= MaxDigits
      answer == ContentRange(<<Blank>> \o start \o <<Dash>> \o end \o <<Slash>> \o start)
      read == [path |-> path, start |-> start, end |-> end]
  IN  IF fits THEN /\ PathRange(path \o <<At>> \o start \o <<Dash>> \o end) = read
                   /\ end = <<>> => PathRange(path \o <<At>> \o start) = read
                   /\ answer = [start |-> start, end |-> end]
      ELSE answer = [start |-> <<>>, end |-> <<>>]

-----------------------------------------------------------------------------
(* The records that are handed out are records of the file, in their       *)
(* order, none of them twice or over another, each at the offset that is   *)
(* given for it, and those with a checksum are whole.  In a file of whole  *)
(* records none that is selected and starts where the reading did, or      *)
(* after it, is passed over, however the bytes of a URL arrive, and when   *)
(* the end is reported none is left that lies in the range and was         *)
(* delivered; those that do not say how long they are need the end of the  *)
(* file too, and what follows one has to be of version 2.  Read from       *)
(* memory it is all of them, but for one of MinRecLen bytes at the end, or *)
(* one there that does not say how long it is.                             *)
Readable ==
  {i \in DOMAIN disk : /\ disk[i].kind # "other" /\ disk[i].picked /\ ~disk[i].bad
                       /\ disk[i].len \in MinRecLen..MaxRecLen}
Clean    ==
  \A i \in DOMAIN disk :
     /\ Whole(i) /\ (disk[i].bad => ~disk[i].picked)
     /\ disk[i].kind = "bare" => i = Len(disk) \/ (disk[i + 1].kind # "other" /\ disk[i + 1].version = 2)
Told     == {r.at : r \in Range(returned)}

InOrder  == \A k, l \in DOMAIN returned : k < l => returned[k].at + returned[k].len <= returned[l].at

ReadFrom(m) ==
  LET Offset(i) == PlaceOf(i) - m.from + m.start
      Unmeasured == \E i \in DOMAIN disk : disk[i].kind = "bare"
      InRange(i) == /\ Unmeasured => m.till = Bytes(disk)
                    /\ PlaceOf(i) + disk[i].len <= m.till /\ (m.end > 0 => Offset(i) + disk[i].len <= m.end + 1)
  IN  /\ m.streampos - m.start = m.got - Buffered(m)
      /\ \A at \in Told : \E i \in Readable : Offset(i) = at /\ (disk[i].crc => Whole(i))
      /\ Clean =>
           \A i \in Readable :
             PlaceOf(i) >= m.from /\ (Offset(i) < m.streampos \/ (ret = "ENDOFFILE" /\ InRange(i))) =>
               Offset(i) \in Told

RecordsRead ==
  /\ InOrder
  /\ msfp # <<>> => ReadFrom(msfp)
  /\ ret = "read" /\ Clean =>
       LET Read(j) == j < Len(disk) \/ (disk[j].kind = "record" /\ disk[j].len > MinRecLen)
       IN  Told = {PlaceOf(i) : i \in {j \in Readable : Read(j)}}
=============================================================================
