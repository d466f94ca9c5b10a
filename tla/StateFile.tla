----------------------------- MODULE StateFile -----------------------------
(***************************************************************************)
(* The state file of libdali: dl_savestate() and dl_recoverstate() of      *)
(* statefile.c, with dl_readline() of genutils.c.                          *)
(*                                                                         *)
(* The content of the file is a sequence of cells: the letters of an       *)
(* address, the digits of a number, SP and NL.  The file is opened without *)
(* truncation and written at its start by one write(), so a save lays its  *)
(* line, or as much of it as was written, over what was there.  Numbers    *)
(* are written in base Base, so that a few packets show every change of    *)
(* length of an ID.                                                        *)
(***************************************************************************)
EXTENDS Naturals, Sequences

CONSTANTS
  Base,     \* the base numbers are written in
  SP, NL    \* the cells of a space and of a newline

ASSUME BaseAssumption == Base \in Nat /\ Base > 1

Digit == 0..(Base - 1)

ASSUME CellAssumption == SP # NL /\ {SP, NL} \cap Digit = {}

NoFile == [exists |-> FALSE, text |-> <<>>]
FileOf(text) == [exists |-> TRUE, text |-> text]

Digits[n \in Nat] ==
  IF n < Base THEN <<n>> ELSE Append(Digits[n \div Base], n % Base)

Value[s \in Seq(Digit)] ==
  IF s = <<>> THEN 0
  ELSE Base * Value[SubSeq(s, 1, Len(s) - 1)] + s[Len(s)]

\* "%s %lld %lld\n"
StateLine(addr, id, time) ==
  addr \o <<SP>> \o Digits[id] \o <<SP>> \o Digits[time] \o <<NL>>

(* Mutant of Overwrite: the line is added at the end of the file.          *)
Overwrite_Appends(text, line, k) == text \o SubSeq(line, 1, k)

\* The first k cells of a line written over a text.
Overwrite(text, line, k) ==
  SubSeq(line, 1, k) \o SubSeq(text, k + 1, Len(text))

(***************************************************************************)
(* Reading.  dl_readline() returns what comes before a newline; a last     *)
(* line without one is an end of file.                                     *)
(***************************************************************************)
LineEnds(text) == {e \in 1..Len(text) : text[e] = NL}

LineEnding(text, e) ==
  LET before == {i \in LineEnds(text) : i < e}
      start  == IF before = {} THEN 1
                ELSE 1 + CHOOSE i \in before : \A j \in before : j <= i
  IN  SubSeq(text, start, e - 1)

Cells(text) == {text[k] : k \in 1..Len(text)}

\* The first position from i on of a cell not in S, or the end of the line.
Past(line, i, S) ==
  CHOOSE j \in i..(Len(line) + 1) :
    /\ \A k \in i..(j - 1) : line[k] \in S
    /\ j <= Len(line) => line[j] \notin S

\* What sscanf() makes of a line: the address, and the numbers that follow,
\* <<>> where the conversion stopped before one, <<v>> otherwise.
Scan(line) ==
  LET a == Past(line, 1, {SP})
      b == Past(line, a, Cells(line) \ {SP})
      c == Past(line, b, {SP})
      d == Past(line, c, Digit)
      e == Past(line, d, {SP})
      f == Past(line, e, Digit)
  IN  [addr |-> SubSeq(line, a, b - 1),
       id   |-> IF c < d THEN <<Value[SubSeq(line, c, d - 1)]>> ELSE <<>>,
       time |-> IF c < d /\ e < f THEN <<Value[SubSeq(line, e, f - 1)]>> ELSE <<>>]

\* Recover takes the first line of the address.  A number its scan did not
\* convert is read from an uninitialised variable: zero, or what the scan of
\* an earlier line left there.
Matching(text, addr) ==
  {e \in LineEnds(text) : Scan(LineEnding(text, e)).addr = addr}

Earliest(text, addr) ==
  CHOOSE i \in Matching(text, addr) : \A j \in Matching(text, addr) : i <= j

\* The scans of the lines before it.
Earlier(text, addr) ==
  {Scan(LineEnding(text, i)) : i \in {j \in LineEnds(text) : j < Earliest(text, addr)}}

\* A number as it was converted, or what the earlier scans left.
Read(v, earlier) ==
  IF v # <<>> THEN {v[1]} ELSE {0} \cup {w[1] : w \in earlier \ {<<>>}}

Recovered(text, addr) ==
  LET s == Scan(LineEnding(text, Earliest(text, addr)))
  IN  IF Matching(text, addr) = {} THEN {}
      ELSE [id   : Read(s.id, {b.id : b \in Earlier(text, addr)}),
            time : Read(s.time, {b.time : b \in Earlier(text, addr)})]
=============================================================================
