----------------------------- MODULE Selections -----------------------------
(***************************************************************************)
(* Selections of records by identifier, time and version: selection.c of   *)
(* libmseed.  A character is its code, so that ranges of a set compare     *)
(* them; a time is <<>> when it is not set (NSTUNSET) or could not be read *)
(* (NSTERROR): ms3_matchselect() takes both for an open time.              *)
(*                                                                         *)
(* Patterns, codes and lines fit their buffers, and no pattern ends after  *)
(* "[^", where the matcher reads on past its end.                          *)
(***************************************************************************)
EXTENDS SourceID

CONSTANTS
  Query, Open, Close, Caret, Escape,  \* '?', '[', ']', '^' and '\'
  Comma, LowerA, UpperA,              \* ',', 'a' and 'A'
  Dates,      \* what ms_timestr2nstime() makes of a field, for those it can read
  MaxVersion  \* 255

\* the characters that a pattern has a meaning for are different ones
Signs == <<Star, Query, Open, Close, Caret, Escape, Dash>>
ASSUME GlobAssumption == Signs \in [1..7 -> Nat \ {0}] /\ IsInjective(Signs)

Nul == 0

(* ms_globmatch(): a '*' tries every rest of the string.  That it first    *)
(* skips to the character it needs changes nothing.                        *)
CharAt(s, i) == IF i <= Len(s) THEN s[i] ELSE Nul

\* in a set, from its j-th place on: whether "cc", "c]", "c-c" or "c-]" there
\* has the character, and where that ends; if not the next one starts there
SetLast(pattern, j) == IF CharAt(pattern, j + 1) = Dash THEN j + 2 ELSE j + 1

SetHas(pattern, j, char) ==
  LET first == CharAt(pattern, j)
      last  == CharAt(pattern, SetLast(pattern, j))
      range == CharAt(pattern, j + 1) = Dash
  IN  IF last = Close THEN char = first \/ (range /\ char > first)
      ELSE char \in {first, last} \/ (range /\ char \in first..last)

InSet(pattern, from, char) ==
  LET P(j) == CharAt(pattern, j)
      set[j \in 1..(Len(pattern) + 1)] ==
        LET last == SetLast(pattern, j)
            has  == SetHas(pattern, j, char)
        IN  IF Nul \in {P(j), P(j + 1), P(last)} THEN Error
            ELSE IF has \/ P(last) = Close THEN [error |-> FALSE, has |-> has, at |-> last]
            ELSE set[last]
  IN  set[from]

\* where a pattern goes on after the stars from its j-th place on
AfterStars(pattern, j) ==
  CHOOSE k \in (j + 1)..(Len(pattern) + 1) :
    CharAt(pattern, k) # Star /\ \A l \in j..(k - 1) : CharAt(pattern, l) = Star

\* and after the set at its j-th place, if it has the character: behind the
\* first close from where that was found on
AfterSet(pattern, j, char) ==
  LET negate == CharAt(pattern, j + 1) = Caret
      Behind(set) ==
        {k \in (set.at + 1)..(Len(pattern) + 1) :
           CharAt(pattern, k - 1) = Close /\ \A l \in set.at..(k - 2) : CharAt(pattern, l) # Close}
      After(set) == IF set.error THEN {} ELSE IF set.has = negate THEN {} ELSE Behind(set)
  IN  After(InSet(pattern, IF negate THEN j + 2 ELSE j + 1, char))

\* and after one character, if the j-th place takes it: there is one such place
AfterChar(pattern, j, char) ==
  LET P(k) == CharAt(pattern, k)
      One(c, next) == IF char = c THEN {next} ELSE {}
  IN  CASE P(j) = Query -> {j + 1}
        [] P(j) = Open -> AfterSet(pattern, j, char)
        [] P(j) = Escape /\ P(j + 1) # Nul -> One(P(j + 1), j + 2)
        [] OTHER -> One(P(j), j + 1)

GlobMatch(string, pattern) ==
  LET C(i) == CharAt(string, i)
      P(j) == CharAt(pattern, j)
      match[j \in 1..(Len(pattern) + 1)] ==  \* the pattern from its j-th place on, the string from its i-th
        [i \in 1..(Len(string) + 1) |->
           LET stars == AfterStars(pattern, j)
           IN  IF P(j) = Star THEN P(stars) = Nul \/ \E n \in i..Len(string) : match[stars][n]
               ELSE IF Nul \in {C(i), P(j)} THEN C(i) = P(j)
               ELSE \E next \in AfterChar(pattern, j, C(i)) : match[next][i + 1]]
  IN  match[1][1]

-----------------------------------------------------------------------------
(* ms3_addselect(): a window of a selection that is there already, or a    *)
(* new selection; both come first.                                         *)
Selection(pattern, version, windows) ==
  [sidpattern |-> pattern, pubversion |-> version, timewindows |-> windows]

AddSelect(selections, pattern, start, end, version) ==
  LET window == [start |-> start, end |-> end]
      same == {i \in DOMAIN selections :
               selections[i].sidpattern = pattern /\ selections[i].pubversion = version}
      i == CHOOSE i \in same : \A j \in same : i <= j
  IN  IF same = {} THEN <<Selection(pattern, version, <<window>>)>> \o selections
      ELSE [selections EXCEPT ![i].timewindows = <<window>> \o @]

(* ms3_addselect_comp(): a code that is not given is <<>>, one that is     *)
(* <<code>>.                                                               *)
SeedGlob ==
  LET One == <<Open, Query, Star, LowerA, Dash, LowerA + 25, UpperA, Dash, UpperA + 25,
               Zero, Dash, Zero + 9, Close>>
  IN  One \o One \o One

CompPattern(net, sta, loc, chan) ==
  LET Given(code) == IF code = <<>> THEN <<Star>> ELSE code[1]
      channel == IF chan # <<>> /\ GlobMatch(Given(chan), SeedGlob)
                 THEN SeedChan2XChan(Given(chan)) ELSE Given(chan)
  IN  NSLC2Sid(Given(net), Given(sta), IF loc = <<<<Dash, Dash>>>> THEN <<>> ELSE Given(loc), channel, SidLen)

AddSelectComp(selections, net, sta, loc, chan, start, end, version) ==
  LET sid == CompPattern(net, sta, loc, chan)
  IN  IF sid.error THEN Error
      ELSE [error |-> FALSE, selections |-> AddSelect(selections, sid.sid, start, end, version)]

-----------------------------------------------------------------------------
(* ms3_matchselect(): the first selection with a window that the times     *)
(* meet.  A time that is not set comes before every other.                 *)
AtMost(a, b) == a = <<>> \/ (b # <<>> /\ a[1] <= b[1])

(* Mutant of PassedOver: a record must start in the window.                *)
PassedOver_Straddling(window, start, end) ==
  \/ <<>> \notin {start, window.start} /\ ~AtMost(window.start, start)
  \/ <<>> \notin {end, window.end} /\ ~AtMost(end, window.end) /\ ~AtMost(start, window.end)

PassedOver(window, start, end) ==
  \/ <<>> \notin {start, window.start} /\ ~AtMost(window.start, start) /\ ~AtMost(window.start, end)
  \/ <<>> \notin {end, window.end} /\ ~AtMost(end, window.end) /\ ~AtMost(start, window.end)

MatchSelect(selections, sid, start, end, version) ==
  LET Least(S) == CHOOSE i \in S : \A j \in S : i <= j
      Windows(i) == {j \in DOMAIN selections[i].timewindows :
                     ~PassedOver(selections[i].timewindows[j], start, end)}
      Hits == {i \in DOMAIN selections :
               /\ GlobMatch(sid, selections[i].sidpattern)
               /\ selections[i].pubversion \in {0, version}
               /\ selections[i].timewindows = <<>> \/ Windows(i) # {}}
      Hit(i) == IF selections[i].timewindows = <<>> THEN <<i, 0>> ELSE <<i, Least(Windows(i))>>
      Among(hits) == IF hits = {} THEN <<>> ELSE Hit(Least(hits))
  IN  Among(Hits)

-----------------------------------------------------------------------------
(* ms3_readselectionsfile(): the fields of a line, at most 8 of them.      *)
LineFields(line) ==
  LET Black(f) == f # <<>>
      fields == SelectSeq(StrParse(line, <<Blank>>), Black)
  IN  SubSeq(fields, 1, IF Len(fields) < 8 THEN Len(fields) ELSE 8)

IsDate(field) ==
  LET Digit == <<Open, Zero, Dash, Zero + 9, Close>>
  IN  GlobMatch(field, Digit \o Digit \o Digit \o Digit \o <<Open, Dash, Slash, Comma, Close>> \o Digit \o <<Star>>)

IsInteger(field) == \A i \in DOMAIN field : field[i] \in Zero..(Zero + 9)
Number(field)    == FoldLeft(LAMBDA n, c : 10 * n + c - Zero, 0, field)

(* The reader means to refuse a date that cannot be read, but looks for    *)
(* NSTUNSET where ms_timestr2nstime() returns NSTERROR: the line is taken  *)
(* with an open time.                                                      *)
SelectTime(f, dates, either, or) ==
  LET Read(i) == IF f[i] \in DOMAIN Dates THEN <<Dates[f[i]]>> ELSE <<>>
  IN  IF either \in dates THEN Read(either) ELSE IF or \in dates THEN Read(or) ELSE <<>>

\* the fields f of a line, of which these are dates
ReadFields(selections, f, dates) ==
  LET n == Len(f)
      byID    == \/ n \in 1..3 /\ 2..n \subseteq dates
                 \/ n = 4 /\ {2, 3} \subseteq dates /\ IsInteger(f[4])
      byCodes == ~byID /\ n \in 4..7 /\ 6..n \subseteq dates
      place   == IF byID THEN 4 ELSE 5
      version == IF place <= n /\ IsInteger(f[place]) THEN Number(f[place]) ELSE 0
      start   == SelectTime(f, dates, 2, 6)
      end     == SelectTime(f, dates, 3, 7)
  IN  IF ~byID /\ ~byCodes THEN [error |-> FALSE, selections |-> selections]
      ELSE IF version > MaxVersion THEN Error
      ELSE IF byID THEN [error |-> FALSE, selections |-> AddSelect(selections, f[1], start, end, version)]
      ELSE AddSelectComp(selections, <<f[1]>>, <<f[2]>>, <<f[3]>>, <<f[4]>>, start, end, version)

ReadSelection(selections, line) ==
  LET Read(f) == ReadFields(selections, f, {i \in 2..Len(f) : IsDate(f[i])})
  IN  IF line = <<>> \/ line[1] = Hash THEN [error |-> FALSE, selections |-> selections]
      ELSE Read(LineFields(line))

ReadSelections(lines) ==
  FoldLeft(LAMBDA r, l : IF r.error THEN r ELSE ReadSelection(r.selections, Trim(l)),
           [error |-> FALSE, selections |-> <<>>], lines)

-----------------------------------------------------------------------------
(* A pattern is a sequence of tokens: a string matches when it can be cut  *)
(* into parts that the tokens cover, in order.                             *)
Token(kind, chars) == [kind |-> kind, chars |-> chars]
Pattern(token) ==
  CASE token.kind = "any" -> <<Star>>
    [] token.kind = "one" -> <<Query>>
    [] token.kind = "char" ->
         (IF token.chars[1] \in {Star, Query, Open, Escape} THEN <<Escape>> ELSE <<>>) \o token.chars
    [] token.kind = "set" -> <<Open>> \o token.chars \o <<Close>>
    [] token.kind = "not" -> <<Open, Caret>> \o token.chars \o <<Close>>
    [] token.kind = "range" -> <<Open, token.chars[1], Dash, token.chars[2], Close>>

Takes(token, char) ==
  CASE token.kind = "one" -> TRUE
    [] token.kind \in {"char", "set"} -> char \in Range(token.chars)
    [] token.kind = "not" -> char \notin Range(token.chars)
    [] token.kind = "range" -> char \in token.chars[1]..token.chars[2]

Covers(token, part) == token.kind = "any" \/ (Len(part) = 1 /\ Takes(token, part[1]))

GlobCovers(tokens, string) ==
  LET pattern == FoldLeft(LAMBDA p, t : p \o Pattern(t), <<>>, tokens)
  IN  GlobMatch(string, pattern) <=>
        \E cut \in [0..Len(tokens) -> 0..Len(string)] :
          /\ cut[0] = 0 /\ cut[Len(tokens)] = Len(string)
          /\ \A i \in DOMAIN tokens : cut[i - 1] <= cut[i]
                                      /\ Covers(tokens[i], SubSeq(string, cut[i - 1] + 1, cut[i]))

(* A record is selected if and only if one of the selections that were     *)
(* added has its identifier, its version and a time in common with it,     *)
(* whatever was added before and after.                                    *)
RecordSelected(added, sid, start, end, version) ==
  LET list == FoldLeft(LAMBDA l, a : AddSelect(l, a.pattern, a.start, a.end, a.version), <<>>, added)
      Selects(a) == /\ GlobMatch(sid, a.pattern) /\ a.version \in {0, version}
                    /\ a.start = <<>> \/ a.start[1] <= end
                    /\ a.end = <<>> \/ start <= a.end[1]
      Selecting == {i \in DOMAIN added : Selects(added[i])}
      Right(hit, all) ==
        IF hit = <<>> THEN all = {}
        ELSE LET w == list[hit[1]].timewindows[hit[2]]
             IN  \E i \in all : added[i].start = w.start /\ added[i].end = w.end
  IN  Right(MatchSelect(list, sid, <<start>>, <<end>>, version), Selecting)

\* the line of these fields, read; a channel's line, in either form
ReadLineOf(fields) == ReadSelections(<<FoldLeft(LAMBDA l, f : l \o <<Blank>> \o f, <<>>, fields)>>)
SidOf(codes) == NSLC2Sid(codes[1], codes[2], codes[3], codes[4], SidLen).sid
CodeFields(codes) == <<codes[1], codes[2], IF codes[3] = <<>> THEN <<Dash, Dash>> ELSE codes[3], codes[4]>>
ByCodes(codes, start, end, version) == ReadLineOf(CodeFields(codes) \o <<version, start, end>>)
ByID(codes, start, end, version)    == ReadLineOf(<<SidOf(codes), start, end, version>>)

\* the times before, on and after the dates
Around == UNION {(t - 1)..(t + 1) : t \in Range(Dates)}

(* A line of a selection file selects, in either form, the records of the  *)
(* channel that it names, of its version, that have a time in common with  *)
(* its window, and no other; without dates and version it selects all of   *)
(* the channel.                                                            *)
LineSelects(codes, other, start, end, version) ==
  LET Selected(r, s, e, v) == MatchSelect(r.selections, SidOf(other), <<s>>, <<e>>, v) # <<>>
      Right(byCodes, byID, all) ==
        /\ byCodes = byID /\ ~byID.error /\ ~all.error
        /\ \A s \in Around, e \in Around, v \in {Number(version), 1} :
             s <= e =>
               /\ Selected(byID, s, e, v) <=> /\ SidOf(codes) = SidOf(other)
                                             /\ Number(version) \in {0, v}
                                             /\ s <= Dates[end] /\ Dates[start] <= e
               /\ Selected(all, s, e, v) <=> SidOf(codes) = SidOf(other)
  IN  {start, end} \subseteq DOMAIN Dates /\ Number(version) <= MaxVersion =>
        Right(ByCodes(codes, start, end, version), ByID(codes, start, end, version), ReadLineOf(CodeFields(codes)))

(* A line with a date that ms_timestr2nstime() does not recognize is       *)
(* refused, as the documentation of ms3_readselectionsfile() has it.       *)
RefusesUnread(codes, start, end, version) ==
  {start, end} \subseteq DOMAIN Dates
    \/ (ByCodes(codes, start, end, version).error /\ ByID(codes, start, end, version).error)
=============================================================================
