---------------------------- MODULE MCSelections ----------------------------
(***************************************************************************)
(* Selections with small arguments, as a part of MCLibrary, and the lines  *)
(* of a selection file on their own.                                       *)
(***************************************************************************)
EXTENDS Selections, LibraryCall

\* characters: a, b and the special ones by their codes
a == 97
b == 98
Strings(chars, lengths) == UNION {[1..n -> chars] : n \in lengths}

(* Globs of up to three tokens, up to two selections, lines of a file      *)
(* that name a channel, with a date that is none among theirs.            *)
Date1 == <<50, 48, 49, 48, 45, 49, 45, 49>>  \* 2010-1-1
Date2 == <<50, 48, 50, 48, 44, 49>>          \* 2020,1
Date3 == <<50, 48, 50, 48, 44, 48>>          \* 2020,0, a day there is not
DatesC == [d \in {Date1, Date2} |-> IF d = Date1 THEN 10 ELSE 20]

Tokens ==
  {Token("any", <<>>), Token("one", <<>>), Token("char", <<a>>), Token("char", <<Star>>),
   Token("set", <<a, b>>), Token("set", <<Close, a>>), Token("set", <<Dash, 99>>),
   Token("not", <<a, 99>>), Token("range", <<a, 99>>)}
Edges == {<<>>, <<3>>, <<6>>}
Adds == [pattern : {<<a>>, <<Star>>}, start : Edges, end : Edges, version : {0, 1}]
Codes == {<<<<a>>, s, l, c>> : s \in {<<a, a>>, <<a>>}, l \in {<<>>, <<a>>},
                               c \in {<<a, a, a>>, <<a, Underscore, a, Underscore, a>>,
                                      <<a, a, Underscore, a, Underscore, a>>}}
LineCalls ==
  call' \in {<<"line", c, d, s, e, v>> : c \in Codes, d \in Codes, s \in {Date1, Date2, Date3},
                                        e \in {Date1, Date2, Date3}, v \in {<<48>>, <<51>>, <<50, 53, 54>>}}
SelectionCalls ==
  \/ call' \in {<<"glob", g, s>> : g \in Strings(Tokens, 0..3),
                                   s \in Strings({a, b, Close, Star}, 0..2) \cup [1..3 -> {a, b}]}
  \/ call' \in {<<"select", l, r>> : l \in Strings(Adds, 1..2),
                                   r \in {<<1, 2>>, <<2, 4>>, <<4, 5>>, <<1, 9>>, <<6, 6>>, <<7, 8>>}}
  \/ LineCalls

(* What selection.c promises of its globs, its lists and the lines that it *)
(* reads, of each call made.                                               *)
SelectionsMatch ==
  /\ Called("glob") => GlobCovers(call[2], call[3])
  /\ Called("select") =>
       \A v \in 0..1, sid \in {<<a>>, <<a, a>>} : RecordSelected(call[2], sid, call[3][1], call[3][2], v)
  /\ Called("line") => LineSelects(call[2], call[3], call[4], call[5], call[6])

(* selection.c:410, 422: a date must be in a form that ms_timestr2nstime() *)
(* recognizes, or the file is refused with -1.  The code takes the line.   *)
UnreadDatesRefused == Called("line") => RefusesUnread(call[2], call[4], call[5], call[6])

LinesNext == (Idle /\ LineCalls) \/ Return

LinesSpec == Idle /\ [][LinesNext]_call
=============================================================================
