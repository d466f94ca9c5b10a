------------------------------ MODULE LineEdit ------------------------------
(***************************************************************************)
(* The prompt of the console: linenoise(), its editing keys, completion    *)
(* and history (src/src/linenoise.c), and what runconsole() does with the  *)
(* line that comes back (src/src/dlconsole.c).                             *)
(*                                                                         *)
(* A line is a sequence of characters.  The last entry of the history      *)
(* stands for the line being edited; the others may be edited on the way.  *)
(* Escape sequences arrive whole.  Drawing the line is left out, and so    *)
(* is a terminal that cannot edit, whose lines come from fgets().          *)
(*                                                                         *)
(* linenoiseEdit() stores buflen in its state before it takes one off for  *)
(* the NUL, so that linenoiseEditInsert() fills the array and writes the   *)
(* NUL behind it: past says so.  What the byte there belongs to is not in  *)
(* the model, which reads the NUL back where the code reads it.            *)
(***************************************************************************)
EXTENDS Integers, Sequences

CONSTANTS
  Char, Space,  \* the characters of a line; the one between words
  Offers,       \* completions of a line, by its first character
  BufLen,       \* the size of the line's buffer
  MaxHistory    \* the lengths linenoiseHistorySetMaxLen() may be given: 1..MaxHistory

\* The completions of runconsole() are short.
ASSUME LineAssumption ==
  /\ Space \in Char /\ BufLen \in Nat \ {0} /\ MaxHistory \in Nat \ {0}
  /\ \A c \in DOMAIN Offers : /\ Offers[c] \in Seq(Seq(Char))
                              /\ \A i \in DOMAIN Offers[c] : Len(Offers[c][i]) < BufLen

VARIABLES
  history,   \* oldest line first
  historyMax,
  typing,    \* linenoiseEdit() runs
  buf, pos,  \* the line and the cursor
  index,     \* history_index: 0 is the line being entered, 1 the one before it
  offer,     \* the completion shown, 0 for none
  past       \* this call of linenoise() has written a NUL at buf[BufLen]

linevars == <<history, historyMax, typing, buf, pos, index, offer, past>>

LineInit ==
  /\ history = <<>> /\ historyMax \in 1..MaxHistory /\ typing = FALSE
  /\ buf = <<>> /\ pos = 0 /\ index = 0 /\ offer = 0 /\ past = FALSE

LineIdle == history = <<>> /\ historyMax = 1 /\ typing = FALSE /\ buf = <<>> /\ pos = 0
            /\ index = 0 /\ offer = 0 /\ ~past

(* The characters there is room for: with their NUL, unless one has been   *)
(* written past the array.                                                 *)
MaxChars == IF past THEN BufLen ELSE BufLen - 1

LineTypeOK ==
  /\ history \in Seq(Seq(Char)) /\ Len(history) <= historyMax /\ past \in BOOLEAN
  /\ buf \in Seq(Char) /\ Len(buf) <= MaxChars /\ pos \in 0..Len(buf)
  /\ typing => index \in 0..(Len(history) - 1)

-----------------------------------------------------------------------------
(* linenoiseHistoryAdd(): the oldest line makes room.                      *)
HistoryAdded(h, line) == Append(IF Len(h) = historyMax THEN Tail(h) ELSE h, line)

HistoryAdd(line) == history' = HistoryAdded(history, line)

HistorySetMaxLen ==
  /\ ~typing /\ \E len \in 1..MaxHistory :
       /\ historyMax' = len
       /\ history' = IF len < Len(history)
                     THEN SubSeq(history, Len(history) - len + 1, Len(history)) ELSE history
  /\ UNCHANGED <<typing, buf, pos, index, offer, past>>

(* linenoise(): an empty line, with an entry of its own in the history.    *)
Prompts ==
  /\ ~typing /\ typing' = TRUE /\ buf' = <<>> /\ pos' = 0 /\ index' = 0 /\ offer' = 0
  /\ past' = FALSE /\ HistoryAdd(<<>>) /\ UNCHANGED historyMax

-----------------------------------------------------------------------------
(* The keys that change a line and its cursor.                             *)
Line(b, p) == [buf |-> b, pos |-> p]
Before(l)  == SubSeq(l.buf, 1, l.pos)
After(l)   == SubSeq(l.buf, l.pos + 1, Len(l.buf))

Insert(l, c) ==
  IF Len(l.buf) < BufLen THEN Line(Before(l) \o <<c>> \o After(l), l.pos + 1) ELSE l

MoveLeft(l)  == IF l.pos > 0 THEN Line(l.buf, l.pos - 1) ELSE l
MoveRight(l) == IF l.pos # Len(l.buf) THEN Line(l.buf, l.pos + 1) ELSE l

EditDelete(l) == IF l.pos < Len(l.buf) THEN Line(Before(l) \o Tail(After(l)), l.pos) ELSE l

EditBackspace(l) ==
  IF l.pos > 0 THEN Line(SubSeq(l.buf, 1, l.pos - 1) \o After(l), l.pos - 1) ELSE l

\* the blanks before the cursor, and the word before them
DeletePrevWord(l) ==
  LET p == CHOOSE p \in 0..l.pos :
             \E q \in p..l.pos :
               /\ \A i \in (q + 1)..l.pos : l.buf[i] = Space
               /\ \A i \in (p + 1)..q : l.buf[i] # Space
               /\ q = 0 \/ l.buf[q] # Space
               /\ p = 0 \/ (p < q /\ l.buf[p] = Space)
  IN  Line(SubSeq(l.buf, 1, p) \o After(l), p)

Transpose(l) ==
  IF l.pos > 0 /\ l.pos < Len(l.buf)
  THEN Line([l.buf EXCEPT ![l.pos] = l.buf[l.pos + 1], ![l.pos + 1] = l.buf[l.pos]],
            IF l.pos # Len(l.buf) - 1 THEN l.pos + 1 ELSE l.pos)
  ELSE l

DeleteLine(l) == Line(<<>>, 0)
DeleteRest(l) == Line(Before(l), l.pos)
Home(l)       == Line(l.buf, 0)
End(l)        == Line(l.buf, Len(l.buf))

-----------------------------------------------------------------------------
(* Completion: Tab shows the completions in turn, and after the last one   *)
(* the line itself.  Any key takes what is shown, and is then obeyed; an   *)
(* escape sequence drops it.                                               *)
Completions(b) == IF b # <<>> /\ b[1] \in DOMAIN Offers THEN Offers[b[1]] ELSE <<>>

CompleteLine ==
  /\ typing /\ Completions(buf) # <<>>
  /\ offer' = (offer + 1) % (Len(Completions(buf)) + 1)
  /\ UNCHANGED <<history, historyMax, typing, buf, pos, index, past>>

Shown == IF offer = 0 THEN Line(buf, pos)
         ELSE Line(Completions(buf)[offer], Len(Completions(buf)[offer]))

\* the NUL at the end of the line
Nulled(b) == past' = (past \/ Len(b) >= BufLen)

Key(l) ==
  /\ typing /\ buf' = l.buf /\ pos' = l.pos /\ Nulled(l.buf) /\ offer' = 0
  /\ UNCHANGED <<history, historyMax, typing, index>>

EditKey ==
  \/ \E c \in Char : Key(Insert(Shown, c))
  \/ Key(EditBackspace(Shown)) \/ (Shown.buf # <<>> /\ Key(EditDelete(Shown)))
  \/ Key(DeletePrevWord(Shown)) \/ Key(Transpose(Shown))
  \/ Key(DeleteLine(Shown)) \/ Key(DeleteRest(Shown))
  \/ Key(MoveLeft(Shown)) \/ Key(MoveRight(Shown)) \/ Key(Home(Shown)) \/ Key(End(Shown))

ArrowKey ==
  \/ Key(MoveLeft(Line(buf, pos))) \/ Key(MoveRight(Line(buf, pos))) \/ Key(EditDelete(Line(buf, pos)))

(* linenoiseEditHistoryNext(): the line goes into its entry before another *)
(* is shown, which is cut to leave a place for its NUL.  Mutants of        *)
(* HistoryNext: it does not; strncpy() alone fills the array.              *)
CutToFit(line) == SubSeq(line, 1, IF Len(line) < BufLen THEN Len(line) ELSE BufLen - 1)

HistoryNext_Forgets(dir, l) ==
  /\ typing /\ Len(history) > 1
  /\ LET i == index + dir
     IN  /\ i \in 0..(Len(history) - 1) /\ index' = i
         /\ buf' = CutToFit(history[Len(history) - i]) /\ pos' = Len(buf')
  /\ Nulled(buf') /\ offer' = 0 /\ UNCHANGED <<history, historyMax, typing>>

HistoryNext_Uncut(dir, l) ==
  /\ typing /\ Len(history) > 1
  /\ LET saved == [history EXCEPT ![Len(history) - index] = l.buf]
         i     == index + dir
     IN  /\ history' = saved
         /\ i \in 0..(Len(history) - 1) /\ index' = i
         /\ buf' = saved[Len(saved) - i] /\ pos' = Len(buf')
  /\ Nulled(buf') /\ offer' = 0 /\ UNCHANGED <<historyMax, typing>>

HistoryNext(dir, l) ==
  /\ typing /\ Len(history) > 1
  /\ LET saved == [history EXCEPT ![Len(history) - index] = l.buf]
         i     == index + dir
     IN  /\ history' = saved
         /\ IF i \in 0..(Len(history) - 1)
            THEN index' = i /\ buf' = CutToFit(saved[Len(saved) - i]) /\ pos' = Len(buf')
            ELSE index' = index /\ buf' = l.buf /\ pos' = l.pos
  /\ Nulled(buf') /\ offer' = 0 /\ UNCHANGED <<historyMax, typing>>

HistoryKey == \E dir \in {-1, 1} : HistoryNext(dir, Shown) \/ HistoryNext(dir, Line(buf, pos))

-----------------------------------------------------------------------------
(* Enter: the line's own entry leaves the history.  runconsole() adds the  *)
(* line if it is a command; an empty one repeats the last command.         *)
Enter ==
  /\ typing /\ typing' = FALSE
  /\ LET entered == SubSeq(history, 1, Len(history) - 1)
     IN  \/ history' = entered
         \/ Shown.buf # <<>> /\ history' = HistoryAdded(entered, Shown.buf)
  /\ buf' = <<>> /\ pos' = 0 /\ index' = 0 /\ offer' = 0 /\ past' = FALSE /\ UNCHANGED historyMax

(* Ctrl-D on an empty line; Ctrl-C, the end of the input and a terminal    *)
(* that cannot be read leave the line's entry behind.  What had been typed *)
(* at the end of the input is a line as if it had been entered.            *)
EndOfFile ==
  /\ typing /\ Shown.buf = <<>> /\ typing' = FALSE
  /\ history' = SubSeq(history, 1, Len(history) - 1)
  /\ buf' = <<>> /\ pos' = 0 /\ index' = 0 /\ offer' = 0 /\ past' = FALSE /\ UNCHANGED historyMax

Interrupt ==
  /\ typing /\ typing' = FALSE
  /\ UNCHANGED history \/ (buf # <<>> /\ HistoryAdd(buf))
  /\ buf' = <<>> /\ pos' = 0 /\ index' = 0 /\ offer' = 0 /\ past' = FALSE /\ UNCHANGED historyMax

LineNext ==
  \/ HistorySetMaxLen \/ Prompts \/ CompleteLine \/ EditKey \/ ArrowKey \/ HistoryKey
  \/ Enter \/ EndOfFile \/ Interrupt

LineSpec == LineInit /\ [][LineNext]_linevars

-----------------------------------------------------------------------------
(* A line has room for its characters, and the editor writes past its      *)
(* array in one way only: a character typed into a line that has a single  *)
(* place left takes the place of the NUL, which goes one further.  No      *)
(* line shown from the history, however long, no completion and no other   *)
(* key does it, and no character goes there.                               *)
OverrunByTyping ==
  /\ []LineTypeOK
  /\ [][~past /\ past' =>
          \E c \in Char : /\ Len(Shown.buf) = BufLen - 1 /\ Line(buf', pos') = Insert(Shown, c)
                         /\ Len(buf') = BufLen]_linevars

(* The lines a user can reach with the arrows.                             *)
Reachable(h, i, b) == [h EXCEPT ![Len(h) - i] = b]
Full == \E i \in DOMAIN history : Len(history[i]) >= BufLen

(* Moving through the history loses nothing that was typed, in the line    *)
(* being entered or in one above it: every line is there, as it was left,  *)
(* when the user comes back to it.  A line that fills the whole buffer is  *)
(* cut by its last character, and left out.                                *)
MovesKeepLines ==
  [][typing /\ typing' /\ index' # index /\ offer = 0 /\ ~Full /\ Len(buf) < BufLen
       => Reachable(history', index', buf') = Reachable(history, index, buf)]_linevars
=============================================================================
