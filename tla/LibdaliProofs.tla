---------------------------- MODULE LibdaliProofs ----------------------------
(***************************************************************************)
(* Proofs about libdali's loggers and the times of libdali and libmseed.   *)
(*                                                                         *)
(* Logs, for every size of texts and of the registry and any messages:     *)
(* MessagesKept.  The registry is described by the numbers of its          *)
(* messages, newest first (Logged says what becomes of them while messages *)
(* are logged).                                                            *)
(*                                                                         *)
(* Times, for any lengths of a second, a minute, an hour and a day: a date *)
(* is shown again by the time that is made of it, before the epoch as      *)
(* after it (TimesAgree); in libmseed, also for any number of nanoseconds  *)
(* in a microsecond, what each format shows of a time is read as that      *)
(* time, to the last digit shown (NSTimesAgree).  So TimesRead holds of    *)
(* every call (TimesAreRead).                                              *)
(***************************************************************************)
EXTENDS Logs, TimeCalls, Numbers, FiniteSetTheorems, SequenceTheorems, TLAPS

Text  == Seq(Int)
Entry == [id : Nat, level : Nat, function : Text, message : Text]
Printout == [id : Nat, stream : {"stdout", "stderr"}, text : Text]

(* The log parameters with a registry in order: newest first, no more than *)
(* were counted; prefixes that fit a text, or the default one.             *)
LogState ==
  [maxmessages : Nat, messagecnt : Nat, messages : Seq(Entry), logprefix : Text, errprefix : Text,
   logged : Nat, shown : Seq(Printout)]

Newest(log) ==
  /\ \A i \in 1..Len(log.messages) : log.messages[i].id \in 1..log.logged
  /\ \A i, j \in 1..Len(log.messages) : i < j => log.messages[j].id < log.messages[i].id

Good(log) ==
  /\ log \in LogState /\ Len(log.messages) <= log.messagecnt /\ Newest(log)
  /\ Len(log.logprefix) < MaxText
  /\ log.errprefix = ErrPrefix \/ (log.errprefix # <<>> /\ Len(log.errprefix) < MaxText)

LogsInv == Good(mslog)

(* What log becomes while messages are logged: with a registry they are    *)
(* put before those there were, and the newest stay; without, printed.     *)
Logged(log, next) ==
  LET d == next.logged - log.logged
  IN  /\ next.maxmessages = log.maxmessages /\ d \in Nat
      /\ log.maxmessages = 0 =>
           /\ next.messages = log.messages /\ Len(next.shown) = d
           /\ \A i \in 1..d : next.shown[i].id = log.logged + i
      /\ log.maxmessages > 0 =>
           /\ next.shown = <<>>
           /\ \A i \in 1..Len(next.messages) :
                next.messages[i].id = IF i <= d THEN next.logged + 1 - i ELSE log.messages[i - d].id
           /\ \/ Len(next.messages) = d + Len(log.messages)
              \/ Len(next.messages) = log.maxmessages /\ Len(next.messages) < d + Len(log.messages)
           /\ d > 0 => Len(next.messages) <= log.maxmessages

-----------------------------------------------------------------------------
(* Texts.                                                                  *)
LEMMA CutText ==
  ASSUME NEW s \in Text, NEW n \in Int
  PROVE  Cut(s, n) \in Text
<1> DEFINE m == IF Len(s) < n THEN Len(s) ELSE n - 1
<1>1. Len(s) \in Nat
  BY LenProperties DEF Text
<1>2. m \in Int /\ m <= Len(s)
  BY <1>1
<1> HIDE DEF m
<1>3. \A i \in 1..m : s[i] \in Int
  BY <1>1, <1>2, ElementOfSeq DEF Text
<1>4. SubSeq(s, 1, m) \in Seq(Int)
  BY <1>2, <1>3, SubSeqProperties
<1> QED BY <1>4 DEF Cut, Text, m

LEMMA MessageText ==
  ASSUME NEW log, Good(log), NEW level, NEW text \in Text
  PROVE  Message(log, level, text) \in Text
<1> DEFINE p == IF level >= 2 THEN log.errprefix ELSE log.logprefix
<1>1. p \in Text
  BY DEF Good, LogState
<1> HIDE DEF p
<1>2. p \o text \in Text
  BY <1>1, ConcatProperties DEF Text
<1>3. Cut(p \o text, MaxText) \in Text
  BY <1>2, CutText, LogsAssumption
<1> QED BY <1>3 DEF Message, p

LEMMA ChoppedText ==
  ASSUME NEW s \in Text
  PROVE  Chopped(s) \in Text
<1>1. Len(s) \in Nat /\ \A i \in 1..(Len(s) - 1) : s[i] \in Int
  BY LenProperties, ElementOfSeq DEF Text
<1>2. SubSeq(s, 1, Len(s) - 1) \in Seq(Int)
  BY <1>1, SubSeqProperties
<1> QED BY <1>2 DEF Chopped, Front, Text

-----------------------------------------------------------------------------
(* rlog_int() and what it calls.                                           *)
AddedTo(log, next) ==
  /\ next \in LogState /\ next.logged = log.logged + 1 /\ next.messagecnt = log.messagecnt + 1
  /\ next.maxmessages = log.maxmessages /\ next.shown = log.shown
  /\ next.logprefix = log.logprefix /\ next.errprefix = log.errprefix
  /\ Len(next.messages) =
       IF log.messagecnt + 1 > log.maxmessages /\ log.maxmessages < Len(log.messages) + 1
       THEN log.maxmessages ELSE Len(log.messages) + 1
  /\ \A i \in 1..Len(next.messages) :
       next.messages[i].id = IF i = 1 THEN log.logged + 1 ELSE log.messages[i - 1].id

LEMMA Added ==
  ASSUME NEW log, Good(log), NEW function \in Text, NEW level \in Nat, NEW message \in Text
  PROVE  AddedTo(log, add_message_int([log EXCEPT !.logged = @ + 1], function, level, message))
<1> DEFINE entry == [id |-> log.logged + 1, level |-> level, function |-> Cut(function, MaxName),
                     message |-> message]
           all == <<entry>> \o log.messages
           numbered == [log EXCEPT !.logged = @ + 1]
           grown == [numbered EXCEPT !.messagecnt = @ + 1, !.messages = all]
           n == IF log.maxmessages < Len(all) THEN log.maxmessages ELSE Len(all)
           trimmed == [grown EXCEPT !.messages = SubSeq(all, 1, n)]
           next == add_message_int([log EXCEPT !.logged = @ + 1], function, level, message)
<1>1. /\ log \in LogState /\ log.messages \in Seq(Entry) /\ Len(log.messages) \in Nat
      /\ log.logged \in Nat /\ log.messagecnt \in Nat /\ log.maxmessages \in Nat
  BY LenProperties DEF Good, LogState
<1>2. entry \in Entry /\ entry.id = log.logged + 1
  <2>1. Cut(function, MaxName) \in Text
    BY CutText, LogsAssumption
  <2> QED BY <1>1, <2>1 DEF Entry
<1> HIDE DEF entry
<1>3. /\ all \in Seq(Entry) /\ Len(all) = Len(log.messages) + 1
      /\ all[1] = entry /\ \A i \in 2..Len(all) : all[i] = log.messages[i - 1]
  <2>1. <<entry>> \in Seq(Entry) /\ Len(<<entry>>) = 1 /\ <<entry>>[1] = entry
    BY <1>2
  <2>2. /\ all \in Seq(Entry) /\ Len(all) = Len(<<entry>>) + Len(log.messages)
        /\ \A i \in 1..(Len(<<entry>>) + Len(log.messages)) :
             all[i] = IF i <= Len(<<entry>>) THEN <<entry>>[i] ELSE log.messages[i - Len(<<entry>>)]
    BY <2>1, <1>1, ConcatProperties, Zenon
  <2> HIDE DEF all
  <2> QED BY <1>1, <2>1, <2>2
<1> HIDE DEF all
<1>4. /\ grown \in LogState /\ grown.logged = log.logged + 1 /\ grown.messagecnt = log.messagecnt + 1
      /\ grown.maxmessages = log.maxmessages /\ grown.shown = log.shown /\ grown.messages = all
      /\ grown.logprefix = log.logprefix /\ grown.errprefix = log.errprefix
  <2>1. /\ numbered \in LogState /\ numbered.logged = log.logged + 1 /\ numbered.messagecnt = log.messagecnt
        /\ numbered.maxmessages = log.maxmessages /\ numbered.shown = log.shown
        /\ numbered.logprefix = log.logprefix /\ numbered.errprefix = log.errprefix
    BY <1>1 DEF LogState
  <2> HIDE DEF numbered
  <2>2. numbered.messagecnt + 1 \in Nat
    BY <1>1, <2>1
  <2>3. grown \in LogState
    BY <1>3, <2>1, <2>2 DEF LogState
  <2>4. /\ grown.logged = numbered.logged /\ grown.messagecnt = numbered.messagecnt + 1
        /\ grown.maxmessages = numbered.maxmessages /\ grown.shown = numbered.shown /\ grown.messages = all
        /\ grown.logprefix = numbered.logprefix /\ grown.errprefix = numbered.errprefix
    BY <2>1 DEF LogState
  <2> QED BY <2>1, <2>3, <2>4
<1>5. next = IF grown.messagecnt > grown.maxmessages THEN trimmed ELSE grown
  <2>1. next = Trimmed(grown)
    BY <1>1 DEF add_message_int, all, entry, LogState
  <2> HIDE DEF next, grown
  <2> QED BY <2>1, <1>4 DEF Trimmed
<1> HIDE DEF grown, next
<1>6. CASE grown.messagecnt > grown.maxmessages
  <2>1. n \in Nat /\ n <= Len(all)
    BY <1>1, <1>3
  <2> HIDE DEF n
  <2>2. /\ SubSeq(all, 1, n) \in Seq(Entry) /\ Len(SubSeq(all, 1, n)) = n
        /\ \A i \in 1..n : SubSeq(all, 1, n)[i] = all[i]
    <3>1. \A i \in 1..n : all[i] \in Entry
      BY <1>3, <2>1, ElementOfSeq
    <3> QED BY <2>1, <3>1, SubSeqProperties
  <2>3. /\ trimmed \in LogState /\ trimmed.messages = SubSeq(all, 1, n)
        /\ trimmed.logged = grown.logged /\ trimmed.messagecnt = grown.messagecnt
        /\ trimmed.maxmessages = grown.maxmessages /\ trimmed.shown = grown.shown
        /\ trimmed.logprefix = grown.logprefix /\ trimmed.errprefix = grown.errprefix
    BY <1>4, <2>2 DEF LogState
  <2> HIDE DEF trimmed
  <2>4. next = trimmed
    BY <1>5, <1>6
  <2>5. Len(next.messages) = IF log.messagecnt + 1 > log.maxmessages /\ log.maxmessages < Len(log.messages) + 1
                             THEN log.maxmessages ELSE Len(log.messages) + 1
    BY <1>3, <1>4, <1>6, <2>2, <2>3, <2>4 DEF n
  <2>6. \A i \in 1..Len(next.messages) :
          next.messages[i].id = IF i = 1 THEN log.logged + 1 ELSE log.messages[i - 1].id
    <3>1. next.messages = SubSeq(all, 1, n) /\ Len(next.messages) = n
      BY <2>2, <2>3, <2>4
    <3>2. ASSUME NEW i \in 1..n
          PROVE  SubSeq(all, 1, n)[i].id = IF i = 1 THEN log.logged + 1 ELSE log.messages[i - 1].id
      <4>1. SubSeq(all, 1, n)[i] = all[i] /\ i \in 1..Len(all)
        BY <1>3, <2>1, <2>2
      <4>2. all[i].id = IF i = 1 THEN log.logged + 1 ELSE log.messages[i - 1].id
        BY <1>2, <1>3, <4>1
      <4> QED BY <4>1, <4>2
    <3> QED BY <3>1, <3>2
  <2> QED BY <1>4, <2>3, <2>4, <2>5, <2>6 DEF next, AddedTo
<1>7. CASE ~(grown.messagecnt > grown.maxmessages)
  <2>1. next = grown
    BY <1>5, <1>7
  <2>2. Len(next.messages) = IF log.messagecnt + 1 > log.maxmessages /\ log.maxmessages < Len(log.messages) + 1
                             THEN log.maxmessages ELSE Len(log.messages) + 1
    BY <1>3, <1>4, <1>7, <2>1
  <2>3. \A i \in 1..Len(next.messages) :
          next.messages[i].id = IF i = 1 THEN log.logged + 1 ELSE log.messages[i - 1].id
    BY <1>1, <1>2, <1>3, <1>4, <2>1, SMTT(30)
  <2> QED BY <1>4, <2>1, <2>2, <2>3 DEF next, AddedTo
<1> QED BY <1>6, <1>7

(* A message that is kept.                                                 *)
LEMMA Keeps ==
  ASSUME NEW log, Good(log), NEW function \in Text, NEW level \in Nat, level >= 1, NEW text \in Text,
         log.maxmessages > 0, NEW base, Good(base), Logged(base, log)
  PROVE  Good(rlog_int(log, function, level, text)) /\ Logged(base, rlog_int(log, function, level, text))
<1> DEFINE message == Chopped(Message(log, level, text))
           next == rlog_int(log, function, level, text)
<1>1. message \in Text
  BY MessageText, ChoppedText
<1>2. Message([log EXCEPT !.logged = @ + 1], level, text) = Message(log, level, text)
  BY DEF Message, Good, LogState
<1>3. next = add_message_int([log EXCEPT !.logged = @ + 1], function, level, message)
  BY DEF rlog_int, Good, LogState
<1> HIDE DEF message, next
<1>4. /\ next \in LogState /\ next.logged = log.logged + 1 /\ next.messagecnt = log.messagecnt + 1
      /\ next.maxmessages = log.maxmessages /\ next.shown = log.shown
      /\ next.logprefix = log.logprefix /\ next.errprefix = log.errprefix
      /\ Len(next.messages) =
           IF log.messagecnt + 1 > log.maxmessages /\ log.maxmessages < Len(log.messages) + 1
           THEN log.maxmessages ELSE Len(log.messages) + 1
      /\ \A i \in 1..Len(next.messages) :
           next.messages[i].id = IF i = 1 THEN log.logged + 1 ELSE log.messages[i - 1].id
  <2>1. AddedTo(log, next)
    BY <1>1, <1>3, Added, Zenon
  <2> QED BY <2>1 DEF AddedTo
<1>5. /\ log.messages \in Seq(Entry) /\ Len(log.messages) \in Nat /\ Len(log.messages) <= log.messagecnt
      /\ log.logged \in Nat /\ log.messagecnt \in Nat /\ log.maxmessages \in Nat
      /\ \A i \in 1..Len(log.messages) : log.messages[i].id \in 1..log.logged
      /\ \A i, j \in 1..Len(log.messages) : i < j => log.messages[j].id < log.messages[i].id
  BY LenProperties DEF Good, LogState, Newest
<1>6. Len(next.messages) \in Nat /\ Len(next.messages) <= Len(log.messages) + 1
      /\ Len(next.messages) <= log.maxmessages
  BY <1>4, <1>5
<1>7. Newest(next)
  <2>1. ASSUME NEW i \in 1..Len(next.messages)
        PROVE  next.messages[i].id \in 1..next.logged
    <3>1. CASE i = 1
      BY <1>4, <1>5, <3>1
    <3>2. CASE i # 1
      <4>1. next.messages[i].id = log.messages[i - 1].id /\ i - 1 \in 1..Len(log.messages)
        BY <1>4, <1>6, <1>5, <3>2, SMTT(30)
      <4>2. log.messages[i - 1].id \in 1..log.logged
        BY <1>5, <4>1
      <4> QED BY <1>4, <1>5, <4>1, <4>2
    <3> QED BY <3>1, <3>2
  <2>2. ASSUME NEW i \in 1..Len(next.messages), NEW j \in 1..Len(next.messages), i < j
        PROVE  next.messages[j].id < next.messages[i].id
    <3>1. next.messages[j].id = log.messages[j - 1].id /\ j - 1 \in 1..Len(log.messages)
      BY <1>4, <1>6, <1>5, <2>2
    <3>2. CASE i = 1
      <4>1. next.messages[i].id = log.logged + 1
        BY <1>4, <3>2
      <4>2. log.messages[j - 1].id \in 1..log.logged
        BY <1>5, <3>1
      <4> QED BY <1>5, <3>1, <4>1, <4>2
    <3>3. CASE i # 1
      <4>1. next.messages[i].id = log.messages[i - 1].id /\ i - 1 \in 1..Len(log.messages)
        BY <1>4, <1>6, <1>5, <2>2, <3>3
      <4>2. i - 1 < j - 1
        BY <2>2
      <4> QED BY <1>5, <3>1, <4>1, <4>2
    <3> QED BY <3>2, <3>3
  <2> QED BY <2>1, <2>2, Zenon DEF Newest
<1>8. Good(next)
  BY <1>4, <1>5, <1>6, <1>7 DEF Good
<1>9. Logged(base, next)
  <2> DEFINE d == log.logged - base.logged
             e == next.logged - base.logged
  <2>1. /\ log.maxmessages = base.maxmessages /\ d \in Nat
        /\ log.shown = <<>>
        /\ \A i \in 1..Len(log.messages) :
             log.messages[i].id = IF i <= d THEN log.logged + 1 - i ELSE base.messages[i - d].id
        /\ \/ Len(log.messages) = d + Len(base.messages)
           \/ Len(log.messages) = base.maxmessages /\ Len(log.messages) < d + Len(base.messages)
    BY DEF Logged
  <2>2. e = d + 1 /\ base.logged \in Nat /\ Len(base.messages) \in Nat
    BY <1>4, <1>5, <2>1, LenProperties DEF Good, LogState
  <2> HIDE DEF d, e
  <2>3. ASSUME NEW i \in 1..Len(next.messages)
        PROVE  next.messages[i].id = IF i <= e THEN next.logged + 1 - i ELSE base.messages[i - e].id
    <3>1. CASE i = 1
      BY <1>4, <1>5, <1>6, <2>1, <2>2, <3>1
    <3>2. CASE i # 1
      <4>1. next.messages[i].id = log.messages[i - 1].id /\ i - 1 \in 1..Len(log.messages)
        BY <1>4, <1>6, <1>5, <3>2, SMTT(30)
      <4>2. log.messages[i - 1].id = IF i - 1 <= d THEN log.logged + 1 - (i - 1) ELSE base.messages[i - 1 - d].id
        BY <2>1, <4>1
      <4>3. i - 1 - d = i - e /\ (i - 1 <= d <=> i <= e) /\ log.logged + 1 - (i - 1) = next.logged + 1 - i
        <5>1. i \in Int
          OBVIOUS
        <5>2. next.logged = log.logged + 1 /\ log.logged \in Int
          BY <1>4, <1>5
        <5>3. d \in Nat /\ e = d + 1
          BY <2>1, <2>2
        <5> QED BY <5>1, <5>2, <5>3
      <4> QED BY <4>1, <4>2, <4>3
    <3> QED BY <3>1, <3>2
  <2>4. \/ Len(next.messages) = e + Len(base.messages)
        \/ Len(next.messages) = base.maxmessages /\ Len(next.messages) < e + Len(base.messages)
    <3> DEFINE m == Len(next.messages)
               l == Len(log.messages)
               b == Len(base.messages)
    <3>1. m = IF log.messagecnt + 1 > log.maxmessages /\ log.maxmessages < l + 1
              THEN log.maxmessages ELSE l + 1
      BY <1>4
    <3>2. l = d + b \/ (l = log.maxmessages /\ l < d + b)
      BY <2>1
    <3>3. l \in Nat /\ b \in Nat /\ l <= log.messagecnt /\ log.messagecnt \in Nat /\ log.maxmessages \in Nat
          /\ d \in Nat /\ log.maxmessages = base.maxmessages /\ e = d + 1
      BY <1>5, <2>1, <2>2
    <3> HIDE DEF m, l, b
    <3>4. m = e + b \/ (m = base.maxmessages /\ m < e + b)
      BY <3>1, <3>2, <3>3
    <3> QED BY <3>4 DEF m, b
  <2>5. next.maxmessages = base.maxmessages /\ e \in Nat /\ base.maxmessages > 0 /\ next.shown = <<>>
        /\ Len(next.messages) <= base.maxmessages
    BY <1>4, <1>6, <2>1, <2>2
  <2> QED BY <1>5, <2>1, <2>3, <2>4, <2>5 DEF Logged, e
<1> QED BY <1>8, <1>9 DEF next

(* A message that is printed.                                              *)
PrintedTo(log, next) ==
  /\ Good(next) /\ next.messages = log.messages /\ next.maxmessages = log.maxmessages
  /\ next.logged = log.logged + 1
  /\ \E p \in Printout : p.id = log.logged + 1 /\ next.shown = Append(log.shown, p)

LEMMA Prints ==
  ASSUME NEW log, Good(log), NEW function \in Text, NEW level \in Nat, NEW text \in Text,
         ~(level >= 1 /\ log.maxmessages > 0)
  PROVE  PrintedTo(log, rlog_int(log, function, level, text))
<1> DEFINE numbered == [log EXCEPT !.logged = @ + 1]
           p == Printed(level, log.logged + 1, Message(log, level, text))
           next == [numbered EXCEPT !.shown = Append(@, p)]
<1>1. /\ log \in LogState /\ log.logged \in Nat /\ log.shown \in Seq(Printout)
  BY DEF Good, LogState
<1>2. p \in Printout /\ p.id = log.logged + 1
  BY <1>1, MessageText DEF Printed, Printout, Stream
<1>3. numbered.logged = log.logged + 1
  BY <1>1 DEF LogState
<1>4. rlog_int(log, function, level, text) = next
  BY <1>3 DEF rlog_int
<1> HIDE DEF p
<1>5. Append(log.shown, p) \in Seq(Printout)
  BY <1>1, <1>2, AppendProperties
<1>6. /\ numbered \in LogState /\ numbered.messages = log.messages /\ numbered.maxmessages = log.maxmessages
      /\ numbered.messagecnt = log.messagecnt /\ numbered.shown = log.shown
      /\ numbered.logprefix = log.logprefix /\ numbered.errprefix = log.errprefix
  BY <1>1 DEF LogState
<1> HIDE DEF numbered
<1>7. /\ next \in LogState /\ next.messages = log.messages /\ next.maxmessages = log.maxmessages
      /\ next.messagecnt = log.messagecnt /\ next.shown = Append(log.shown, p)
      /\ next.logprefix = log.logprefix /\ next.errprefix = log.errprefix /\ next.logged = log.logged + 1
  BY <1>3, <1>5, <1>6 DEF LogState
<1> HIDE DEF next
<1>8. Newest(next)
  <2>1. \A i \in 1..Len(log.messages) : log.messages[i].id \in 1..(log.logged + 1)
    BY <1>1 DEF Good, Newest
  <2>2. \A i, j \in 1..Len(log.messages) : i < j => log.messages[j].id < log.messages[i].id
    BY Zenon DEF Good, Newest
  <2> QED BY <1>7, <2>1, <2>2, Zenon DEF Newest
<1>9. Good(next)
  BY <1>7, <1>8, Zenon DEF Good
<1> QED BY <1>2, <1>4, <1>7, <1>9, Zenon DEF PrintedTo

(* rloginit_int() complains of a prefix, or takes it.                      *)
LEMMA Complains ==
  ASSUME NEW log, Good(log), NEW base, Good(base), Logged(base, log)
  PROVE  LET next == rlog_int(log, RLogInit, 2, TooLarge)
         IN  Good(next) /\ Logged(base, next)
<1> DEFINE next == rlog_int(log, RLogInit, 2, TooLarge)
<1>1. RLogInit \in Text /\ TooLarge \in Text /\ 2 \in Nat /\ 2 >= 1
  BY LogsAssumption DEF Text
<1>2. log.maxmessages \in Nat /\ log.maxmessages = base.maxmessages /\ log.logged \in Nat /\ base.logged \in Nat
  BY DEF Good, LogState, Logged
<1>3. CASE log.maxmessages > 0
  BY <1>1, <1>3, Keeps, Zenon
<1>4. CASE ~(log.maxmessages > 0)
  <2>1. PrintedTo(log, next)
    BY <1>1, <1>4, Prints, Zenon
  <2> HIDE DEF next
  <2>2. PICK p \in Printout : p.id = log.logged + 1 /\ next.shown = Append(log.shown, p)
    BY <2>1 DEF PrintedTo
  <2> DEFINE d == log.logged - base.logged
             e == next.logged - base.logged
  <2>3. /\ d \in Nat /\ e = d + 1 /\ log.messages = base.messages /\ Len(log.shown) = d
        /\ \A i \in 1..d : log.shown[i].id = base.logged + i
        /\ next.messages = log.messages /\ next.maxmessages = base.maxmessages
    BY <1>2, <1>4, <2>1 DEF Logged, PrintedTo
  <2>4. p.id = base.logged + e
    BY <1>2, <2>2, <2>3
  <2> HIDE DEF d, e
  <2>5. log.shown \in Seq(Printout)
    BY DEF Good, LogState
  <2>6. Len(next.shown) = e /\ \A i \in 1..e : next.shown[i].id = base.logged + i
    BY <2>2, <2>3, <2>4, <2>5, AppendProperties
  <2>7. Logged(base, next)
    BY <1>2, <1>4, <2>3, <2>6 DEF Logged, e
  <2> QED BY <2>1, <2>7 DEF PrintedTo, next
<1> QED BY <1>3, <1>4

LEMMA TakesPrefix ==
  ASSUME NEW log, Good(log), NEW base, Good(base), Logged(base, log), NEW field \in {"logprefix", "errprefix"},
         NEW prefix \in Text, prefix # <<>>
  PROVE  Good(Prefixed(log, field, prefix)) /\ Logged(base, Prefixed(log, field, prefix))
<1> DEFINE next == [log EXCEPT ![field] = prefix]
<1>1. CASE Len(prefix) >= MaxText
  <2>1. Prefixed(log, field, prefix) = rlog_int(log, RLogInit, 2, TooLarge)
    BY <1>1 DEF Prefixed
  <2> QED BY <2>1, Complains
<1>2. CASE ~(Len(prefix) >= MaxText)
  <2>1. Prefixed(log, field, prefix) = next
    BY <1>2 DEF Prefixed
  <2>2. Len(prefix) < MaxText
    BY <1>2, LogsAssumption, LenProperties DEF Text
  <2>3. log \in LogState
    BY DEF Good
  <2>4. /\ next \in LogState /\ next.messages = log.messages /\ next.maxmessages = log.maxmessages
        /\ next.messagecnt = log.messagecnt /\ next.shown = log.shown /\ next.logged = log.logged
        /\ next.logprefix = log.logprefix \/ next.logprefix = prefix
        /\ next.errprefix = log.errprefix \/ next.errprefix = prefix
    <3>1. CASE field = "logprefix"
      BY <2>3, <3>1 DEF LogState
    <3>2. CASE field = "errprefix"
      BY <2>3, <3>2 DEF LogState
    <3> QED BY <3>1, <3>2
  <2> HIDE DEF next
  <2>5. Newest(next)
    BY <2>4, Zenon DEF Good, Newest
  <2>6. Good(next)
    BY <2>2, <2>4, <2>5, Zenon DEF Good
  <2>7. Logged(base, next)
    BY <2>4 DEF Logged
  <2> QED BY <2>1, <2>6, <2>7
<1> QED BY <1>1, <1>2

(* A call starts with nothing shown.                                       *)
LEMMA Starts ==
  ASSUME LogsInv
  PROVE  /\ Good(Quiet) /\ Logged(Quiet, Quiet)
         /\ Quiet.messages = mslog.messages /\ Quiet.logged = mslog.logged
         /\ Quiet.maxmessages = mslog.maxmessages /\ Quiet.shown = <<>>
<1>1. mslog \in LogState /\ <<>> \in Seq(Printout)
  BY DEF LogsInv, Good
<1>2. /\ Quiet \in LogState /\ Quiet.messages = mslog.messages /\ Quiet.logged = mslog.logged
      /\ Quiet.maxmessages = mslog.maxmessages /\ Quiet.shown = <<>> /\ Quiet.messagecnt = mslog.messagecnt
      /\ Quiet.logprefix = mslog.logprefix /\ Quiet.errprefix = mslog.errprefix
  BY <1>1 DEF Quiet, LogState
<1>3. Newest(Quiet)
  BY <1>2, Zenon DEF LogsInv, Good, Newest
<1>4. Good(Quiet)
  BY <1>2, <1>3, Zenon DEF LogsInv, Good
<1>5. /\ Len(Quiet.messages) \in Nat /\ Quiet.logged \in Nat /\ Quiet.maxmessages \in Nat
  BY <1>2, LenProperties DEF LogState
<1>6. Logged(Quiet, Quiet)
  BY <1>2, <1>5 DEF Logged
<1> QED BY <1>2, <1>4, <1>6

(* rloginit_int(): what is logged are the complaints of the prefixes.      *)
InitializedTo(log, next) ==
  /\ Good(next)
  /\ \E logged : /\ Logged(log, logged) /\ Good(logged) /\ next.messages = logged.messages
                 /\ next.shown = logged.shown /\ next.logged = logged.logged

LEMMA Initialized ==
  ASSUME NEW log, Good(log), Logged(log, log), NEW p \in LogPrefixes, NEW max \in Int
  PROVE  InitializedTo(log, rloginit_int(log, p[1], p[2], max))
<1> DEFINE l == IF p[1] = <<>> THEN log ELSE Prefixed(log, "logprefix", p[1])
           e == IF p[2] = <<>> THEN l ELSE Prefixed(l, "errprefix", p[2])
           next == IF max >= 0 THEN [e EXCEPT !.maxmessages = max] ELSE e
<1>1. p[1] \in Text /\ p[2] \in Text
  BY LogsAssumption DEF Text
<1>2. Good(l) /\ Logged(log, l)
  BY <1>1, TakesPrefix
<1> HIDE DEF l
<1>3. Good(e) /\ Logged(log, e)
  BY <1>1, <1>2, TakesPrefix
<1> HIDE DEF e
<1>4. e \in LogState
  BY <1>3 DEF Good
<1>5. /\ next \in LogState /\ next.messages = e.messages /\ next.messagecnt = e.messagecnt
      /\ next.shown = e.shown /\ next.logged = e.logged
      /\ next.logprefix = e.logprefix /\ next.errprefix = e.errprefix
  BY <1>4 DEF LogState
<1>6. rloginit_int(log, p[1], p[2], max) = next
  BY DEF rloginit_int, e, l
<1> HIDE DEF next
<1>7. Newest(next)
  BY <1>3, <1>5, Zenon DEF Good, Newest
<1>8. Good(next)
  BY <1>3, <1>5, <1>7, Zenon DEF Good
<1> QED BY <1>3, <1>5, <1>6, <1>8, Zenon DEF InitializedTo

(* rlog_emit(): the newest n messages, or all, leave and are printed.      *)
EmittedFrom(log, next, n) ==
  /\ Good(next) /\ n \in 0..Len(log.messages) /\ next.logged = log.logged
  /\ Len(next.messages) = Len(log.messages) - n /\ Len(next.shown) = n
  /\ \A i \in 1..Len(next.messages) : next.messages[i] = log.messages[n + i]
  /\ \A i \in 1..n : next.shown[i].id = log.messages[n + 1 - i].id

LEMMA Emits ==
  ASSUME NEW log, Good(log), log.shown = <<>>, NEW count \in Nat, NEW context \in BOOLEAN
  PROVE  \E n \in Nat : EmittedFrom(log, rlog_emit(log, count, context), n)
<1> DEFINE n == IF count > 0 /\ count < Len(log.messages) THEN count ELSE Len(log.messages)
           Show(m) == IF context /\ m.function # <<>>
                      THEN m.function \o Parens \o Cut(m.message, MaxText - MaxName - Len(Parens) + 1)
                      ELSE m.message
           Shows(m) == Printed(m.level, m.id, Show(m) \o <<EndOfLine>>)
           shown == [i \in 1..n |-> Shows(log.messages[n + 1 - i])]
           left == SubSeq(log.messages, n + 1, Len(log.messages))
           next == [log EXCEPT !.messages = left, !.shown = @ \o shown]
<1>1. /\ log \in LogState /\ log.messages \in Seq(Entry) /\ Len(log.messages) \in Nat
      /\ \A i \in 1..Len(log.messages) : log.messages[i] \in Entry
  BY LenProperties, ElementOfSeq DEF Good, LogState
<1>2. n \in Nat /\ n <= Len(log.messages)
  BY <1>1
<1>3. rlog_emit(log, count, context) = next
  BY Zenon DEF rlog_emit
<1> HIDE DEF n
<1>4. /\ left \in Seq(Entry) /\ Len(left) = Len(log.messages) - n
      /\ \A i \in 1..Len(left) : left[i] = log.messages[n + i]
  <2>1. \A i \in (n + 1)..Len(log.messages) : log.messages[i] \in Entry
    BY <1>1, <1>2
  <2>2. /\ left \in Seq(Entry)
        /\ Len(left) = IF n + 1 <= Len(log.messages) THEN Len(log.messages) - (n + 1) + 1 ELSE 0
        /\ \A i \in 1..(Len(log.messages) - (n + 1) + 1) : left[i] = log.messages[n + 1 + i - 1]
    BY <1>1, <1>2, <2>1, SubSeqProperties
  <2> HIDE DEF left
  <2> QED BY <1>1, <1>2, <2>2
<1>5. ASSUME NEW m \in Entry
      PROVE  Shows(m) \in Printout /\ Shows(m).id = m.id
  <2>1. m.message \in Text /\ m.function \in Text /\ m.id \in Nat /\ m.level \in Nat
    BY DEF Entry
  <2>2. /\ Parens \in Text /\ <<EndOfLine>> \in Text /\ Len(Parens) \in Nat
        /\ MaxText - MaxName - Len(Parens) + 1 \in Int
    BY LogsAssumption, LenProperties DEF Text
  <2>3. Cut(m.message, MaxText - MaxName - Len(Parens) + 1) \in Text
    BY <2>1, <2>2, CutText
  <2>4. m.function \o Parens \o Cut(m.message, MaxText - MaxName - Len(Parens) + 1) \in Text
    BY <2>1, <2>2, <2>3, ConcatProperties, Zenon DEF Text
  <2>5. Show(m) \in Text
    BY <2>1, <2>4
  <2> HIDE DEF Show
  <2>6. Show(m) \o <<EndOfLine>> \in Text
    BY <2>2, <2>5, ConcatProperties, Zenon DEF Text
  <2> QED BY <2>1, <2>6 DEF Printed, Printout, Stream
<1> HIDE DEF Shows
<1>6. shown \in Seq(Printout) /\ Len(shown) = n /\ \A i \in 1..n : shown[i].id = log.messages[n + 1 - i].id
  <2>1. \A i \in 1..n : n + 1 - i \in 1..Len(log.messages)
    BY <1>1, <1>2
  <2>2. \A i \in 1..n : /\ Shows(log.messages[n + 1 - i]) \in Printout
                        /\ Shows(log.messages[n + 1 - i]).id = log.messages[n + 1 - i].id
    BY <1>1, <1>5, <2>1, Zenon
  <2> QED BY <1>2, <2>2, IsASeq
<1> HIDE DEF left, shown
<1>7. log.shown \o shown = shown
  BY <1>6, ConcatEmptySeq
<1>8. /\ next \in LogState /\ next.messages = left /\ next.shown = shown /\ next.logged = log.logged
      /\ next.messagecnt = log.messagecnt /\ next.logprefix = log.logprefix /\ next.errprefix = log.errprefix
  BY <1>1, <1>4, <1>6, <1>7 DEF LogState
<1> HIDE DEF next
<1>9. Newest(next)
  <2>1. \A i \in 1..Len(log.messages) : log.messages[i].id \in 1..log.logged
    BY Zenon DEF Good, Newest
  <2>2. \A i, j \in 1..Len(log.messages) : i < j => log.messages[j].id < log.messages[i].id
    BY Zenon DEF Good, Newest
  <2>3. \A i \in 1..Len(left) : left[i] = log.messages[n + i] /\ n + i \in 1..Len(log.messages)
    BY <1>1, <1>2, <1>4
  <2>4. \A i \in 1..Len(left) : left[i].id \in 1..log.logged
    BY <2>1, <2>3
  <2>5. ASSUME NEW i \in 1..Len(left), NEW j \in 1..Len(left), i < j
        PROVE  left[j].id < left[i].id
    <3>1. n + i < n + j /\ n + i \in 1..Len(log.messages) /\ n + j \in 1..Len(log.messages)
      BY <1>2, <2>3, <2>5
    <3>2. log.messages[n + j].id < log.messages[n + i].id
      BY <2>2, <3>1
    <3> QED BY <2>3, <3>2
  <2> QED BY <1>8, <2>4, <2>5, Zenon DEF Newest
<1>10. Good(next)
  <2>1. Len(log.messages) <= log.messagecnt /\ log.messagecnt \in Nat
    BY DEF Good, LogState
  <2>2. Len(next.messages) <= next.messagecnt
    BY <1>1, <1>2, <1>4, <1>8, <2>1
  <2> QED BY <1>8, <1>9, <2>2, Zenon DEF Good
<1>11. n \in 0..Len(log.messages)
  BY <1>1, <1>2
<1>12. EmittedFrom(log, next, n)
  BY <1>4, <1>6, <1>8, <1>10, <1>11, Zenon DEF EmittedFrom
<1> QED BY <1>2, <1>3, <1>12, Zenon

-----------------------------------------------------------------------------
(* What a step does to the messages, by their numbers.                     *)
Kept(log)  == {log.messages[i].id : i \in 1..Len(log.messages)}
Shown(log) == {log.shown[i].id : i \in 1..Len(log.shown)}
New(log, next)  == (log.logged + 1)..next.logged
Lost(log, next) == (Kept(log) \cup New(log, next)) \ (Kept(next) \cup Shown(next))

StepKeeps(log, next) ==
  /\ \A i, j \in 1..Len(next.shown) : i < j => next.shown[i].id < next.shown[j].id
  /\ \A k \in Kept(next), s \in Shown(next) : k < s
  /\ \/ Lost(log, next) = {} \/ Kept(next) \cup Shown(next) \cup New(log, next) = {}
     \/ /\ Cardinality(Kept(next)) = log.maxmessages
        /\ \A l \in Lost(log, next), k \in Kept(next) : l < k
  /\ Kept(next) \cap New(log, next) # {} => Cardinality(Kept(next)) <= log.maxmessages

LEMMA Counted ==
  ASSUME NEW log, Good(log)
  PROVE  Cardinality(Kept(log)) = Len(log.messages)
<1> DEFINE n == Len(log.messages)
           f == [i \in 1..n |-> log.messages[i].id]
<1>1. n \in Nat /\ \A i, j \in 1..n : i < j => log.messages[j].id < log.messages[i].id
  BY LenProperties DEF Good, LogState, Newest
<1>2. \A i \in 1..n : log.messages[i].id \in Nat
  BY DEF Good, Newest
<1>3. f \in Bijection(1..n, Kept(log))
  <2>1. f \in [1..n -> Kept(log)] /\ \A k \in Kept(log) : \E i \in 1..n : f[i] = k
    BY DEF Kept
  <2>2. ASSUME NEW i \in 1..n, NEW j \in 1..n, f[i] = f[j]
        PROVE  i = j
    BY <1>1, <1>2, <2>2
  <2> HIDE DEF f
  <2> QED BY <2>1, <2>2 DEF Bijection, Injection, Surjection, IsInjective
<1> HIDE DEF n, f
<1>4. ExistsBijection(1..n, Kept(log))
  BY <1>3 DEF ExistsBijection
<1> QED BY <1>1, <1>4, FS_CountingElements DEF n

(* Messages that are logged: in their order, they and those there were are *)
(* numbered At(1), At(2)...                                                *)
LEMMA LoggedStep ==
  ASSUME NEW log, Good(log), NEW next, Good(next), Logged(log, next)
  PROVE  StepKeeps(log, next)
<1> DEFINE d == next.logged - log.logged
           n == Len(next.messages)
           m == Len(log.messages)
<1>1. /\ log.logged \in Nat /\ next.logged \in Nat /\ log.maxmessages \in Nat /\ d \in Nat
      /\ n \in Nat /\ m \in Nat
      /\ \A i \in 1..m : log.messages[i].id \in 1..log.logged
      /\ \A i, j \in 1..m : i < j => log.messages[j].id < log.messages[i].id
  BY LenProperties DEF Good, LogState, Newest, Logged
<1>2. next.logged = log.logged + d
  BY <1>1
<1>3. Cardinality(Kept(next)) = n
  BY Counted
<1>4. CASE log.maxmessages = 0
  <2>1. /\ next.messages = log.messages /\ Len(next.shown) = d
        /\ \A i \in 1..d : next.shown[i].id = log.logged + i
    BY <1>4, Zenon DEF Logged
  <2> HIDE DEF d, n
  <2>2. Kept(next) = Kept(log) /\ Shown(next) = New(log, next)
    <3>1. Kept(next) = Kept(log)
      BY <2>1 DEF Kept
    <3>2. \A x \in Shown(next) : x \in New(log, next)
      BY <1>1, <1>2, <2>1 DEF Shown, New
    <3>3. ASSUME NEW x \in New(log, next)
          PROVE  x \in Shown(next)
      <4>1. x - log.logged \in 1..d /\ x = log.logged + (x - log.logged)
        BY <1>1, <1>2 DEF New
      <4>2. x = next.shown[x - log.logged].id
        BY <2>1, <4>1
      <4> QED BY <2>1, <4>1, <4>2 DEF Shown
    <3> QED BY <3>1, <3>2, <3>3
  <2>3. Lost(log, next) = {}
    BY <2>2 DEF Lost
  <2>4. \A k \in Kept(next) : k \in 1..log.logged
    BY <1>1, <2>2 DEF Kept
  <2>5. \A x \in New(log, next) : x \in Nat /\ x > log.logged
    BY <1>1 DEF New
  <2>6. \A k \in Kept(next), x \in Shown(next) : k < x
    BY <1>1, <2>2, <2>4, <2>5
  <2>7. Kept(next) \cap New(log, next) = {}
    BY <1>1, <2>4, <2>5
  <2>8. \A i, j \in 1..Len(next.shown) : i < j => next.shown[i].id < next.shown[j].id
    BY <1>1, <2>1
  <2> QED BY <2>3, <2>6, <2>7, <2>8, Zenon DEF StepKeeps
<1>5. CASE log.maxmessages # 0
  <2> DEFINE At(i) == IF i <= d THEN next.logged + 1 - i ELSE log.messages[i - d].id
  <2>1. /\ next.shown = <<>> /\ \A i \in 1..n : next.messages[i].id = At(i)
        /\ n = d + m \/ (n = log.maxmessages /\ n < d + m)
        /\ d > 0 => n <= log.maxmessages
    BY <1>1, <1>5 DEF Logged
  <2>2. Shown(next) = {}
    BY <2>1 DEF Shown
  <2>3. ASSUME NEW i \in 1..(d + m), NEW j \in 1..(d + m), i < j
        PROVE  At(j) < At(i)
    <3>1. CASE j <= d
      BY <1>1, <2>3, <3>1
    <3>2. CASE j > d /\ i <= d
      <4>1. j - d \in 1..m
        BY <1>1, <2>3, <3>2
      <4>2. log.messages[j - d].id \in 1..log.logged
        BY <1>1, <4>1
      <4>3. At(i) = next.logged + 1 - i /\ At(j) = log.messages[j - d].id
        BY <1>1, <3>2
      <4> HIDE DEF At, d
      <4>4. PICK y \in 1..log.logged : At(j) = y
        BY <4>2, <4>3
      <4> QED BY <1>1, <1>2, <3>2, <4>3, <4>4
    <3>3. CASE i > d
      <4>1. j - d \in 1..m /\ i - d \in 1..m /\ i - d < j - d
        BY <1>1, <2>3, <3>3
      <4>2. At(i) = log.messages[i - d].id /\ At(j) = log.messages[j - d].id
        BY <1>1, <2>3, <3>3
      <4> QED BY <1>1, <4>1, <4>2
    <3> QED BY <1>1, <2>3, <3>1, <3>2, <3>3
  <2>4. ASSUME NEW x \in Kept(log) \cup New(log, next)
        PROVE  \E i \in 1..(d + m) : x = At(i)
    <3>1. CASE x \in New(log, next)
      <4>0. x \in Int /\ log.logged + 1 <= x /\ x <= next.logged
        BY <1>1, <3>1 DEF New
      <4>1. next.logged + 1 - x \in 1..d /\ x = next.logged + 1 - (next.logged + 1 - x)
        BY <1>1, <4>0
      <4>2. x = At(next.logged + 1 - x) /\ next.logged + 1 - x \in 1..(d + m)
        BY <1>1, <4>1
      <4> QED BY <4>2
    <3>2. CASE x \in Kept(log)
      <4>1. PICK j \in 1..m : x = log.messages[j].id
        BY <3>2 DEF Kept
      <4>2. d + j \in 1..(d + m) /\ ~(d + j <= d) /\ d + j - d = j
        <5>1. d \in Nat /\ m \in Nat
          BY <1>1
        <5> HIDE DEF d, m, At
        <5> QED BY <5>1
      <4>3. PICK i \in 1..(d + m) : i = d + j
        BY <4>2
      <4>4. ~(i <= d) /\ i - d = j
        BY <1>1, <4>1, <4>3
      <4>5. x = At(i)
        BY <4>1, <4>4
      <4> QED BY <4>5
    <3> QED BY <3>1, <3>2
  <2> HIDE DEF At, d, n, m
  <2>5. \A i \in 1..n : i \in 1..(d + m) /\ At(i) \in Kept(next)
    BY <1>1, <2>1 DEF Kept, n
  <2>6. ASSUME NEW k \in Kept(next)
        PROVE  \E i \in 1..n : k = At(i)
    BY <2>1 DEF Kept, n
  <2>7. CASE n = d + m
    <3>1. Lost(log, next) = {}
      BY <2>4, <2>5, <2>7 DEF Lost
    <3>2. Kept(next) \cap New(log, next) # {} => Cardinality(Kept(next)) <= log.maxmessages
      <4>1. New(log, next) # {} => d > 0
        BY <1>1, <1>2 DEF New
      <4> QED BY <1>3, <2>1, <4>1
    <3>3. Len(next.shown) = 0
      BY <2>1
    <3> QED BY <2>2, <3>1, <3>2, <3>3 DEF StepKeeps
  <2>8. CASE n = log.maxmessages
    <3>1. ASSUME NEW l \in Lost(log, next), NEW k \in Kept(next)
          PROVE  l < k
      <4>1. PICK i \in 1..n : k = At(i)
        BY <2>6
      <4>2. PICK j \in 1..(d + m) : l = At(j)
        BY <2>4 DEF Lost
      <4>3. ~(j \in 1..n)
        BY <2>5, <4>2 DEF Lost
      <4>4. i < j /\ i \in 1..(d + m)
        BY <1>1, <2>5, <4>1, <4>2, <4>3
      <4> QED BY <2>3, <4>1, <4>2, <4>4
    <3>2. Len(next.shown) = 0 /\ Cardinality(Kept(next)) <= log.maxmessages
      BY <1>1, <1>3, <2>1, <2>8
    <3> QED BY <1>3, <2>2, <2>8, <3>1, <3>2 DEF StepKeeps
  <2> QED BY <2>1, <2>7, <2>8
<1> QED BY <1>4, <1>5

LEMMA PrintedStep ==
  ASSUME NEW log, Good(log), log.shown = <<>>, NEW next, PrintedTo(log, next)
  PROVE  StepKeeps(log, next)
<1>1. PICK p \in Printout : p.id = log.logged + 1 /\ next.shown = Append(log.shown, p)
  BY DEF PrintedTo
<1>2. next.messages = log.messages /\ next.logged = log.logged + 1 /\ log.logged \in Nat
  BY DEF PrintedTo, Good, LogState
<1>3. Len(next.shown) = 1 /\ next.shown[1] = p
  BY <1>1
<1>4. Shown(next) = {log.logged + 1} /\ New(log, next) = {log.logged + 1} /\ Kept(next) = Kept(log)
  BY <1>1, <1>2, <1>3 DEF Shown, New, Kept
<1>5. \A k \in Kept(next) : k \in 1..log.logged
  BY <1>4 DEF Kept, Good, Newest
<1>6. Lost(log, next) = {}
  BY <1>4 DEF Lost
<1>7. Kept(next) \cap New(log, next) = {} /\ \A k \in Kept(next), x \in Shown(next) : k < x
  BY <1>2, <1>4, <1>5
<1>8. \A i, j \in 1..Len(next.shown) : i < j => next.shown[i].id < next.shown[j].id
  BY <1>3
<1> QED BY <1>6, <1>7, <1>8, Zenon DEF StepKeeps

LEMMA EmittedStep ==
  ASSUME NEW log, Good(log), NEW next, NEW n \in Nat, EmittedFrom(log, next, n)
  PROVE  StepKeeps(log, next)
<1> DEFINE m == Len(log.messages)
<1>1. /\ m \in Nat /\ n <= m /\ next.logged = log.logged /\ log.logged \in Nat
      /\ Len(next.messages) = m - n /\ Len(next.shown) = n
      /\ \A i \in 1..(m - n) : next.messages[i] = log.messages[n + i]
      /\ \A i \in 1..n : next.shown[i].id = log.messages[n + 1 - i].id
      /\ \A i \in 1..m : log.messages[i].id \in 1..log.logged
      /\ \A i, j \in 1..m : i < j => log.messages[j].id < log.messages[i].id
  BY LenProperties DEF EmittedFrom, Good, LogState, Newest
<1> HIDE DEF m
<1>2. New(log, next) = {}
  BY <1>1 DEF New
<1>3. ASSUME NEW x \in Kept(log)
      PROVE  x \in Kept(next) \cup Shown(next)
  <2>1. PICK j \in 1..m : x = log.messages[j].id
    BY DEF Kept, m
  <2>2. CASE j <= n
    <3>1. n + 1 - j \in 1..n /\ n + 1 - (n + 1 - j) = j
      BY <1>1, <2>2
    <3>2. next.shown[n + 1 - j].id = x
      BY <1>1, <2>1, <3>1
    <3> QED BY <1>1, <3>1, <3>2 DEF Shown
  <2>3. CASE ~(j <= n)
    <3>1. j - n \in 1..(m - n) /\ n + (j - n) = j
      BY <1>1, <2>3
    <3>2. next.messages[j - n].id = x
      BY <1>1, <2>1, <3>1
    <3> QED BY <1>1, <3>1, <3>2 DEF Kept
  <2> QED BY <2>2, <2>3
<1>4. Lost(log, next) = {}
  BY <1>2, <1>3 DEF Lost
<1>5. ASSUME NEW k \in Kept(next), NEW x \in Shown(next)
      PROVE  k < x
  <2>1. PICK i \in 1..(m - n) : k = next.messages[i].id
    BY <1>1 DEF Kept
  <2>2. PICK j \in 1..n : x = next.shown[j].id
    BY <1>1 DEF Shown
  <2>3. k = log.messages[n + i].id /\ x = log.messages[n + 1 - j].id
    BY <1>1, <2>1, <2>2
  <2>4. n + i \in 1..m /\ n + 1 - j \in 1..m /\ n + 1 - j < n + i
    BY <1>1, <2>1, <2>2
  <2> QED BY <1>1, <2>3, <2>4
<1>6. ASSUME NEW i \in 1..Len(next.shown), NEW j \in 1..Len(next.shown), i < j
      PROVE  next.shown[i].id < next.shown[j].id
  <2>1. n + 1 - i \in 1..m /\ n + 1 - j \in 1..m /\ n + 1 - j < n + 1 - i
    BY <1>1, <1>6
  <2>2. log.messages[n + 1 - i].id < log.messages[n + 1 - j].id
    BY <1>1, <2>1
  <2> QED BY <1>1, <1>6, <2>2
<1> QED BY <1>2, <1>4, <1>5, <1>6 DEF StepKeeps

-----------------------------------------------------------------------------
(* Each call keeps the registry in order and the messages as they should   *)
(* be.                                                                     *)
LEMMA CallKeeps ==
  ASSUME LogsInv, LogsNext
  PROVE  Good(mslog') /\ StepKeeps(mslog, mslog')
<1>1. /\ Good(Quiet) /\ Logged(Quiet, Quiet)
      /\ Quiet.messages = mslog.messages /\ Quiet.logged = mslog.logged
      /\ Quiet.maxmessages = mslog.maxmessages /\ Quiet.shown = <<>>
  BY Starts
<1> SUFFICES Good(mslog') /\ StepKeeps(Quiet, mslog')
  BY <1>1, Zenon DEF StepKeeps, Lost, New, Kept
<1>2. CASE ms_rloginit
  <2>1. PICK p \in LogPrefixes, max \in -1..MaxKept : mslog' = rloginit_int(Quiet, p[1], p[2], max)
    BY <1>2, Zenon DEF ms_rloginit
  <2>2. max \in Int
    BY LogsAssumption
  <2>3. InitializedTo(Quiet, mslog')
    BY <1>1, <2>1, <2>2, Initialized, Zenon
  <2>4. PICK logged : /\ Logged(Quiet, logged) /\ Good(logged) /\ mslog'.messages = logged.messages
                      /\ mslog'.shown = logged.shown /\ mslog'.logged = logged.logged
    BY <2>3, Zenon DEF InitializedTo
  <2>5. StepKeeps(Quiet, logged)
    BY <1>1, <2>4, LoggedStep, Zenon
  <2>6. StepKeeps(Quiet, mslog')
    BY <2>4, <2>5, Zenon DEF StepKeeps, Lost, New, Kept, Shown
  <2> QED BY <2>3, <2>6, Zenon DEF InitializedTo
<1>3. CASE ms_rlog
  <2>1. PICK function \in Names, text \in Said, level \in 0..2 : mslog' = rlog_int(Quiet, function, level, text)
    BY <1>3, Zenon DEF ms_rlog
  <2>2. function \in Text /\ text \in Text /\ level \in Nat
    BY LogsAssumption DEF Text
  <2>3. CASE level >= 1 /\ Quiet.maxmessages > 0
    <3>1. Good(mslog') /\ Logged(Quiet, mslog')
      BY <1>1, <2>1, <2>2, <2>3, Keeps, Zenon
    <3> QED BY <1>1, <3>1, LoggedStep, Zenon
  <2>4. CASE ~(level >= 1 /\ Quiet.maxmessages > 0)
    <3>1. PrintedTo(Quiet, mslog')
      BY <1>1, <2>1, <2>2, <2>4, Prints, Zenon
    <3>2. StepKeeps(Quiet, mslog')
      BY <1>1, <3>1, PrintedStep, Zenon
    <3> QED BY <3>1, <3>2, Zenon DEF PrintedTo
  <2> QED BY <2>3, <2>4
<1>4. CASE ms_rlog_emit
  <2>1. PICK count \in 0..MaxKept, context \in BOOLEAN : mslog' = rlog_emit(Quiet, count, context)
    BY <1>4, Zenon DEF ms_rlog_emit
  <2>2. count \in Nat
    BY LogsAssumption
  <2>3. PICK n \in Nat : EmittedFrom(Quiet, mslog', n)
    BY <1>1, <2>1, <2>2, Emits, Zenon
  <2>4. StepKeeps(Quiet, mslog')
    BY <1>1, <2>3, EmittedStep, Zenon
  <2> QED BY <2>3, <2>4, Zenon DEF EmittedFrom
<1>5. CASE ms_rlog_free
  <2> DEFINE next == [Quiet EXCEPT !.messages = <<>>]
  <2>1. Quiet \in LogState /\ <<>> \in Seq(Entry) /\ Quiet.messagecnt \in Nat
    BY <1>1 DEF Good, LogState
  <2>2. /\ next \in LogState /\ next.messages = <<>> /\ next.messagecnt = Quiet.messagecnt
        /\ next.shown = <<>> /\ next.logged = Quiet.logged /\ Quiet.logged \in Nat
        /\ next.logprefix = Quiet.logprefix /\ next.errprefix = Quiet.errprefix
    BY <1>1, <2>1 DEF LogState
  <2>3. mslog' = next
    BY <1>5, Zenon DEF ms_rlog_free
  <2> HIDE DEF next
  <2>4. Newest(next)
    BY <2>2 DEF Newest
  <2>5. Len(next.messages) <= next.messagecnt
    BY <2>1, <2>2
  <2>6. Good(next)
    BY <1>1, <2>2, <2>4, <2>5, Zenon DEF Good
  <2>7. Kept(next) = {} /\ Shown(next) = {} /\ New(Quiet, next) = {}
    BY <2>2 DEF Kept, Shown, New
  <2>8. \A i, j \in 1..Len(next.shown) : i < j => next.shown[i].id < next.shown[j].id
    BY <2>2
  <2> QED BY <2>3, <2>6, <2>7, <2>8, Zenon DEF StepKeeps
<1> QED BY <1>2, <1>3, <1>4, <1>5, Zenon DEF LogsNext

(* LogsInv holds in every state of the logger.                             *)
THEOREM LogsInvariance == LogsSpec => []LogsInv
<1>1. LogsInit => LogsInv
  <2> SUFFICES ASSUME LogsInit PROVE Good(mslog)
    BY DEF LogsInv
  <2>1. mslog \in LogState /\ mslog.messages = <<>> /\ mslog.messagecnt = 0 /\ mslog.logprefix = <<>>
        /\ mslog.errprefix = ErrPrefix
    BY LogsAssumption DEF LogsInit, LogState, Text
  <2>2. Newest(mslog) /\ Len(mslog.messages) <= mslog.messagecnt /\ Len(mslog.logprefix) < MaxText
    BY <2>1, LogsAssumption DEF Newest
  <2> QED BY <2>1, <2>2 DEF Good
<1>2. ASSUME LogsInv, [LogsNext]_mslog PROVE LogsInv'
  <2>1. CASE LogsNext
    BY <1>2, <2>1, CallKeeps, Zenon DEF LogsInv
  <2>2. CASE UNCHANGED mslog
    BY <1>2, <2>2, Zenon DEF LogsInv
  <2> QED BY <1>2, <2>1, <2>2
<1> QED BY <1>1, <1>2, PTL DEF LogsSpec

-----------------------------------------------------------------------------
(* Both loggers print a message alike, under any prefixes the logger can   *)
(* have.                                                                   *)
LEMMA Alike ==
  ASSUME NEW log, Good(log), NEW level \in 0..2, NEW text \in Text
  PROVE  LoggersAgree(log, level, text)
<1> DEFINE dl == dl_loginit_main([verbosity |-> 0, logprefix |-> <<>>, errprefix |-> ErrPrefix], 0,
                                 log.logprefix, log.errprefix)
           params == [log EXCEPT !.maxmessages = 0, !.shown = <<>>]
           message == Message(log, level, text)
           ms == rlog_int(params, <<>>, level, text).shown
           p == Printed(level, log.logged + 1, message)
<1>1. log \in LogState
  BY DEF Good
<1>2. /\ params \in LogState /\ params.maxmessages = 0 /\ params.shown = <<>> /\ params.logged = log.logged
      /\ params.logprefix = log.logprefix /\ params.errprefix = log.errprefix
  <2>1. 0 \in Nat /\ <<>> \in Seq(Printout)
    OBVIOUS
  <2>2. params \in LogState
    BY <1>1, <2>1 DEF LogState
  <2>3. /\ params.maxmessages = 0 /\ params.shown = <<>> /\ params.logged = log.logged
        /\ params.logprefix = log.logprefix /\ params.errprefix = log.errprefix
    BY <1>1 DEF LogState
  <2> QED BY <2>2, <2>3
<1> HIDE DEF params
<1>3. Message(params, level, text) = message
  BY <1>2 DEF Message
<1>4. dl.verbosity = 0 /\ dl.logprefix = log.logprefix /\ dl.errprefix = log.errprefix
  BY DEF dl_loginit_main, Good
<1> HIDE DEF dl
<1>5. Message(dl, level, text) = message
  BY <1>4 DEF Message
<1>6. ms = <<p>>
  <2> DEFINE numbered == [params EXCEPT !.logged = @ + 1]
  <2> HIDE DEF p
  <2>1. numbered.logged = log.logged + 1 /\ numbered.shown = <<>> /\ Append(<<>>, p) = <<p>>
    BY <1>2 DEF LogState
  <2>2. [numbered EXCEPT !.shown = Append(@, p)].shown = <<p>>
    BY <1>2, <2>1 DEF LogState
  <2>3. ~(level >= 1 /\ params.maxmessages > 0)
    BY <1>2
  <2>4. rlog_int(params, <<>>, level, text) =
          [numbered EXCEPT !.shown = Append(@, Printed(level, numbered.logged, Message(params, level, text)))]
    BY <2>3, Zenon DEF rlog_int
  <2>5. Printed(level, numbered.logged, Message(params, level, text)) = p
    BY <1>3, <2>1 DEF p
  <2> HIDE DEF numbered
  <2> QED BY <2>2, <2>4, <2>5
<1>7. ms[1].stream = Stream(level) /\ ms[1].text = message
  BY <1>6 DEF Printed
<1>8. dl_log_main(dl, level, 1, text) = <<>>
  BY <1>4 DEF dl_log_main
<1>9. dl_log_main(dl, level, 0, text) = <<[stream |-> Stream(level), text |-> message]>>
  BY <1>4, <1>5 DEF dl_log_main
<1> HIDE DEF message, ms
<1> QED BY <1>7, <1>8, <1>9, Zenon DEF LoggersAgree, dl, ms, params

(* The sequences of numbers in MessagesKept.                               *)
LEMMA IdsRead ==
  ASSUME NEW S, NEW m \in Seq(S), \A i \in 1..Len(m) : m[i].id \in Nat
  PROVE  /\ ToSet(Ids(m)) = {m[i].id : i \in 1..Len(m)}
         /\ (\A i, j \in 1..Len(m) : i < j => m[i].id < m[j].id) => Ascending(Ids(m))
         /\ (\A i, j \in 1..Len(m) : i < j => m[j].id < m[i].id) => Ascending(Reverse(Ids(m)))
<1> DEFINE n == Len(m)
<1>1. n \in Nat /\ DOMAIN m = 1..n
  BY LenProperties
<1> HIDE DEF n
<1>2. Ids(m) = [i \in 1..n |-> m[i].id]
  BY <1>1 DEF Ids
<1>3. DOMAIN Ids(m) = 1..n /\ Len(Ids(m)) = n /\ \A i \in 1..n : Ids(m)[i] = m[i].id
  <2>1. \A i \in 1..n : m[i].id \in Nat
    BY DEF n
  <2> QED BY <1>1, <1>2, <2>1, IsASeq
<1>4. ToSet(Ids(m)) = {m[i].id : i \in 1..n}
  BY <1>3 DEF ToSet
<1>5. ASSUME \A i, j \in 1..n : i < j => m[i].id < m[j].id
      PROVE  Ascending(Ids(m))
  BY <1>3, <1>5 DEF Ascending
<1>6. ASSUME \A i, j \in 1..n : i < j => m[j].id < m[i].id
      PROVE  Ascending(Reverse(Ids(m)))
  <2>1. Reverse(Ids(m)) = [i \in 1..n |-> Ids(m)[n - i + 1]]
    BY <1>3 DEF Reverse
  <2>2. DOMAIN Reverse(Ids(m)) = 1..n /\ \A i \in 1..n : Reverse(Ids(m))[i] = m[n - i + 1].id
    BY <1>1, <1>3, <2>1
  <2>3. ASSUME NEW i \in 1..n, NEW j \in 1..n, i < j
        PROVE  Reverse(Ids(m))[i] < Reverse(Ids(m))[j]
    <3>1. n - i + 1 \in 1..n /\ n - j + 1 \in 1..n /\ n - j + 1 < n - i + 1
      BY <1>1, <2>3
    <3>2. m[n - i + 1].id < m[n - j + 1].id
      BY <1>6, <3>1
    <3> QED BY <2>2, <3>2
  <2> QED BY <2>2, <2>3 DEF Ascending
<1> QED BY <1>4, <1>5, <1>6 DEF n

(* MessagesKept: the registry keeps the newest messages, in their order,   *)
(* up to its limit; what it prints, it prints oldest first and once; and   *)
(* both loggers print alike.                                               *)
THEOREM NewestKept == LogsSpec => MessagesKept
<1>1. ASSUME LogsInv, LogsNext
      PROVE  LET kept  == ToSet(Ids(mslog'.messages))
                 shown == ToSet(Ids(mslog'.shown))
                 new   == (mslog.logged + 1)..mslog'.logged
                 lost  == (ToSet(Ids(mslog.messages)) \cup new) \ (kept \cup shown)
             IN  /\ Ascending(Ids(mslog'.shown)) /\ Ascending(Reverse(Ids(mslog'.messages)))
                 /\ \A k \in kept, s \in shown : k < s
                 /\ \/ lost = {} \/ kept \cup shown \cup new = {}
                    \/ Cardinality(kept) = mslog.maxmessages /\ \A l \in lost, k \in kept : l < k
                 /\ kept \cap new # {} => Cardinality(kept) <= mslog.maxmessages
                 /\ shown # {} => \A level \in 0..2, text \in Said : LoggersAgree(mslog', level, text)
  <2>1. Good(mslog) /\ Good(mslog') /\ StepKeeps(mslog, mslog')
    BY <1>1, CallKeeps, Zenon DEF LogsInv
  <2>2. /\ mslog.messages \in Seq(Entry) /\ mslog'.messages \in Seq(Entry) /\ mslog'.shown \in Seq(Printout)
        /\ \A i \in 1..Len(mslog.messages) : mslog.messages[i].id \in Nat
        /\ \A i \in 1..Len(mslog'.messages) : mslog'.messages[i].id \in Nat
    <3>1. ASSUME NEW log, Good(log)
          PROVE  /\ log.messages \in Seq(Entry) /\ log.shown \in Seq(Printout)
                 /\ \A i \in 1..Len(log.messages) : log.messages[i].id \in Nat
      <4>1. log \in LogState /\ Newest(log)
        BY <3>1 DEF Good
      <4>2. log.messages \in Seq(Entry) /\ log.shown \in Seq(Printout) /\ log.logged \in Nat
        BY <4>1 DEF LogState
      <4>3. \A i \in 1..Len(log.messages) : log.messages[i].id \in 1..log.logged
        BY <4>1, Zenon DEF Newest
      <4> QED BY <4>2, <4>3
    <3> QED BY <2>1, <3>1, Zenon
  <2>3. \A i \in 1..Len(mslog'.shown) : mslog'.shown[i].id \in Nat
    <3> SUFFICES ASSUME NEW i \in 1..Len(mslog'.shown)
                 PROVE  mslog'.shown[i].id \in Nat
      OBVIOUS
    <3>1. mslog'.shown[i] \in Printout
      BY <2>2, ElementOfSeq
    <3> QED BY <3>1 DEF Printout
  <2>4. ToSet(Ids(mslog.messages)) = Kept(mslog)
    BY <2>2, IdsRead, Zenon DEF Kept
  <2>5. ToSet(Ids(mslog'.messages)) = Kept(mslog') /\ Ascending(Reverse(Ids(mslog'.messages)))
    BY <2>1, <2>2, IdsRead, Zenon DEF Kept, Good, Newest
  <2>6. ToSet(Ids(mslog'.shown)) = Shown(mslog') /\ Ascending(Ids(mslog'.shown))
    BY <2>1, <2>2, <2>3, IdsRead, Zenon DEF Shown, StepKeeps
  <2>7. \A level \in 0..2, text \in Said : LoggersAgree(mslog', level, text)
    BY <2>1, Alike, LogsAssumption DEF Text
  <2> QED BY <2>1, <2>4, <2>5, <2>6, <2>7, Zenon DEF StepKeeps, Lost, New
<1> QED BY <1>1, LogsInvariance, PTL DEF LogsSpec, MessagesKept

-----------------------------------------------------------------------------
(* The division of C, which cuts towards 0.                                *)
LEMMA DivUnique ==
  ASSUME NEW B \in Nat \ {0}, NEW x \in Int, NEW r \in 0..(B - 1)
  PROVE  (B * x + r) \div B = x
OBVIOUS

LEMMA DivRemainder ==
  ASSUME NEW B \in Nat \ {0}, NEW a \in Int
  PROVE  a \div B \in Int /\ a - (a \div B) * B \in 0..(B - 1)
OBVIOUS

Up(t, r) == IF t < 0 /\ r # 0 THEN 1 ELSE 0

LEMMA Divided ==
  ASSUME NEW B \in Nat \ {0}, NEW x \in Int, NEW r \in 0..(B - 1)
  PROVE  /\ B * x + r \in Int
         /\ Quot(B * x + r, B) = x + Up(x, r)
         /\ Rem(B * x + r, B) = r - B * Up(x, r)
         /\ B * x + r < 0 <=> x < 0
<1>1. B * x + r \in Int /\ (B * x + r < 0 <=> x < 0)
  OBVIOUS
<1>2. CASE x >= 0
  <2>1. Quot(B * x + r, B) = x
    BY <1>1, <1>2, DivUnique DEF Quot
  <2> QED BY <1>1, <1>2, <2>1 DEF Rem, Up
<1>3. CASE x < 0 /\ r = 0
  <2>1. -(B * x + r) = B * (-x) + 0
    BY <1>3
  <2>2. (B * (-x) + 0) \div B = -x
    BY DivUnique
  <2>3. Quot(B * x + r, B) = x
    BY <1>1, <1>3, <2>1, <2>2 DEF Quot
  <2> QED BY <1>1, <1>3, <2>3 DEF Rem, Up
<1>4. CASE x < 0 /\ r # 0
  <2>1. -(B * x + r) = B * (-x - 1) + (B - r) /\ B - r \in 0..(B - 1)
    BY <1>4
  <2>2. (B * (-x - 1) + (B - r)) \div B = -x - 1
    BY <2>1, DivUnique
  <2>3. Quot(B * x + r, B) = x + 1
    BY <1>1, <1>4, <2>1, <2>2 DEF Quot
  <2>4. B * (x + 1) = B * x + B
    OBVIOUS
  <2> QED BY <1>1, <1>4, <2>3, <2>4 DEF Rem, Up
<1> QED BY <1>1, <1>2, <1>3, <1>4

-----------------------------------------------------------------------------
(* The months of a year.                                                   *)
LeapDay(year) == IF Leap(year) THEN 1 ELSE 0

LEMMA Months ==
  ASSUME NEW year \in Int
  PROVE  /\ DaysBefore(year, 1) = 0
         /\ \A m \in 2..13 : DaysBefore(year, m) = DaysBefore(year, m - 1) + DaysIn(year, m - 1)
<1> DEFINE before[m \in 1..13] == IF m = 1 THEN 0 ELSE before[m - 1] + DaysIn(year, m - 1)
           table == [m \in 1..13 |-> IF m = 1 THEN 0 ELSE IF m = 2 THEN 31 ELSE
                       LeapDay(year) + (IF m = 3 THEN 59 ELSE IF m = 4 THEN 90 ELSE IF m = 5 THEN 120
                         ELSE IF m = 6 THEN 151 ELSE IF m = 7 THEN 181 ELSE IF m = 8 THEN 212
                         ELSE IF m = 9 THEN 243 ELSE IF m = 10 THEN 273 ELSE IF m = 11 THEN 304
                         ELSE IF m = 12 THEN 334 ELSE 365)]
           Is(f) == f = [m \in 1..13 |-> IF m = 1 THEN 0 ELSE f[m - 1] + DaysIn(year, m - 1)]
<1>1. \A m \in 1..13 : DaysBefore(year, m) = before[m]
  BY DEF DaysBefore
<1>2. Is(table)
  <2>1. \A m \in 2..13 : table[m] = table[m - 1] + DaysIn(year, m - 1)
    BY DEF DaysIn, LeapDay
  <2>2. table[1] = 0
    OBVIOUS
  <2>3. \A m \in 1..13 : table[m] = IF m = 1 THEN 0 ELSE table[m - 1] + DaysIn(year, m - 1)
    BY <2>1, <2>2
  <2>4. table = [m \in 1..13 |-> table[m]]
    OBVIOUS
  <2> HIDE DEF table
  <2> QED BY <2>3, <2>4
<1>3. before = CHOOSE f : Is(f)
  OBVIOUS
<1> HIDE DEF table
<1>4. Is(before)
  <2> HIDE DEF Is, before
  <2> QED BY <1>2, <1>3
<1>5. \A m \in 1..13 : before[m] = IF m = 1 THEN 0 ELSE before[m - 1] + DaysIn(year, m - 1)
  <2> HIDE DEF before
  <2> QED BY <1>4
<1> HIDE DEF before, Is
<1> QED BY <1>1, <1>5

(* Where each month begins.                                                *)
LEMMA MonthStarts ==
  ASSUME NEW year \in Int, NEW m \in 1..13
  PROVE  DaysBefore(year, m) =
           IF m = 1 THEN 0 ELSE IF m = 2 THEN 31 ELSE
             LeapDay(year) + (IF m = 3 THEN 59 ELSE IF m = 4 THEN 90 ELSE IF m = 5 THEN 120
               ELSE IF m = 6 THEN 151 ELSE IF m = 7 THEN 181 ELSE IF m = 8 THEN 212
               ELSE IF m = 9 THEN 243 ELSE IF m = 10 THEN 273 ELSE IF m = 11 THEN 304
               ELSE IF m = 12 THEN 334 ELSE 365)
<1>1. /\ DaysBefore(year, 1) = 0
      /\ DaysBefore(year, 2) = 31
      /\ DaysBefore(year, 3) = 59 + LeapDay(year)
      /\ DaysBefore(year, 4) = 90 + LeapDay(year)
      /\ DaysBefore(year, 5) = 120 + LeapDay(year)
      /\ DaysBefore(year, 6) = 151 + LeapDay(year)
      /\ DaysBefore(year, 7) = 181 + LeapDay(year)
  <2>1. /\ DaysIn(year, 1) = 31 /\ DaysIn(year, 2) = 28 + LeapDay(year) /\ DaysIn(year, 3) = 31
        /\ DaysIn(year, 4) = 30 /\ DaysIn(year, 5) = 31 /\ DaysIn(year, 6) = 30
        /\ LeapDay(year) \in 0..1
    BY DEF DaysIn, LeapDay
  <2>2. /\ DaysBefore(year, 1) = 0
        /\ DaysBefore(year, 2) = DaysBefore(year, 1) + DaysIn(year, 1)
        /\ DaysBefore(year, 3) = DaysBefore(year, 2) + DaysIn(year, 2)
        /\ DaysBefore(year, 4) = DaysBefore(year, 3) + DaysIn(year, 3)
        /\ DaysBefore(year, 5) = DaysBefore(year, 4) + DaysIn(year, 4)
        /\ DaysBefore(year, 6) = DaysBefore(year, 5) + DaysIn(year, 5)
        /\ DaysBefore(year, 7) = DaysBefore(year, 6) + DaysIn(year, 6)
    BY Months
  <2> QED BY <2>1, <2>2
<1>2. /\ DaysBefore(year, 8) = 212 + LeapDay(year)
      /\ DaysBefore(year, 9) = 243 + LeapDay(year)
      /\ DaysBefore(year, 10) = 273 + LeapDay(year)
      /\ DaysBefore(year, 11) = 304 + LeapDay(year)
      /\ DaysBefore(year, 12) = 334 + LeapDay(year)
      /\ DaysBefore(year, 13) = 365 + LeapDay(year)
  <2>1. /\ DaysIn(year, 7) = 31 /\ DaysIn(year, 8) = 31 /\ DaysIn(year, 9) = 30
        /\ DaysIn(year, 10) = 31 /\ DaysIn(year, 11) = 30 /\ DaysIn(year, 12) = 31
        /\ LeapDay(year) \in 0..1
    BY DEF DaysIn, LeapDay
  <2>2. /\ DaysBefore(year, 8) = DaysBefore(year, 7) + DaysIn(year, 7)
        /\ DaysBefore(year, 9) = DaysBefore(year, 8) + DaysIn(year, 8)
        /\ DaysBefore(year, 10) = DaysBefore(year, 9) + DaysIn(year, 9)
        /\ DaysBefore(year, 11) = DaysBefore(year, 10) + DaysIn(year, 10)
        /\ DaysBefore(year, 12) = DaysBefore(year, 11) + DaysIn(year, 11)
        /\ DaysBefore(year, 13) = DaysBefore(year, 12) + DaysIn(year, 12)
    BY Months
  <2> QED BY <1>1, <2>1, <2>2
<1>3. LeapDay(year) \in Int
  BY DEF LeapDay
<1> QED BY <1>1, <1>2, <1>3

-----------------------------------------------------------------------------
(* Years: the days from the epoch to the start of one.                     *)
Leaps(y) == y \div 4 - y \div 100 + y \div 400
Start(y) == 365 * (y - 1970) + Leaps(y - 1) - 477

LEMMA DaysOfYears ==
  ASSUME NEW y \in Int, NEW z \in Int
  PROVE  DaysOf(y, z) = Start(z + 1) - Start(y)
<1>1. DaysOf(y, z) = 365 * (z - y + 1) + Leaps(z) - Leaps(y - 1)
  BY DEF DaysOf, Leaps
<1>2. Leaps(z) \in Int /\ Leaps(y - 1) \in Int
  BY DEF Leaps
<1>3. Start(z + 1) = 365 * (z + 1 - 1970) + Leaps(z) - 477
  BY DEF Start
<1> QED BY <1>1, <1>2, <1>3 DEF Start

LEMMA YearStarts ==
  ASSUME NEW y \in Int
  PROVE  /\ Start(y) \in Int /\ LengthOfYear(y) \in 365..366
         /\ Start(y + 1) = Start(y) + LengthOfYear(y)
  BY DEF Start, Leaps, LengthOfYear, Leap

LEMMA YearsInOrder ==
  ASSUME NEW y \in Int, NEW z \in Int, y <= z
  PROVE  Start(y) <= Start(z)
  BY DEF Start, Leaps

LEMMA CycleLength == Cycle \in Nat \ {0}
BY DEF Cycle

Later(y, c) == y + 400 * c

LEMMA Cycles ==
  ASSUME NEW y \in Int, NEW c \in Int
  PROVE  /\ Start(Later(y, c)) = Start(y) + Cycle * c
         /\ LengthOfYear(Later(y, c)) = LengthOfYear(y)
<1>1. Cycle = 365 * 400 + 97
  BY DEF Cycle
<1>2. Start(y + 400 * c) = Start(y) + Cycle * c
  BY <1>1 DEF Start, Leaps
<1>3. LengthOfYear(y + 400 * c) = LengthOfYear(y)
  BY DEF LengthOfYear, Leap
<1> QED BY <1>2, <1>3, Zenon DEF Later

(* A day is in one year only.                                              *)
LEMMA OneYear ==
  ASSUME NEW y \in Int, NEW z \in Int, NEW t \in Int,
         t \in Start(y)..(Start(y + 1) - 1), t \in Start(z)..(Start(z + 1) - 1)
  PROVE  y = z
<1>1. Start(y) \in Int /\ Start(z) \in Int /\ Start(y + 1) \in Int /\ Start(z + 1) \in Int
  BY YearStarts
<1>2. CASE y < z
  BY <1>1, <1>2, YearsInOrder
<1>3. CASE z < y
  BY <1>1, <1>3, YearsInOrder
<1> QED BY <1>2, <1>3

(* Whole cycles taken off a number of days after the start of a year.      *)
LEMMA CycleOff ==
  ASSUME NEW s \in Int, NEW y \in Int, s <= y, NEW d \in 0..(LengthOfYear(y) - 1),
         NEW c \in Nat, NEW m \in 0..(Cycle - 1), Start(y) + d - Start(s) = Cycle * c + m
  PROVE  /\ y - 400 * c \in s..(s + 399) /\ Start(y - 400 * c) = m + Start(s) - d
         /\ LengthOfYear(y - 400 * c) = LengthOfYear(y)
<1>1. PICK y0 \in Int : y0 = y - 400 * c /\ y = y0 + 400 * c
  OBVIOUS
<1>2. /\ Start(s) \in Int /\ Start(y) \in Int
      /\ Start(y0) \in Int /\ Start(y0 + 1) = Start(y0) + LengthOfYear(y0)
      /\ LengthOfYear(y) \in 365..366
  BY YearStarts
<1>3. Start(y) = Start(y0) + Cycle * c /\ LengthOfYear(y) = LengthOfYear(y0)
  <2>1. c \in Int /\ Later(y0, c) = y
    BY <1>1 DEF Later
  <2>2. Start(Later(y0, c)) = Start(y0) + Cycle * c /\ LengthOfYear(Later(y0, c)) = LengthOfYear(y0)
    BY <2>1, Cycles
  <2> QED BY <2>1, <2>2
<1>4. Start(y0) + d = m + Start(s)
  <2>1. PICK p \in Int : p = Cycle * c
    BY CycleLength
  <2>2. m \in Int /\ d \in Int
    BY <1>2, CycleLength
  <2> QED BY <1>2, <1>3, <2>1, <2>2
<1>5. ~(y0 < s)
  <2>1. SUFFICES ASSUME y0 < s PROVE FALSE
    OBVIOUS
  <2>2. y0 + 1 <= s /\ Start(y0 + 1) <= Start(s)
    BY <2>1, YearsInOrder
  <2> QED BY <1>2, <1>3, <1>4, <2>2, CycleLength
<1>6. ~(y0 > s + 399)
  <2>1. SUFFICES ASSUME y0 > s + 399 PROVE FALSE
    OBVIOUS
  <2>2. Start(Later(s, 1)) = Start(s) + Cycle * 1
    BY Cycles
  <2>3. Later(s, 1) \in Int /\ Later(s, 1) <= y0
    BY <2>1 DEF Later
  <2>4. Start(Later(s, 1)) <= Start(y0)
    BY <2>3, YearsInOrder
  <2> QED BY <1>2, <1>4, <2>2, <2>4, CycleLength
<1> QED BY <1>1, <1>2, <1>3, <1>4, <1>5, <1>6

LEMMA FindsYear ==
  ASSUME NEW s \in Int, NEW y \in s..(s + 399), NEW d \in 0..(LengthOfYear(y) - 1),
         NEW m \in Int, m = Start(y) + d - Start(s)
  PROVE  /\ (CHOOSE z \in s..(s + 400) : m \in DaysOf(s, z - 1)..(DaysOf(s, z) - 1)) = y
         /\ m - DaysOf(s, y - 1) = d
<1> DEFINE In(z) == m \in DaysOf(s, z - 1)..(DaysOf(s, z) - 1)
<1>1. /\ Start(s) \in Int /\ Start(y) \in Int /\ Start(y + 1) = Start(y) + LengthOfYear(y)
      /\ LengthOfYear(y) \in 365..366
  BY YearStarts
<1>2. \A z \in Int : DaysOf(s, z) = Start(z + 1) - Start(s) /\ DaysOf(s, z - 1) = Start(z) - Start(s)
  <2> SUFFICES ASSUME NEW z \in Int
               PROVE  DaysOf(s, z) = Start(z + 1) - Start(s) /\ DaysOf(s, z - 1) = Start(z) - Start(s)
    OBVIOUS
  <2>1. z - 1 \in Int /\ z - 1 + 1 = z
    OBVIOUS
  <2>2. DaysOf(s, z - 1) = Start(z - 1 + 1) - Start(s)
    BY <2>1, DaysOfYears, Zenon
  <2> QED BY <2>1, <2>2, DaysOfYears
<1>3. In(y)
  BY <1>1, <1>2
<1>4. ASSUME NEW z \in s..(s + 400), In(z) PROVE z = y
  <2>1. Start(z) \in Int /\ Start(z + 1) \in Int
    BY YearStarts
  <2>2. PICK t \in Int : t = m + Start(s)
    BY <1>1
  <2>3. t \in Start(z)..(Start(z + 1) - 1)
    BY <1>1, <1>2, <1>4, <2>1, <2>2
  <2>4. t \in Start(y)..(Start(y + 1) - 1)
    BY <1>1, <2>2
  <2> QED BY <2>3, <2>4, OneYear
<1>5. (CHOOSE z \in s..(s + 400) : In(z)) = y
  <2> HIDE DEF In
  <2> QED BY <1>3, <1>4
<1> QED BY <1>1, <1>2, <1>5

(* Counting from a year on.                                                *)
LEMMA ForwardFinds ==
  ASSUME NEW s \in Int, NEW y \in Int, s <= y, NEW d \in 0..(LengthOfYear(y) - 1),
         NEW days \in Int, days = Start(y) + d - Start(s)
  PROVE  Forward(s, days) = <<y, d>>
<1>1. Start(s) \in Int /\ Start(y) \in Int /\ Start(s) <= Start(y)
  BY YearStarts, YearsInOrder
<1>2. PICK c \in Nat, m \in 0..(Cycle - 1) : c = days \div Cycle /\ m = days - c * Cycle
  <2>1. days \div Cycle \in Int /\ days - (days \div Cycle) * Cycle \in 0..(Cycle - 1)
    BY CycleLength, DivRemainder
  <2>2. days >= 0
    BY <1>1
  <2>3. days \div Cycle >= 0
    BY <2>1, <2>2, CycleLength
  <2> QED BY <2>1, <2>3
<1>3. Start(y) + d - Start(s) = Cycle * c + m
  BY <1>1, <1>2, CycleLength
<1>4. PICK y0 \in s..(s + 399) : y0 = y - 400 * c
  BY <1>1, <1>2, <1>3, CycleOff
<1>5. d \in 0..(LengthOfYear(y0) - 1) /\ m = Start(y0) + d - Start(s) /\ y0 + 400 * c = y
  <2>1. /\ Start(y - 400 * c) = m + Start(s) - d
        /\ LengthOfYear(y - 400 * c) = LengthOfYear(y)
    BY <1>3, CycleOff
  <2>2. Start(y0) \in Int /\ Start(y0) = m + Start(s) - d /\ LengthOfYear(y0) = LengthOfYear(y)
    BY <1>4, <2>1, YearStarts
  <2>3. m \in Int /\ y0 + 400 * c = y
    BY <1>4, CycleLength
  <2> QED BY <1>1, <2>2, <2>3
<1>6. /\ (CHOOSE z \in s..(s + 400) : m \in DaysOf(s, z - 1)..(DaysOf(s, z) - 1)) = y0
      /\ m - DaysOf(s, y0 - 1) = d
  BY <1>5, FindsYear
<1>7. Forward(s, days) = <<y0 + 400 * c, m - DaysOf(s, y0 - 1)>>
  BY <1>2, <1>6, Zenon DEF Forward
<1> QED BY <1>5, <1>6, <1>7, Zenon

(* Counting back from the end of a year.                                   *)
YearBack(m, last) == CHOOSE z \in (last - 400)..last : -m \in (DaysOf(z + 1, last) + 1)..DaysOf(z, last)

LEMMA BackwardFinds ==
  ASSUME NEW e \in Int, NEW y \in Int, y <= e, NEW d \in 0..(LengthOfYear(y) - 1),
         NEW days \in Int, days = Start(y) + d - Start(e + 1)
  PROVE  Backward(e, days) = <<y, d - LengthOfYear(y)>>
<1>1. /\ Start(y) \in Int /\ Start(e + 1) \in Int /\ Start(y + 1) = Start(y) + LengthOfYear(y)
      /\ LengthOfYear(y) \in 365..366 /\ Start(y + 1) <= Start(e + 1)
  BY YearStarts, YearsInOrder
<1>2. PICK a \in Int : a = -days - 1 /\ a >= 0
  BY <1>1
<1>3. PICK k \in Nat, p \in Int, r \in 0..(Cycle - 1) : k = a \div Cycle /\ p = k * Cycle /\ a = p + r
  <2>1. a \div Cycle \in Int /\ a - (a \div Cycle) * Cycle \in 0..(Cycle - 1)
    BY CycleLength, DivRemainder
  <2>2. a \div Cycle >= 0
    BY <1>2, <2>1, CycleLength
  <2>3. (a \div Cycle) * Cycle \in Int
    BY <2>1, CycleLength
  <2> QED BY <2>1, <2>2, <2>3, CycleLength
<1>4. PICK c \in Int, m \in Int : c = -k /\ c * Cycle = -p /\ m = days + p /\ -m = r + 1 /\ r \in Int
  <2>1. (-k) * Cycle = -p /\ r \in Int
    BY <1>3, CycleLength
  <2> QED BY <1>2, <1>3, <2>1
<1>5. Quot(days + 1, Cycle) = c
  <2>1. days + 1 <= 0 /\ -(days + 1) = -days - 1
    BY <1>1
  <2>2. CASE days + 1 < 0
    BY <1>2, <1>3, <1>4, <2>1, <2>2 DEF Quot
  <2>3. CASE days + 1 = 0
    <3>1. 0 \div Cycle = 0
      BY CycleLength
    <3>2. k = 0
      BY <1>2, <1>3, <2>1, <2>3, <3>1
    <3> QED BY <1>4, <2>3, <3>1, <3>2 DEF Quot
  <2> QED BY <2>1, <2>2, <2>3
<1>6. PICK last \in Int : last = e + 400 * c
  OBVIOUS
<1>7. Start(last + 1) = Start(e + 1) - p
  <2>1. e + 1 \in Int /\ Later(e + 1, c) = last + 1
    BY <1>6 DEF Later
  <2>2. Start(Later(e + 1, c)) = Start(e + 1) + Cycle * c
    BY <2>1, Cycles
  <2>3. Cycle * c = -p
    BY <1>4, CycleLength
  <2> QED BY <1>1, <2>1, <2>2, <2>3
<1>8. m + Start(last + 1) = Start(y) + d /\ Start(last + 1) \in Int
  <2>1. m = days + p
    BY <1>4
  <2> QED BY <1>1, <1>7, <2>1
<1> DEFINE In(z) == -m \in (DaysOf(z + 1, last) + 1)..DaysOf(z, last)
<1>9. \A z \in Int : /\ DaysOf(z, last) = Start(last + 1) - Start(z)
                     /\ DaysOf(z + 1, last) = Start(last + 1) - Start(z + 1)
                     /\ Start(z) \in Int /\ Start(z + 1) \in Int
  <2> SUFFICES ASSUME NEW z \in Int
               PROVE  /\ DaysOf(z, last) = Start(last + 1) - Start(z)
                      /\ DaysOf(z + 1, last) = Start(last + 1) - Start(z + 1)
                      /\ Start(z) \in Int /\ Start(z + 1) \in Int
    OBVIOUS
  <2>1. z + 1 \in Int
    OBVIOUS
  <2>2. DaysOf(z + 1, last) = Start(last + 1) - Start(z + 1)
    BY <2>1, DaysOfYears, Zenon
  <2>3. DaysOf(z, last) = Start(last + 1) - Start(z)
    BY DaysOfYears, Zenon
  <2> QED BY <2>1, <2>2, <2>3, YearStarts
<1>10. In(y)
  BY <1>1, <1>8, <1>9
<1>11. y <= last
  <2>1. SUFFICES ASSUME last + 1 <= y PROVE FALSE
    OBVIOUS
  <2>2. Start(last + 1) <= Start(y)
    BY <2>1, YearsInOrder
  <2> QED BY <1>1, <1>4, <1>8, <2>2
<1>12. last - 400 <= y
  <2>1. SUFFICES ASSUME y + 1 <= last - 399 PROVE FALSE
    OBVIOUS
  <2>2. Start(y + 1) <= Start(last - 399)
    BY <2>1, YearsInOrder
  <2>3. last - 399 \in Int /\ Later(last - 399, 1) = last + 1
    BY DEF Later
  <2>4. Start(Later(last - 399, 1)) = Start(last - 399) + Cycle * 1
    BY <2>3, Cycles
  <2>5. Start(last - 399) \in Int
    BY YearStarts
  <2>6. -m <= Cycle /\ Cycle \in Int
    BY <1>4, CycleLength
  <2> QED BY <1>1, <1>8, <2>2, <2>3, <2>4, <2>5, <2>6
<1>13. ASSUME NEW z \in (last - 400)..last, In(z) PROVE z = y
  <2>1. PICK t \in Int : t = m + Start(last + 1)
    BY <1>8
  <2>2. t \in Start(z)..(Start(z + 1) - 1)
    BY <1>8, <1>9, <1>13, <2>1
  <2>3. t \in Start(y)..(Start(y + 1) - 1)
    BY <1>1, <1>8, <2>1
  <2> QED BY <2>2, <2>3, OneYear
<1>14. YearBack(m, last) = y
  <2>1. YearBack(m, last) = CHOOSE z \in (last - 400)..last : In(z)
    BY DEF YearBack
  <2> HIDE DEF In
  <2> QED BY <1>10, <1>11, <1>12, <1>13, <2>1
<1>15. Backward(e, days) = <<y, m + DaysOf(y + 1, last)>>
  <2> DEFINE cycles == Quot(days + 1, Cycle)
             from == days - cycles * Cycle
             end == e + 400 * cycles
  <2>1. Backward(e, days) = <<YearBack(from, end), from + DaysOf(YearBack(from, end) + 1, end)>>
    BY Zenon DEF Backward, YearBack
  <2>2. from = m /\ end = last
    BY <1>4, <1>5, <1>6
  <2> HIDE DEF from, end
  <2> QED BY <1>14, <2>1, <2>2, Zenon
<1>16. m + DaysOf(y + 1, last) = d - LengthOfYear(y)
  <2>1. DaysOf(y + 1, last) = Start(last + 1) - Start(y + 1)
    BY <1>9, Zenon
  <2> QED BY <1>1, <1>8, <2>1
<1> QED BY <1>15, <1>16

LEMMA YearFound ==
  ASSUME NEW y \in Int, NEW d \in 0..(LengthOfYear(y) - 1), NEW t \in Int, t = Start(y) + d
  PROVE  YearOf(t) = IF t >= 0 THEN <<y, d>> ELSE <<y, d - LengthOfYear(y)>>
<1>1. Start(1970) = 0 /\ Start(2008) = CheatDays /\ CheatDays \in Nat
  BY SMT DEF Start, Leaps, CheatDays
<1>2. Start(y) \in Int /\ Start(y + 1) = Start(y) + LengthOfYear(y) /\ LengthOfYear(y) \in 365..366
  BY YearStarts
<1>3. CASE t >= CheatDays
  <2>1. 2008 <= y
    <3>1. y + 1 <= 2008 => Start(y + 1) <= Start(2008)
      BY YearsInOrder
    <3> QED BY <1>1, <1>2, <1>3, <3>1
  <2>2. t - CheatDays \in Int /\ t - CheatDays = Start(y) + d - Start(2008)
    BY <1>1, <1>2
  <2>3. Forward(2008, t - CheatDays) = <<y, d>>
    BY <2>1, <2>2, ForwardFinds
  <2> QED BY <1>1, <1>3, <2>3 DEF YearOf
<1>4. CASE t >= 0 /\ ~(t >= CheatDays)
  <2>1. 1970 <= y
    <3>1. y + 1 <= 1970 => Start(y + 1) <= Start(1970)
      BY YearsInOrder
    <3> QED BY <1>1, <1>2, <1>4, <3>1
  <2>2. t = Start(y) + d - Start(1970)
    BY <1>1, <1>2
  <2>3. Forward(1970, t) = <<y, d>>
    BY <2>1, <2>2, ForwardFinds
  <2> QED BY <1>4, <2>3 DEF YearOf
<1>5. CASE t < 0
  <2>1. y <= 1969
    <3>1. 1970 <= y => Start(1970) <= Start(y)
      BY YearsInOrder
    <3> QED BY <1>1, <1>2, <1>5, <3>1
  <2>2. t = Start(y) + d - Start(1969 + 1)
    BY <1>1, <1>2
  <2>3. Backward(1969, t) = <<y, d - LengthOfYear(y)>>
    BY <2>1, <2>2, BackwardFinds
  <2> QED BY <1>1, <1>5, <2>3 DEF YearOf
<1> QED BY <1>3, <1>4, <1>5

-----------------------------------------------------------------------------
(* Clocks.  A unit that was borrowed by the lower one, u, is missing in a  *)
(* remainder of C before the epoch.                                        *)
LEMMA Carried ==
  ASSUME NEW B \in Nat \ {0}, NEW y \in Int, NEW r \in 0..(B - 1), NEW u \in 0..1, u = 1 => y < 0
  PROVE  Rem(B * y + r + u, B) - u = r - B * (IF u = 1 \/ Up(y, r) = 1 THEN 1 ELSE 0)
<1>1. CASE u = 0
  <2>1. Rem(B * y + r, B) = r - B * Up(y, r)
    BY Divided
  <2>2. B * y + r + u = B * y + r
    BY <1>1
  <2> QED BY <1>1, <2>1, <2>2 DEF Up
<1>2. CASE u = 1 /\ r + 1 < B
  <2>1. PICK q \in 0..(B - 1) : q = r + 1
    BY <1>2
  <2>2. Rem(B * y + q, B) = q - B * Up(y, q)
    BY Divided
  <2>3. Up(y, q) = 1 /\ B * y + r + u = B * y + q
    BY <1>2, <2>1 DEF Up
  <2> QED BY <1>2, <2>1, <2>2, <2>3
<1>3. CASE u = 1 /\ r + 1 = B
  <2>1. PICK z \in Int : z = y + 1
    OBVIOUS
  <2>2. Rem(B * z + 0, B) = 0 - B * Up(z, 0)
    BY Divided
  <2>3. Up(z, 0) = 0 /\ B * z + 0 = B * y + r + u /\ B * 0 = 0
    BY <1>3, <2>1 DEF Up
  <2> QED BY <1>3, <2>2, <2>3
<1> QED BY <1>1, <1>2, <1>3

(* Two units, one in the other.                                            *)
LEMMA Nested ==
  ASSUME NEW A \in Nat \ {0}, NEW B \in Nat \ {0}, NEW q \in 0..(A - 1), NEW r \in 0..(B - 1)
  PROVE  /\ B * A \in Nat \ {0} /\ B * q + r \in 0..(B * A - 1)
         /\ B * q + r = 0 <=> q = 0 /\ r = 0
<1>1. B * q <= B * (A - 1) /\ B * (A - 1) = B * A - B /\ B * q \in Nat /\ B * A \in Nat \ {0}
  OBVIOUS
<1>2. B * q = 0 <=> q = 0
  OBVIOUS
<1> QED BY <1>1, <1>2

Seconds(day, hour, min, sec) == MinSecs * (HourMins * (DayHours * day + hour) + min) + sec

LEMMA GMTimeIs ==
  ASSUME NEW day \in Int, NEW hour \in 0..(DayHours - 1), NEW min \in 0..(HourMins - 1),
         NEW sec \in 0..(MinSecs - 1)
  PROVE  GMTime(Seconds(day, hour, min, sec)) = Date(YearOf(day), day, hour, min, sec)
<1>1. MinSecs \in Nat \ {0} /\ HourMins \in Nat \ {0} /\ DayHours \in Nat \ {0}
  BY TimesAssumption
<1>2. PICK y \in Int : y = DayHours * day + hour
  BY <1>1
<1>3. PICK x \in Int : x = HourMins * y + min
  BY <1>1
<1>4. PICK t \in Int : t = MinSecs * x + sec /\ t = Seconds(day, hour, min, sec)
  BY <1>1, <1>2, <1>3 DEF Seconds
<1>5. PICK u1 \in 0..1, u2 \in 0..1, u3 \in 0..1 :
         /\ u1 = Up(x, sec)
         /\ u2 = IF u1 = 1 \/ Up(y, min) = 1 THEN 1 ELSE 0
         /\ u3 = IF u2 = 1 \/ Up(day, hour) = 1 THEN 1 ELSE 0
  BY DEF Up
<1>6. /\ (u1 = 1 => y < 0) /\ (u2 = 1 => day < 0)
      /\ (x < 0 <=> y < 0) /\ (y < 0 <=> day < 0)
  <2>1. (x < 0 <=> y < 0) /\ (y < 0 <=> day < 0)
    BY <1>1, <1>2, <1>3, Divided
  <2> QED BY <1>5, <2>1 DEF Up
<1>7. Rem(t, MinSecs) = sec - MinSecs * u1 /\ Quot(t, MinSecs) = x + u1
  BY <1>1, <1>4, <1>5, Divided
<1>8. Rem(x + u1, HourMins) - u1 = min - HourMins * u2
  <2>1. Rem(HourMins * y + min + u1, HourMins) - u1
          = min - HourMins * (IF u1 = 1 \/ Up(y, min) = 1 THEN 1 ELSE 0)
    BY <1>1, <1>6, Carried
  <2> QED BY <1>3, <1>5, <2>1
<1>9. Quot(t, MinSecs * HourMins) = y + u2
  <2>1. PICK B \in Nat \ {0}, r \in Nat : B = MinSecs * HourMins /\ r = MinSecs * min + sec /\ r < B
    BY <1>1
  <2>2. t = B * y + r
    BY <1>1, <1>3, <1>4, <2>1
  <2>3. Quot(t, B) = y + Up(y, r)
    BY <2>1, <2>2, Divided
  <2>4. r = 0 <=> min = 0 /\ sec = 0
    BY <1>1, <2>1
  <2>5. Up(y, r) = u2
    BY <1>5, <1>6, <2>4 DEF Up
  <2> QED BY <2>1, <2>3, <2>5
<1>10. Rem(y + u2, DayHours) - u2 = hour - DayHours * u3
  <2>1. Rem(DayHours * day + hour + u2, DayHours) - u2
          = hour - DayHours * (IF u2 = 1 \/ Up(day, hour) = 1 THEN 1 ELSE 0)
    BY <1>1, <1>6, Carried
  <2> QED BY <1>2, <1>5, <2>1
<1>11. Quot(t, MinSecs * HourMins * DayHours) = day + u3
  <2>1. PICK B \in Nat \ {0}, r \in Nat :
          B = MinSecs * HourMins * DayHours /\ r = MinSecs * (HourMins * hour + min) + sec /\ r < B
    <3>1. PICK A \in Nat \ {0}, q \in Nat : A = HourMins * DayHours /\ q = HourMins * hour + min /\ q < A
      BY <1>1, Nested
    <3>2. MinSecs * A \in Nat \ {0} /\ MinSecs * q + sec \in 0..(MinSecs * A - 1)
      BY <1>1, <3>1, Nested
    <3>3. MinSecs * A = MinSecs * HourMins * DayHours
      BY <1>1, <3>1
    <3> QED BY <3>1, <3>2, <3>3
  <2>2. t = B * day + r
    BY <1>1, <1>2, <1>3, <1>4, <2>1
  <2>3. Quot(t, B) = day + Up(day, r)
    BY <2>1, <2>2, Divided
  <2>4. r = 0 <=> hour = 0 /\ min = 0 /\ sec = 0
    BY <1>1, <2>1
  <2>5. Up(day, r) = u3
    BY <1>5, <1>6, <2>4 DEF Up
  <2> QED BY <2>1, <2>3, <2>5
<1> DEFINE Borrow(v) == IF v < 0 THEN 1 ELSE 0
           Wrap(v, len) == IF v < 0 THEN v + len ELSE v
<1>12. /\ Wrap(sec - MinSecs * u1, MinSecs) = sec /\ Borrow(sec - MinSecs * u1) = u1
       /\ Wrap(min - HourMins * u2, HourMins) = min /\ Borrow(min - HourMins * u2) = u2
       /\ Wrap(hour - DayHours * u3, DayHours) = hour /\ Borrow(hour - DayHours * u3) = u3
  BY <1>1
<1>13. GMTime(t) = Date(YearOf(day), day, hour, min, sec)
  <2> DEFINE s    == Rem(t, MinSecs)
             m    == Rem(Quot(t, MinSecs), HourMins) - Borrow(s)
             h    == Rem(Quot(t, MinSecs * HourMins), DayHours) - Borrow(m)
             tday == Quot(t, MinSecs * HourMins * DayHours) - Borrow(h)
  <2>1. GMTime(t) = Date(YearOf(tday), tday, Wrap(h, DayHours), Wrap(m, HourMins), Wrap(s, MinSecs))
    BY Zenon DEF GMTime
  <2> HIDE DEF Borrow, Wrap
  <2>2. s = sec - MinSecs * u1 /\ m = min - HourMins * u2
    BY <1>7, <1>8, <1>12
  <2>3. h = hour - DayHours * u3
    BY <1>9, <1>10, <1>12, <2>2
  <2>4. tday = day
    BY <1>11, <1>12, <2>3
  <2> HIDE DEF s, m, h, tday
  <2> QED BY <1>12, <2>1, <2>2, <2>3, <2>4, Zenon
<1> QED BY <1>4, <1>13

-----------------------------------------------------------------------------
(* The time that is made of a date.                                        *)
LEMMA DLTimeIs ==
  ASSUME NEW year \in Int, year > 0, NEW yday \in Int, NEW hour \in Nat, NEW min \in Nat,
         NEW sec \in Nat, NEW usec \in Nat
  PROVE  DLTime(year, yday, hour, min, sec, usec) =
           Modulus * Seconds(Start(year) + yday - 1, hour, min, sec) + usec
<1> DEFINE a4   == ((year - 1900) \div 4) + 475 - (IF (year - 1900) % 4 = 0 THEN 1 ELSE 0)
           a100 == Quot(a4, 25) - (IF Rem(a4, 25) < 0 THEN 1 ELSE 0)
           a400 == a100 \div 4
           days == 365 * (year - 1900 - 70) + (a4 - 492) - (a100 - 19) + (a400 - 4) + (yday - 1)
<1>1. DLTime(year, yday, hour, min, sec, usec) =
        (MinSecs * (HourMins * (DayHours * days + hour) + min) + sec) * Modulus + usec
  BY DEF DLTime
<1>2. days = Start(year) + yday - 1
  <2>1. a4 = (year - 1) \div 4 /\ a4 \in Nat
    OBVIOUS
  <2> HIDE DEF a4
  <2>2. a100 = a4 \div 25
    BY <2>1 DEF Quot, Rem
  <2> HIDE DEF a100
  <2>3. a100 = (year - 1) \div 100 /\ a400 = (year - 1) \div 400
    BY <2>1, <2>2
  <2> HIDE DEF a400
  <2> QED BY <2>1, <2>3 DEF Start, Leaps
<1> HIDE DEF days
<1>3. DLTime(year, yday, hour, min, sec, usec) = Seconds(days, hour, min, sec) * Modulus + usec
  BY <1>1 DEF Seconds
<1>4. days \in Int /\ Modulus \in Nat /\ MinSecs \in Nat /\ HourMins \in Nat /\ DayHours \in Nat
  BY <1>2, YearStarts, TimesAssumption
<1>5. Seconds(days, hour, min, sec) \in Int
  BY <1>4 DEF Seconds
<1>6. Seconds(days, hour, min, sec) * Modulus = Modulus * Seconds(days, hour, min, sec)
  BY <1>4, <1>5
<1> QED BY <1>2, <1>3, <1>6

(* One tick more than the last one of a year is the first one of the next. *)
LEMMA YearFollows ==
  ASSUME NEW year \in Int, year >= 1900
  PROVE  DLTime(year + 1, 1, 0, 0, 0, 0) =
           DLTime(year, LengthOfYear(year), DayHours - 1, HourMins - 1, MinSecs - 1, Modulus - 1) + 1
<1>1. /\ Modulus \in Nat \ {0} /\ MinSecs \in Nat \ {0} /\ HourMins \in Nat \ {0} /\ DayHours \in Nat \ {0}
      /\ Start(year) \in Int /\ LengthOfYear(year) \in 365..366 /\ Start(year + 1) = Start(year) + LengthOfYear(year)
  BY TimesAssumption, YearStarts
<1>2. PICK n \in Int : n = Start(year + 1)
  BY <1>1
<1>3. DLTime(year + 1, 1, 0, 0, 0, 0) = Modulus * Seconds(n, 0, 0, 0) + 0
  <2>1. year + 1 \in Int /\ year + 1 > 0 /\ 1 \in Int /\ 0 \in Nat
    OBVIOUS
  <2>2. DLTime(year + 1, 1, 0, 0, 0, 0) = Modulus * Seconds(Start(year + 1) + 1 - 1, 0, 0, 0) + 0
    BY <2>1, DLTimeIs
  <2>3. Start(year + 1) + 1 - 1 = n
    BY <1>2
  <2> QED BY <2>2, <2>3
<1>4. DLTime(year, LengthOfYear(year), DayHours - 1, HourMins - 1, MinSecs - 1, Modulus - 1)
        = Modulus * Seconds(n - 1, DayHours - 1, HourMins - 1, MinSecs - 1) + (Modulus - 1)
  <2>1. /\ LengthOfYear(year) \in Int /\ DayHours - 1 \in Nat /\ HourMins - 1 \in Nat /\ MinSecs - 1 \in Nat
        /\ Modulus - 1 \in Nat /\ year > 0
    BY <1>1
  <2>2. Start(year) + LengthOfYear(year) - 1 = n - 1
    BY <1>1, <1>2
  <2>3. DLTime(year, LengthOfYear(year), DayHours - 1, HourMins - 1, MinSecs - 1, Modulus - 1)
        = Modulus * Seconds(Start(year) + LengthOfYear(year) - 1, DayHours - 1, HourMins - 1, MinSecs - 1)
          + (Modulus - 1)
    BY <2>1, DLTimeIs
  <2> QED BY <2>2, <2>3
<1>5. Seconds(n - 1, DayHours - 1, HourMins - 1, MinSecs - 1) + 1 = Seconds(n, 0, 0, 0)
  <2>1. PICK y \in Int : y = DayHours * n
    BY <1>1
  <2>2. DayHours * (n - 1) + (DayHours - 1) = y - 1 /\ DayHours * n + 0 = y
    BY <1>1, <2>1
  <2>3. PICK x \in Int : x = HourMins * y
    BY <1>1
  <2>4. HourMins * (y - 1) + (HourMins - 1) = x - 1 /\ HourMins * y + 0 = x
    BY <1>1, <2>3
  <2>5. MinSecs * (x - 1) + (MinSecs - 1) + 1 = MinSecs * x + 0
    BY <1>1
  <2> QED BY <2>2, <2>4, <2>5 DEF Seconds
<1>6. Seconds(n, 0, 0, 0) \in Int /\ Seconds(n - 1, DayHours - 1, HourMins - 1, MinSecs - 1) \in Int
  BY <1>1 DEF Seconds
<1>7. PICK k \in Int : k = Seconds(n - 1, DayHours - 1, HourMins - 1, MinSecs - 1)
  BY <1>6
<1>8. Modulus * (k + 1) + 0 = Modulus * k + (Modulus - 1) + 1
  BY <1>1
<1> QED BY <1>3, <1>4, <1>5, <1>7, <1>8

-----------------------------------------------------------------------------
(* The month of a day of the year.                                         *)
InMonth(year, d, k) == d - DaysBefore(year, k) \in 0..(DaysIn(year, k) - 1)

LEMMA OneMonth ==
  ASSUME NEW year \in Int, NEW d \in 0..(LengthOfYear(year) - 1)
  PROVE  \E k \in 1..12 : InMonth(year, d, k) /\ \A j \in 1..12 : InMonth(year, d, j) => j = k
<1>1. LeapDay(year) \in 0..1 /\ LengthOfYear(year) = 365 + LeapDay(year)
  BY DEF LeapDay, LengthOfYear
<1>2. \A m \in 1..13 : DaysBefore(year, m) \in Nat
  BY <1>1, MonthStarts
<1>3. \A m \in 1..12 : DaysBefore(year, m + 1) = DaysBefore(year, m) + DaysIn(year, m)
  <2>1. \A m \in 1..12 : m + 1 \in 2..13 /\ m + 1 - 1 = m
    OBVIOUS
  <2> QED BY <2>1, Months
<1>4. \A m \in 1..12 : DaysIn(year, m) \in 28..31
  BY DEF DaysIn
<1>5. \A i, j \in 1..13 : i <= j => DaysBefore(year, i) <= DaysBefore(year, j)
  BY <1>1, MonthStarts
<1>6. \A k \in 1..12 : InMonth(year, d, k) <=> DaysBefore(year, k) <= d /\ d < DaysBefore(year, k + 1)
  BY <1>1, <1>2, <1>3, <1>4 DEF InMonth
<1>7. \A j, k \in 1..12 : InMonth(year, d, j) /\ InMonth(year, d, k) => j = k
  <2>1. ASSUME NEW j \in 1..12, NEW k \in 1..12, InMonth(year, d, j), InMonth(year, d, k), j < k
        PROVE  FALSE
    <3>1. j + 1 \in 1..13 /\ k \in 1..13 /\ j + 1 <= k
      BY <2>1
    <3>2. DaysBefore(year, j + 1) <= DaysBefore(year, k)
      BY <1>5, <3>1
    <3>3. /\ DaysBefore(year, j + 1) \in Nat /\ DaysBefore(year, k) \in Nat
          /\ d < DaysBefore(year, j + 1) /\ DaysBefore(year, k) <= d
      BY <1>2, <1>6, <2>1, <3>1
    <3> QED BY <1>1, <3>2, <3>3
  <2> QED BY <2>1
<1>8. \E k \in 1..12 : InMonth(year, d, k)
  <2> SUFFICES ASSUME \A k \in 1..12 : ~InMonth(year, d, k) PROVE FALSE
    OBVIOUS
  <2>1. \A k \in 1..12 : DaysBefore(year, k) <= d => DaysBefore(year, k + 1) <= d
    <3> SUFFICES ASSUME NEW k \in 1..12, DaysBefore(year, k) <= d PROVE DaysBefore(year, k + 1) <= d
      OBVIOUS
    <3>1. DaysBefore(year, k + 1) \in Nat
      BY <1>2
    <3> QED BY <1>1, <1>6, <3>1
  <2>2. DaysBefore(year, 1) <= d
    BY <1>1, Months
  <2>3. DaysBefore(year, 7) <= d
    BY <2>1, <2>2
  <2>4. DaysBefore(year, 13) <= d
    BY <2>1, <2>3
  <2>5. DaysBefore(year, 13) = 365 + LeapDay(year)
    BY <1>1, MonthStarts
  <2> QED BY <1>1, <2>4, <2>5
<1> QED BY <1>7, <1>8

(* What a time is shown as.                                                *)
LEMMA DateIs ==
  ASSUME NEW year \in Int, NEW d \in 0..(LengthOfYear(year) - 1), NEW t \in Int, t = Start(year) + d,
         NEW hour, NEW min, NEW sec, NEW k \in 1..12, InMonth(year, d, k)
  PROVE  Date(YearOf(t), t, hour, min, sec) =
           [year |-> year, yday |-> d + 1, mon |-> k, mday |-> d - DaysBefore(year, k) + 1,
            hour |-> hour, min |-> min, sec |-> sec, wday |-> (t + 4) % 7]
<1>1. YearOf(t) = IF t >= 0 THEN <<year, d>> ELSE <<year, d - LengthOfYear(year)>>
  BY YearFound
<1>2. LengthOfYear(year) \in 365..366
  BY YearStarts
<1>3. YearOf(t)[1] = year /\ (IF t >= 0 THEN YearOf(t)[2] ELSE YearOf(t)[2] + LengthOfYear(year)) = d
  BY <1>1, <1>2
<1>4. (CHOOSE j \in 1..12 : InMonth(year, d, j)) = k
  <2>1. \A j \in 1..12 : InMonth(year, d, j) => j = k
    BY OneMonth
  <2> QED BY <2>1
<1> DEFINE y == YearOf(t)[1]
           yday == IF t >= 0 THEN YearOf(t)[2] ELSE YearOf(t)[2] + LengthOfYear(y)
           mon == CHOOSE j \in 1..12 : InMonth(y, yday, j)
<1>5. Date(YearOf(t), t, hour, min, sec) =
        [year |-> y, yday |-> yday + 1, mon |-> mon, mday |-> yday - DaysBefore(y, mon) + 1,
         hour |-> hour, min |-> min, sec |-> sec, wday |-> (t + 4) % 7]
  BY Zenon DEF Date, InMonth
<1>6. y = year /\ yday = d
  BY <1>3
<1> HIDE DEF y, yday
<1>7. mon = k
  BY <1>4, <1>6
<1> HIDE DEF mon
<1> QED BY <1>5, <1>6, <1>7, Zenon

LEMMA TimeStrIs ==
  ASSUME NEW S \in Int, NEW usec \in 0..(Modulus - 1)
  PROVE  TimeStr(Modulus * S + usec).tm = GMTime(S) /\ TimeStr(Modulus * S + usec).fract = usec
<1>1. Modulus \in Nat \ {0}
  BY TimesAssumption
<1>2. PICK t \in Int, u \in 0..1 : t = Modulus * S + usec /\ u = Up(S, usec)
  BY <1>1 DEF Up
<1>3. Quot(t, Modulus) = S + u /\ (t < 0 <=> S < 0)
  BY <1>1, <1>2, Divided
<1>4. t - (S + u) * Modulus = usec - Modulus * u
  BY <1>1, <1>2
<1> DEFINE isec   == Quot(t, Modulus)
           ifract == t - isec * Modulus
           before == t < 0 /\ ifract # 0
<1>5. isec = S + u /\ ifract = usec - Modulus * u
  BY <1>3, <1>4
<1> HIDE DEF isec, ifract
<1>6. before <=> u = 1
  BY <1>1, <1>2, <1>3, <1>5 DEF Up
<1>7. /\ TimeStr(t).tm = GMTime(IF before THEN isec - 1 ELSE isec)
      /\ TimeStr(t).fract = IF before THEN Modulus + ifract ELSE ifract
  BY DEF TimeStr, isec, ifract
<1> HIDE DEF before
<1>8. (IF before THEN isec - 1 ELSE isec) = S /\ (IF before THEN Modulus + ifract ELSE ifract) = usec
  BY <1>1, <1>5, <1>6
<1> QED BY <1>2, <1>7, <1>8

-----------------------------------------------------------------------------
(* Dates read and written as days of the year.                             *)
MonthOf(year, jday) == CHOOSE m \in 1..12 : jday - DaysBefore(year, m) \in 1..DaysIn(year, m)

Taken(year) == year \in 1900..2100

LEMMA Doy2MDIs ==
  ASSUME NEW year, NEW jday
  PROVE  Taken(year) /\ jday \in 1..LengthOfYear(year) =>
           Doy2MD(year, jday) = [error |-> FALSE, month |-> MonthOf(year, jday),
                                 mday |-> jday - DaysBefore(year, MonthOf(year, jday))]
<1>1. Doy2MD(year, jday) =
        IF year \notin 1900..2100 \/ jday \notin 1..LengthOfYear(year) THEN DLTERROR
        ELSE [error |-> FALSE, month |-> MonthOf(year, jday),
              mday |-> jday - DaysBefore(year, MonthOf(year, jday))]
  BY DEF Doy2MD, MonthOf
<1> QED BY <1>1 DEF Taken

LEMMA MD2DoyIs ==
  ASSUME NEW year, NEW month, NEW mday
  PROVE  Taken(year) /\ month \in 1..12 /\ ~(mday < 1) /\ ~(mday > DaysIn(year, month)) =>
           MD2Doy(year, month, mday) = [error |-> FALSE, jday |-> DaysBefore(year, month) + mday]
<1>1. MD2Doy(year, month, mday) =
        IF year \notin 1900..2100 \/ month \notin 1..12 \/ mday < 1 THEN DLTERROR
        ELSE IF mday > DaysIn(year, month) THEN DLTERROR
        ELSE [error |-> FALSE, jday |-> DaysBefore(year, month) + mday]
  BY DEF MD2Doy
<1> QED BY <1>1 DEF Taken

DayRead(year, d, k) ==
  /\ Doy2MD(year, d + 1) = [error |-> FALSE, month |-> k, mday |-> d - DaysBefore(year, k) + 1]
  /\ MD2Doy(year, k, d - DaysBefore(year, k) + 1) = [error |-> FALSE, jday |-> d + 1]

LEMMA DayOfYear ==
  ASSUME NEW year \in Int, Taken(year), NEW d \in 0..(LengthOfYear(year) - 1), NEW k \in 1..12,
         InMonth(year, d, k)
  PROVE  DayRead(year, d, k)
<1>1. /\ LengthOfYear(year) \in 365..366
      /\ \A j \in 1..12 : DaysBefore(year, j) \in Int /\ DaysIn(year, j) \in Int
  <2>1. LeapDay(year) \in 0..1
    BY DEF LeapDay
  <2> QED BY <2>1, MonthStarts, YearStarts DEF DaysIn
<1>2. PICK jday \in Int : jday = d + 1
  BY <1>1
<1>3. PICK mday \in Int : mday = d - DaysBefore(year, k) + 1
  BY <1>1
<1>4. \A j \in 1..12 : InMonth(year, d, j) <=> jday - DaysBefore(year, j) \in 1..DaysIn(year, j)
  BY <1>1, <1>2 DEF InMonth
<1>5. MonthOf(year, jday) = k
  <2>1. \A j \in 1..12 : InMonth(year, d, j) => j = k
    BY OneMonth
  <2> QED BY <1>4, <2>1, Zenon DEF MonthOf
<1>6. /\ jday \in 1..LengthOfYear(year) /\ jday - DaysBefore(year, k) = mday
      /\ DaysBefore(year, k) + mday = jday /\ ~(mday < 1) /\ ~(mday > DaysIn(year, k))
  BY <1>1, <1>2, <1>3 DEF InMonth
<1>7. Doy2MD(year, jday) = [error |-> FALSE, month |-> k, mday |-> mday]
  BY <1>5, <1>6, Doy2MDIs, Zenon
<1>8. MD2Doy(year, k, mday) = [error |-> FALSE, jday |-> jday]
  BY <1>6, MD2DoyIs, Zenon
<1> QED BY <1>2, <1>3, <1>7, <1>8, Zenon DEF DayRead

LEMMA TimeStr2DLTimeIs ==
  ASSUME NEW year, NEW month, NEW mday, NEW hour, NEW min, NEW sec, NEW usec, NEW jday,
         MD2Doy(year, month, mday) = [error |-> FALSE, jday |-> jday], OfDay(hour, min, sec, usec)
  PROVE  TimeStr2DLTime(<<year, month, mday, hour, min, sec, usec>>)
           = [error |-> FALSE, time |-> DLTime(year, jday, hour, min, sec, usec)]
<1> DEFINE f == <<year, month, mday, hour, min, sec, usec>>
<1>1. /\ f # <<>> /\ Field(f, 1, 0) = year /\ Field(f, 2, 1) = month /\ Field(f, 3, 1) = mday
      /\ Field(f, 4, 0) = hour /\ Field(f, 5, 0) = min /\ Field(f, 6, 0) = sec /\ Field(f, 7, 0) = usec
  BY DEF Field
<1> HIDE DEF f
<1>2. TimeStr2DLTime(f) = [error |-> FALSE, time |-> DLTime(year, jday, hour, min, sec, usec)]
  <2>1. TimeStr2DLTime(f) =
          LET day == MD2Doy(Field(f, 1, 0), Field(f, 2, 1), Field(f, 3, 1))
          IN  IF f # <<>> /\ ~day.error /\ OfDay(Field(f, 4, 0), Field(f, 5, 0), Field(f, 6, 0), Field(f, 7, 0))
              THEN [error |-> FALSE,
                    time |-> DLTime(Field(f, 1, 0), day.jday, Field(f, 4, 0), Field(f, 5, 0), Field(f, 6, 0),
                                    Field(f, 7, 0))]
              ELSE DLTERROR
    BY Zenon DEF TimeStr2DLTime
  <2>2. [error |-> FALSE, jday |-> jday].error = FALSE /\ [error |-> FALSE, jday |-> jday].jday = jday
    OBVIOUS
  <2> QED BY <1>1, <2>1, <2>2, Zenon
<1> QED BY <1>2 DEF f

(* TimesAgree, for every date that the conversions take and any lengths of *)
(* a second, a minute, an hour and a day.                                  *)
THEOREM TimesAlwaysAgree ==
  ASSUME NEW year \in DLYears, NEW yday \in Days, NEW hour \in 0..(DayHours - 1),
         NEW min \in 0..(HourMins - 1), NEW sec \in 0..(MinSecs - 1), NEW usec \in 0..(Modulus - 1)
  PROVE  TimesAgree(year, yday, hour, min, sec, usec)
<1> USE DEF DLYears, Days
<1> SUFFICES ASSUME yday <= LengthOfYear(year) PROVE TimesAgree(year, yday, hour, min, sec, usec)
  BY DEF TimesAgree
<1>1. /\ Modulus \in Nat \ {0} /\ MinSecs \in Nat \ {0} /\ HourMins \in Nat \ {0} /\ DayHours \in Nat \ {0}
      /\ Start(year) \in Int /\ LengthOfYear(year) \in 365..366 /\ year \in Int
  BY TimesAssumption, YearStarts
<1>2. PICK d \in 0..(LengthOfYear(year) - 1) : yday = d + 1
  BY <1>1
<1>3. PICK k \in 1..12 : InMonth(year, d, k)
  BY <1>1, OneMonth
<1>4. PICK day \in Int : day = Start(year) + d
  BY <1>1, <1>2
<1>5. PICK S \in Int : S = Seconds(day, hour, min, sec)
  BY <1>1 DEF Seconds
<1> DEFINE t  == DLTime(year, yday, hour, min, sec, usec)
           tm == TimeStr(t).tm
<1>6. t = Modulus * S + usec
  <2>1. /\ year >= 1900 /\ yday \in Int /\ hour \in Nat /\ min \in Nat /\ sec \in Nat /\ usec \in Nat
        /\ Start(year) + yday - 1 = day
    BY <1>1, <1>2, <1>4
  <2>2. year \in Int /\ year > 0
    BY <2>1
  <2>3. t = Modulus * Seconds(Start(year) + yday - 1, hour, min, sec) + usec
    BY <2>1, <2>2, DLTimeIs
  <2> QED BY <1>5, <2>1, <2>3
<1>7. TimeStr(t).tm = GMTime(S) /\ TimeStr(t).fract = usec
  BY <1>6, TimeStrIs
<1>8. GMTime(S) = Date(YearOf(day), day, hour, min, sec)
  BY <1>5, GMTimeIs
<1>9. /\ tm.year = year /\ tm.yday = yday /\ tm.mon = k /\ tm.mday = d - DaysBefore(year, k) + 1
      /\ tm.hour = hour /\ tm.min = min /\ tm.sec = sec
  <2>1. Date(YearOf(day), day, hour, min, sec) =
          [year |-> year, yday |-> d + 1, mon |-> k, mday |-> d - DaysBefore(year, k) + 1,
           hour |-> hour, min |-> min, sec |-> sec, wday |-> (day + 4) % 7]
    BY <1>1, <1>3, <1>4, DateIs
  <2> QED BY <1>2, <1>7, <1>8, <2>1
<1> HIDE DEF t, tm
<1>10. OfDay(hour, min, sec, usec)
  BY <1>1 DEF OfDay
<1>11. SeedTimeStr2DLTime(<<year, yday, hour, min, sec, usec>>) = [error |-> FALSE, time |-> t]
  BY <1>10 DEF SeedTimeStr2DLTime, Field, t
<1>12. ASSUME year <= 2100
       PROVE  /\ Doy2MD(year, yday) = [error |-> FALSE, month |-> k, mday |-> d - DaysBefore(year, k) + 1]
              /\ TimeStr2DLTime(<<year, k, d - DaysBefore(year, k) + 1, hour, min, sec, usec>>)
                   = [error |-> FALSE, time |-> t]
  <2>1. Taken(year)
    BY <1>12 DEF Taken
  <2>2. DayRead(year, d, k)
    BY <1>1, <1>3, <2>1, DayOfYear
  <2>3. MD2Doy(year, k, d - DaysBefore(year, k) + 1) = [error |-> FALSE, jday |-> yday]
    BY <1>2, <2>2 DEF DayRead
  <2>4. TimeStr2DLTime(<<year, k, d - DaysBefore(year, k) + 1, hour, min, sec, usec>>)
          = [error |-> FALSE, time |-> t]
    BY <1>10, <2>3, TimeStr2DLTimeIs DEF t
  <2> QED BY <1>2, <2>2, <2>4 DEF DayRead
<1>13. DLTime(year + 1, 1, 0, 0, 0, 0) =
         DLTime(year, LengthOfYear(year), DayHours - 1, HourMins - 1, MinSecs - 1, Modulus - 1) + 1
  BY <1>1, YearFollows
<1> QED BY <1>7, <1>9, <1>11, <1>12, <1>13 DEF TimesAgree, t, tm

-----------------------------------------------------------------------------
(* The times of libmseed, in nanoseconds.                                  *)
LEMMA NSModulus == NSTModulus \in Nat \ {0} /\ NSTModulus = Modulus * Submicro /\ Submicro \in Nat \ {0}
<1>1. Modulus \in Nat \ {0} /\ Submicro \in Nat \ {0}
  BY TimesAssumption, NSTimesAssumption
<1> QED BY <1>1 DEF NSTModulus

LEMMA NSTimeIs ==
  ASSUME NEW year \in Int, year > 0, NEW yday \in Int, NEW hour \in Nat, NEW min \in Nat,
         NEW sec \in Nat, NEW nsec \in Int
  PROVE  Time2NSTimeInt(year, yday, hour, min, sec, nsec) =
           NSTModulus * Seconds(Start(year) + yday - 1, hour, min, sec) + nsec
<1> DEFINE S == Seconds(Start(year) + yday - 1, hour, min, sec)
<1>1. MinSecs \in Nat /\ HourMins \in Nat /\ DayHours \in Nat /\ Modulus \in Nat /\ Submicro \in Nat
  BY TimesAssumption, NSModulus
<1>2. S \in Int
  <2>1. Start(year) + yday - 1 \in Int
    BY YearStarts
  <2> QED BY <1>1, <2>1 DEF Seconds
<1>3. DLTime(year, yday, hour, min, sec, 0) = Modulus * S + 0
  BY DLTimeIs
<1> HIDE DEF S
<1>4. (Modulus * S + 0) * Submicro = Modulus * Submicro * S
  BY <1>1, <1>2
<1> QED BY <1>1, <1>2, <1>3, <1>4 DEF Time2NSTimeInt, NSTModulus, S

(* A time is split into seconds and nanoseconds that are not negative.     *)
LEMMA NSSplitIs ==
  ASSUME NEW S \in Int, NEW nsec \in 0..(NSTModulus - 1)
  PROVE  NSSplit(NSTModulus * S + nsec) = [sec |-> S, nsec |-> nsec]
<1>1. NSTModulus \in Nat \ {0}
  BY NSModulus
<1>2. PICK t \in Int, u \in 0..1 : t = NSTModulus * S + nsec /\ u = Up(S, nsec)
  BY <1>1 DEF Up
<1>3. Quot(t, NSTModulus) = S + u /\ (t < 0 <=> S < 0)
  BY <1>1, <1>2, Divided
<1>4. t - (S + u) * NSTModulus = nsec - NSTModulus * u
  BY <1>1, <1>2
<1> DEFINE isec   == Quot(t, NSTModulus)
           ifract == t - isec * NSTModulus
           before == t < 0 /\ ifract # 0
<1>5. isec = S + u /\ ifract = nsec - NSTModulus * u
  BY <1>3, <1>4
<1> HIDE DEF isec, ifract
<1>6. before <=> u = 1
  BY <1>1, <1>2, <1>3, <1>5 DEF Up
<1>7. NSSplit(t) = IF before THEN [sec |-> isec - 1, nsec |-> NSTModulus + ifract]
                   ELSE [sec |-> isec, nsec |-> ifract]
  BY Zenon DEF NSSplit, isec, ifract
<1> HIDE DEF before
<1>8. CASE before
  <2>1. isec - 1 = S /\ NSTModulus + ifract = nsec
    BY <1>1, <1>5, <1>6, <1>8
  <2> QED BY <1>2, <1>7, <1>8, <2>1, Zenon
<1>9. CASE ~before
  <2>1. isec = S /\ ifract = nsec
    BY <1>1, <1>2, <1>5, <1>6, <1>9
  <2> QED BY <1>2, <1>7, <1>9, <2>1, Zenon
<1> QED BY <1>8, <1>9

LEMMA Opposite ==
  ASSUME NEW B \in Nat \ {0}, NEW m \in Int, NEW x \in Nat, NEW y \in Nat, x + y = B * m
  PROVE  x % B = 0 <=> y % B = 0
<1>1. ASSUME NEW a \in Nat, NEW b \in Nat, a + b = B * m, a % B = 0 PROVE b % B = 0
  <2>1. PICK q \in Int : q = a \div B
    OBVIOUS
  <2>2. a = B * q
    <3>1. a % B = a - q * B
      BY <2>1
    <3> QED BY <1>1, <2>1, <3>1
  <2>3. PICK k \in Int : k = m - q
    OBVIOUS
  <2>4. b = B * k + 0
    BY <1>1, <2>2, <2>3
  <2>5. b \div B = k
    BY <2>4, DivUnique
  <2>6. b % B = b - B * k
    BY <2>5
  <2> QED BY <2>4, <2>6
<1>2. y + x = B * m
  OBVIOUS
<1>3. x % B = 0 => y % B = 0
  BY <1>1
<1>4. y % B = 0 => x % B = 0
  BY <1>1, <1>2, Zenon
<1> QED BY <1>3, <1>4

(* The fraction shown: no more than there is, and all of it where nothing  *)
(* is left out.                                                            *)
Whole(subseconds) == subseconds \in {"NANO", "NANO_NONE", "NANO_MICRO", "NANO_MICRO_NONE"}

LEMMA FractionIs ==
  ASSUME NEW subs \in Subseconds, NEW nsec \in Nat, NEW n \in Nat,
         n = 0 <=> nsec = 0, n % Submicro = 0 <=> nsec % Submicro = 0
  PROVE  LET f == Fraction(Digits(subs, nsec), n)
         IN  f \in Nat /\ f <= n /\ (Whole(subs) => f = n)
<1>1. Submicro \in Nat \ {0}
  BY NSModulus
<1>2. /\ n \div Submicro \in Int /\ n - (n \div Submicro) * Submicro \in 0..(Submicro - 1)
      /\ n % Submicro = n - (n \div Submicro) * Submicro
  <2>1. \A B \in Nat \ {0} : n % B = n - (n \div B) * B
    OBVIOUS
  <2> QED BY <1>1, <2>1, DivRemainder
<1> DEFINE digits == Digits(subs, nsec)
<1>3. PICK m \in Nat : m = (n \div Submicro) * Submicro
  <2>1. PICK B \in Nat \ {0}, q \in Int : B = Submicro /\ q = n \div Submicro
    BY <1>1, <1>2
  <2>2. n - q * B \in 0..(B - 1)
    BY <1>2, <2>1
  <2>3. q >= 0
    BY <2>1, <2>2
  <2>4. q * B \in Nat
    BY <2>1, <2>3
  <2> QED BY <2>1, <2>4
<1>4. m <= n /\ (n % Submicro = 0 => m = n)
  BY <1>1, <1>2, <1>3
<1>5. /\ digits \in {"none", "micro", "nano"}
      /\ Whole(subs) /\ digits = "none" => nsec = 0
      /\ Whole(subs) /\ digits = "micro" => nsec % Submicro = 0
  BY DEF Digits, Whole
<1> HIDE DEF digits
<1>6. /\ digits = "none" => Fraction(digits, n) = 0
      /\ digits = "micro" => Fraction(digits, n) = m
      /\ digits = "nano" => Fraction(digits, n) = n
  BY <1>3 DEF Fraction
<1>7. Fraction(digits, n) \in Nat /\ Fraction(digits, n) <= n /\ (Whole(subs) => Fraction(digits, n) = n)
  BY <1>4, <1>5, <1>6
<1> QED BY <1>7, Zenon DEF digits

(* Days of the year, read and written as libmseed does.                    *)
LEMMA NSDayOfYear ==
  ASSUME NEW year \in Int, ValidYear(year), NEW d \in 0..(LengthOfYear(year) - 1), NEW k \in 1..12,
         InMonth(year, d, k)
  PROVE  /\ NSDoy2MD(year, d + 1) = [error |-> FALSE, month |-> k, mday |-> d - DaysBefore(year, k) + 1]
         /\ NSMD2Doy(year, k, d - DaysBefore(year, k) + 1) = [error |-> FALSE, yday |-> d + 1]
<1>1. /\ LengthOfYear(year) \in 365..366
      /\ \A j \in 1..12 : DaysBefore(year, j) \in Int /\ DaysIn(year, j) \in Int
  <2>1. LeapDay(year) \in 0..1
    BY DEF LeapDay
  <2> QED BY <2>1, MonthStarts, YearStarts DEF DaysIn
<1>2. PICK jday \in Int : jday = d + 1
  BY <1>1
<1>3. PICK mday \in Int : mday = d - DaysBefore(year, k) + 1
  BY <1>1
<1>4. \A j \in 1..12 : InMonth(year, d, j) <=> jday - DaysBefore(year, j) \in 1..DaysIn(year, j)
  BY <1>1, <1>2 DEF InMonth
<1>5. MonthOf(year, jday) = k
  <2>1. \A j \in 1..12 : InMonth(year, d, j) => j = k
    BY OneMonth
  <2> QED BY <1>4, <2>1, Zenon DEF MonthOf
<1>6. /\ jday \in 1..LengthOfYear(year) /\ jday - DaysBefore(year, k) = mday
      /\ DaysBefore(year, k) + mday = jday /\ mday >= 0 /\ mday <= DaysIn(year, k)
  BY <1>1, <1>2, <1>3 DEF InMonth
<1>7. ValidYearDay(year, jday) /\ ValidMonthDay(year, k, mday)
  BY <1>6 DEF ValidYearDay, ValidMonthDay
<1>8. NSDoy2MD(year, jday) = [error |-> FALSE, month |-> MonthOf(year, jday),
                              mday |-> jday - DaysBefore(year, MonthOf(year, jday))]
  <2>1. NSDoy2MD(year, jday) =
          IF ValidYear(year) /\ ValidYearDay(year, jday)
          THEN [error |-> FALSE, month |-> MonthOf(year, jday),
                mday |-> jday - DaysBefore(year, MonthOf(year, jday))] ELSE NSTERROR
    BY DEF NSDoy2MD, MonthOf
  <2> QED BY <1>7, <2>1
<1>9. NSMD2Doy(year, k, mday) = [error |-> FALSE, yday |-> DaysBefore(year, k) + mday]
  <2>1. NSMD2Doy(year, k, mday) =
          IF ValidYear(year) /\ ValidMonthDay(year, k, mday)
          THEN [error |-> FALSE, yday |-> DaysBefore(year, k) + mday] ELSE NSTERROR
    BY DEF NSMD2Doy
  <2> QED BY <1>7, <2>1
<1> QED BY <1>2, <1>3, <1>5, <1>6, <1>8, <1>9, Zenon

(* Strings that are read.                                                  *)
LEMMA MDTimeIs ==
  ASSUME NEW year, NEW month, NEW mday, NEW hour, NEW min, NEW sec, NEW nsec, NEW yday,
         NSMD2Doy(year, month, mday) = [error |-> FALSE, yday |-> yday], ValidTime(hour, min, sec, nsec)
  PROVE  MDTimeStr2NSTime(<<year, month, mday, hour, min, sec>>, nsec)
           = NSTime(Time2NSTimeInt(year, yday, hour, min, sec, nsec))
<1> DEFINE f == <<year, month, mday, hour, min, sec>>
<1>1. /\ f # <<>> /\ Field(f, 1, 0) = year /\ Field(f, 2, 1) = month /\ Field(f, 3, 1) = mday
      /\ Field(f, 4, 0) = hour /\ Field(f, 5, 0) = min /\ Field(f, 6, 0) = sec
  BY DEF Field
<1> HIDE DEF f
<1>2. MDTimeStr2NSTime(f, nsec) = NSTime(Time2NSTimeInt(year, yday, hour, min, sec, nsec))
  <2>1. MDTimeStr2NSTime(f, nsec) =
          LET day == NSMD2Doy(Field(f, 1, 0), Field(f, 2, 1), Field(f, 3, 1))
          IN  IF f # <<>> /\ ~day.error /\ ValidTime(Field(f, 4, 0), Field(f, 5, 0), Field(f, 6, 0), nsec)
              THEN NSTime(Time2NSTimeInt(Field(f, 1, 0), day.yday, Field(f, 4, 0), Field(f, 5, 0),
                                         Field(f, 6, 0), nsec))
              ELSE NSTERROR
    BY Zenon DEF MDTimeStr2NSTime
  <2>2. [error |-> FALSE, yday |-> yday].error = FALSE /\ [error |-> FALSE, yday |-> yday].yday = yday
    OBVIOUS
  <2> QED BY <1>1, <2>1, <2>2, Zenon
<1> QED BY <1>2 DEF f

LEMMA SeedTimeIs ==
  ASSUME NEW year, NEW yday, NEW hour, NEW min, NEW sec, NEW nsec
  PROVE  SeedTimeStr2NSTime(<<year, yday, hour, min, sec>>, nsec)
           = Time2NSTime(year, yday, hour, min, sec, nsec)
<1> DEFINE f == <<year, yday, hour, min, sec>>
<1>1. /\ f # <<>> /\ Field(f, 1, 0) = year /\ Field(f, 2, 1) = yday
      /\ Field(f, 3, 0) = hour /\ Field(f, 4, 0) = min /\ Field(f, 5, 0) = sec
  BY DEF Field
<1> HIDE DEF f
<1>2. SeedTimeStr2NSTime(f, nsec) = Time2NSTime(year, yday, hour, min, sec, nsec)
  BY <1>1, Zenon DEF SeedTimeStr2NSTime
<1> QED BY <1>2 DEF f

(* What an epoch shows: the whole seconds towards 0, and what is left of   *)
(* them.                                                                   *)
Magnitude(n) == IF n < 0 THEN -n ELSE n
Left(t) == t - Quot(t, NSTModulus) * NSTModulus

LEMMA EpochShown ==
  ASSUME NEW S \in Int, NEW nsec \in 0..(NSTModulus - 1), NEW t \in Int, t = NSTModulus * S + nsec
  PROVE  /\ Quot(t, NSTModulus) = S + Up(S, nsec)
         /\ Left(t) = nsec - NSTModulus * Up(S, nsec)
         /\ Magnitude(Left(t)) \in Nat
         /\ Magnitude(Left(t)) = 0 <=> nsec = 0
         /\ Magnitude(Left(t)) % Submicro = 0 <=> nsec % Submicro = 0
<1>1. NSTModulus \in Nat \ {0} /\ Modulus \in Nat \ {0} /\ Submicro \in Nat \ {0} /\ NSTModulus = Submicro * Modulus
  BY NSModulus, TimesAssumption
<1>2. Quot(t, NSTModulus) = S + Up(S, nsec)
  BY <1>1, Divided
<1>3. PICK u \in 0..1 : u = Up(S, nsec)
  BY DEF Up
<1>4. t - (S + u) * NSTModulus = nsec - NSTModulus * u
  BY <1>1, <1>3
<1>5. Left(t) = nsec - NSTModulus * u
  BY <1>2, <1>3, <1>4 DEF Left
<1>6. CASE u = 0
  <2>1. Left(t) = nsec
    BY <1>1, <1>5, <1>6
  <2>2. Magnitude(Left(t)) = nsec
    BY <1>1, <2>1 DEF Magnitude
  <2> QED BY <1>2, <1>3, <1>5, <2>2
<1>7. CASE u = 1
  <2>1. nsec # 0
    BY <1>3, <1>7 DEF Up
  <2>2. Left(t) = nsec - NSTModulus
    BY <1>1, <1>5, <1>7
  <2>3. PICK n \in Nat \ {0} : n = NSTModulus - nsec
    BY <1>1, <2>1
  <2>4. Magnitude(Left(t)) = n
    BY <1>1, <2>2, <2>3 DEF Magnitude
  <2>5. n % Submicro = 0 <=> nsec % Submicro = 0
    <3>1. n + nsec = Submicro * Modulus /\ nsec \in Nat /\ n \in Nat
      BY <1>1, <2>3
    <3>2. Submicro \in Nat \ {0} /\ Modulus \in Int
      BY <1>1
    <3> QED BY <3>1, <3>2, Opposite, Zenon
  <2> QED BY <1>2, <1>3, <1>5, <2>1, <2>3, <2>4, <2>5
<1> QED BY <1>6, <1>7

(* What each group of formats shows, and how it is read.                   *)
MonthDays == {"ISOMONTHDAY", "ISOMONTHDAY_Z", "ISOMONTHDAY_SPACE", "ISOMONTHDAY_SPACE_Z"}

Joined(x1, x2, x3, x4, x5, x6) ==
  /\ <<x1, x2, x3>> \o <<x4, x5, x6>> = <<x1, x2, x3, x4, x5, x6>>
  /\ <<x1, x2>> \o <<x4, x5, x6>> = <<x1, x2, x4, x5, x6>>

LEMMA SixFields ==
  ASSUME NEW x1, NEW x2, NEW x3, NEW x4, NEW x5, NEW x6
  PROVE  Joined(x1, x2, x3, x4, x5, x6)
<1> DEFINE X == {x1, x2, x3, x4, x5, x6}
           a == <<x1, x2, x3>>
           b == <<x4, x5, x6>>
           c == <<x1, x2>>
           ab == <<x1, x2, x3, x4, x5, x6>>
           cb == <<x1, x2, x4, x5, x6>>
<1>1. a \in Seq(X) /\ b \in Seq(X) /\ c \in Seq(X) /\ ab \in Seq(X) /\ cb \in Seq(X)
  OBVIOUS
<1>2. /\ Len(a) = 3 /\ Len(b) = 3 /\ Len(c) = 2 /\ Len(ab) = 6 /\ Len(cb) = 5
      /\ a[1] = x1 /\ a[2] = x2 /\ a[3] = x3 /\ b[1] = x4 /\ b[2] = x5 /\ b[3] = x6 /\ c[1] = x1 /\ c[2] = x2
      /\ ab[1] = x1 /\ ab[2] = x2 /\ ab[3] = x3 /\ ab[4] = x4 /\ ab[5] = x5 /\ ab[6] = x6
      /\ cb[1] = x1 /\ cb[2] = x2 /\ cb[3] = x4 /\ cb[4] = x5 /\ cb[5] = x6
  OBVIOUS
<1> HIDE DEF a, b, c, ab, cb, X
<1>3. /\ a \o b \in Seq(X) /\ Len(a \o b) = Len(a) + Len(b)
      /\ \A i \in 1..(Len(a) + Len(b)) : (a \o b)[i] = IF i <= Len(a) THEN a[i] ELSE b[i - Len(a)]
  BY <1>1, ConcatProperties, Zenon
<1>4. /\ c \o b \in Seq(X) /\ Len(c \o b) = Len(c) + Len(b)
      /\ \A i \in 1..(Len(c) + Len(b)) : (c \o b)[i] = IF i <= Len(c) THEN c[i] ELSE b[i - Len(c)]
  BY <1>1, ConcatProperties, Zenon
<1>5. a \o b = ab
  <2>1. Len(a \o b) = Len(ab) /\ \A i \in 1..Len(a \o b) : (a \o b)[i] = ab[i]
    BY <1>2, <1>3
  <2> QED BY <1>1, <1>3, <2>1, SeqEqual, Zenon
<1>6. c \o b = cb
  <2>1. Len(c \o b) = Len(cb) /\ \A i \in 1..Len(c \o b) : (c \o b)[i] = cb[i]
    BY <1>2, <1>4
  <2> QED BY <1>1, <1>4, <2>1, SeqEqual, Zenon
<1> QED BY <1>5, <1>6 DEF Joined, a, b, c, ab, cb

LEMMA ShownAsDate ==
  ASSUME NEW tm, NEW t, NEW nsec, NEW digits, NEW format \in MonthDays
  PROVE  NSShown(tm, t, nsec, format, digits) =
           [form |-> "monthday", sign |-> FALSE,
            fields |-> <<tm.year, tm.mon, tm.mday, tm.hour, tm.min, tm.sec>>,
            digits |-> digits, fract |-> Fraction(digits, nsec)]
<1>1. <<tm.year, tm.mon, tm.mday>> \o <<tm.hour, tm.min, tm.sec>>
        = <<tm.year, tm.mon, tm.mday, tm.hour, tm.min, tm.sec>>
  <2>1. Joined(tm.year, tm.mon, tm.mday, tm.hour, tm.min, tm.sec)
    BY SixFields, Zenon
  <2> QED BY <2>1, Zenon DEF Joined
<1> DEFINE first == <<tm.year, tm.mon, tm.mday>>
           last  == <<tm.hour, tm.min, tm.sec>>
<1>2. NSShown(tm, t, nsec, format, digits) =
        [form |-> "monthday", sign |-> FALSE, fields |-> first \o last, digits |-> digits,
         fract |-> Fraction(digits, nsec)]
  BY DEF NSShown, MonthDays
<1> QED BY <1>1, <1>2, Zenon

LEMMA ShownAsOrdinal ==
  ASSUME NEW tm, NEW t, NEW nsec, NEW digits
  PROVE  NSShown(tm, t, nsec, "SEEDORDINAL", digits) =
           [form |-> "ordinal", sign |-> FALSE,
            fields |-> <<tm.year, tm.yday, tm.hour, tm.min, tm.sec>>,
            digits |-> digits, fract |-> Fraction(digits, nsec)]
<1>1. <<tm.year, tm.yday>> \o <<tm.hour, tm.min, tm.sec>> = <<tm.year, tm.yday, tm.hour, tm.min, tm.sec>>
  <2>1. Joined(tm.year, tm.yday, tm.yday, tm.hour, tm.min, tm.sec)
    BY SixFields, Zenon
  <2> QED BY <2>1, Zenon DEF Joined
<1> DEFINE first == <<tm.year, tm.yday>>
           last  == <<tm.hour, tm.min, tm.sec>>
<1>2. NSShown(tm, t, nsec, "SEEDORDINAL", digits) =
        [form |-> "ordinal", sign |-> FALSE, fields |-> first \o last, digits |-> digits,
         fract |-> Fraction(digits, nsec)]
  BY DEF NSShown
<1> QED BY <1>1, <1>2, Zenon

LEMMA ShownAsEpoch ==
  ASSUME NEW tm, NEW t, NEW nsec, NEW digits
  PROVE  NSShown(tm, t, nsec, "UNIXEPOCH", digits) =
           [form |-> "epoch", sign |-> Quot(t, NSTModulus) < 0,
            fields |-> <<Magnitude(Quot(t, NSTModulus))>>,
            digits |-> digits, fract |-> Fraction(digits, Magnitude(Left(t)))]
<1> DEFINE q == Quot(t, NSTModulus)
<1>1. NSShown(tm, t, nsec, "UNIXEPOCH", digits) =
        [[form |-> "epoch", sign |-> FALSE, fields |-> <<Magnitude(q)>>, digits |-> digits,
          fract |-> Fraction(digits, Magnitude(Left(t)))] EXCEPT !.sign = q < 0]
  BY DEF NSShown, Magnitude, Left
<1> HIDE DEF q
<1>2. \A r : [[form |-> "epoch", sign |-> FALSE, fields |-> <<Magnitude(q)>>, digits |-> digits,
                fract |-> r] EXCEPT !.sign = q < 0]
            = [form |-> "epoch", sign |-> q < 0, fields |-> <<Magnitude(q)>>, digits |-> digits, fract |-> r]
  OBVIOUS
<1>3. NSShown(tm, t, nsec, "UNIXEPOCH", digits) =
        [form |-> "epoch", sign |-> q < 0, fields |-> <<Magnitude(q)>>, digits |-> digits,
         fract |-> Fraction(digits, Magnitude(Left(t)))]
  BY <1>1, <1>2, Zenon
<1> QED BY <1>3 DEF q

LEMMA StringsRead ==
  ASSUME NEW str
  PROVE  /\ str.form = "monthday" => TimeStr2NSTime(str) = MDTimeStr2NSTime(str.fields, str.fract)
         /\ str.form = "ordinal" => TimeStr2NSTime(str) = SeedTimeStr2NSTime(str.fields, str.fract)
  BY DEF TimeStr2NSTime

LEMMA EpochRead ==
  ASSUME NEW str, str.form = "epoch", ~IsYear(str)
  PROVE  TimeStr2NSTime(str) =
           LET sec == (IF str.sign THEN -str.fields[1] ELSE str.fields[1]) * NSTModulus
           IN  NSTime(IF sec >= 0 THEN sec + str.fract ELSE sec - str.fract)
  BY DEF TimeStr2NSTime

(* The last digit shown.                                                   *)
ReadAs(read, t, subseconds) ==
  ~read.error /\ read.time \in IF Whole(subseconds) THEN {t}
                              ELSE (t - NSTModulus + 1)..(t + NSTModulus - 1)

LEMMA NearEnough ==
  ASSUME NEW t \in Int, NEW u \in Int, NEW subs, t - u \in (1 - NSTModulus)..(NSTModulus - 1),
         Whole(subs) => u = t
  PROVE  ReadAs(NSTime(u), t, subs)
<1>1. NSTime(u).error = FALSE /\ NSTime(u).time = u
  BY DEF NSTime
<1>2. NSTModulus \in Int
  BY NSModulus
<1>3. ~Whole(subs) => u \in (t - NSTModulus + 1)..(t + NSTModulus - 1)
  BY <1>2
<1> QED BY <1>1, <1>3 DEF ReadAs

LEMMA EpochIs ==
  ASSUME NEW S \in Int, NEW nsec \in 0..(NSTModulus - 1), NEW t \in Int, t = NSTModulus * S + nsec,
         NEW subs \in Subseconds, NEW tm, ~(t < 0 /\ t > -NSTModulus),
         ~IsYear(NSShown(tm, t, nsec, "UNIXEPOCH", Digits(subs, nsec)))
  PROVE  ReadAs(TimeStr2NSTime(NSShown(tm, t, nsec, "UNIXEPOCH", Digits(subs, nsec))), t, subs)
<1> DEFINE str == NSShown(tm, t, nsec, "UNIXEPOCH", Digits(subs, nsec))
<1>1. NSTModulus \in Nat \ {0}
  BY NSModulus
<1>2. PICK q \in Int, u \in 0..1 : q = Quot(t, NSTModulus) /\ u = Up(S, nsec) /\ q = S + u
  <2>1. Up(S, nsec) \in 0..1
    BY DEF Up
  <2> QED BY <2>1, EpochShown
<1>3. PICK left \in Int : left = Left(t) /\ left = nsec - NSTModulus * u
  BY <1>1, <1>2, EpochShown
<1>4. PICK n \in Nat : n = Magnitude(left)
  BY DEF Magnitude
<1>5. PICK f \in Nat : f = Fraction(Digits(subs, nsec), n) /\ f <= n /\ (Whole(subs) => f = n)
  <2>1. (n = 0 <=> nsec = 0) /\ (n % Submicro = 0 <=> nsec % Submicro = 0)
    BY <1>3, <1>4, EpochShown
  <2>2. nsec \in Nat
    BY <1>1
  <2> QED BY <2>1, <2>2, FractionIs
<1>6. str.form = "epoch" /\ (str.sign <=> q < 0) /\ str.fields[1] = Magnitude(q) /\ str.fract = f
  <2>1. str = [form |-> "epoch", sign |-> Quot(t, NSTModulus) < 0,
               fields |-> <<Magnitude(Quot(t, NSTModulus))>>,
               digits |-> Digits(subs, nsec), fract |-> Fraction(Digits(subs, nsec), Magnitude(Left(t)))]
    BY ShownAsEpoch, Zenon
  <2> HIDE DEF str
  <2> QED BY <1>2, <1>3, <1>4, <1>5, <2>1
<1> HIDE DEF str
<1>7. (IF str.sign THEN -str.fields[1] ELSE str.fields[1]) = q
  BY <1>6 DEF Magnitude
<1>8. TimeStr2NSTime(str) = NSTime(IF q * NSTModulus >= 0 THEN q * NSTModulus + f ELSE q * NSTModulus - f)
  <2>1. ~IsYear(str)
    BY DEF str
  <2>2. TimeStr2NSTime(str) =
          LET sec == (IF str.sign THEN -str.fields[1] ELSE str.fields[1]) * NSTModulus
          IN  NSTime(IF sec >= 0 THEN sec + str.fract ELSE sec - str.fract)
    BY <1>6, <2>1, EpochRead, Zenon
  <2> QED BY <1>6, <1>7, <2>2, Zenon
<1>9. PICK x \in Int : x = q * NSTModulus
  BY <1>1
<1>10. t = x + left
  <2>1. (S + u) * NSTModulus = NSTModulus * S + NSTModulus * u
    BY <1>1
  <2>2. NSTModulus * S \in Int /\ NSTModulus * u \in Int
    BY <1>1
  <2> QED BY <1>1, <1>2, <1>3, <1>9, <2>1, <2>2
<1>11. CASE S >= 0
  <2>1. u = 0 /\ q >= 0 /\ left = nsec
    BY <1>1, <1>2, <1>3, <1>11 DEF Up
  <2>2. x >= 0 /\ n = nsec
    BY <1>1, <1>4, <1>9, <2>1 DEF Magnitude
  <2>3. TimeStr2NSTime(str) = NSTime(x + f)
    BY <1>8, <1>9, <2>2
  <2>4. /\ x + f \in Int /\ t - (x + f) \in (1 - NSTModulus)..(NSTModulus - 1)
        /\ Whole(subs) => x + f = t
    BY <1>1, <1>5, <1>10, <2>1, <2>2
  <2>5. ReadAs(NSTime(x + f), t, subs)
    BY <2>4, NearEnough
  <2> QED BY <2>3, <2>5 DEF str
<1>12. CASE S < 0
  <2>1. q < 0
    <3>1. ASSUME S = -1, u = 1 PROVE FALSE
      <4>1. NSTModulus * S = -NSTModulus /\ nsec # 0
        BY <1>1, <1>2, <3>1 DEF Up
      <4> QED BY <1>1, <4>1
    <3> QED BY <1>2, <1>12, <3>1
  <2>2. x < 0
    BY <1>1, <1>9, <2>1
  <2>3. n + left = 0 /\ n <= NSTModulus - 1
    <3>1. u = 0 => nsec = 0
      BY <1>2, <1>12 DEF Up
    <3>2. u = 1 => nsec # 0
      BY <1>2 DEF Up
    <3>3. CASE u = 0
      <4>1. left = 0
        BY <1>1, <1>3, <3>1, <3>3
      <4>2. n = 0
        BY <1>4, <4>1 DEF Magnitude
      <4>3. n <= NSTModulus - 1
        BY <1>1, <4>2
      <4> QED BY <4>1, <4>2, <4>3
    <3>4. CASE u = 1
      <4>1. left = nsec - NSTModulus /\ left < 0
        BY <1>1, <1>3, <3>4
      <4>2. n = -left
        BY <1>4, <4>1 DEF Magnitude
      <4> QED BY <1>1, <3>2, <3>4, <4>1, <4>2
    <3> QED BY <3>3, <3>4
  <2>4. TimeStr2NSTime(str) = NSTime(x - f)
    BY <1>8, <1>9, <2>2
  <2>5. /\ x - f \in Int /\ t - (x - f) \in (1 - NSTModulus)..(NSTModulus - 1)
        /\ Whole(subs) => x - f = t
    BY <1>1, <1>5, <1>10, <2>3
  <2>6. ReadAs(NSTime(x - f), t, subs)
    BY <2>5, NearEnough
  <2> QED BY <2>4, <2>6 DEF str
<1> QED BY <1>11, <1>12

(* A date that libmseed takes.                                             *)
LEMMA DateAgrees ==
  ASSUME NEW year \in Int, year > 0, ValidYear(year), NEW yday \in Int, ValidYearDay(year, yday),
         NEW hour \in 0..(DayHours - 1), NEW min \in 0..(HourMins - 1), NEW sec \in 0..(MinSecs - 1),
         NEW nsec \in 0..(NSTModulus - 1), NEW format \in Formats, NEW subs \in Subseconds
  PROVE  NSTimesAgree(year, yday, hour, min, sec, nsec, format, subs)
<1>1. /\ NSTModulus \in Nat \ {0} /\ MinSecs \in Nat \ {0} /\ HourMins \in Nat \ {0} /\ DayHours \in Nat \ {0}
      /\ Start(year) \in Int /\ LengthOfYear(year) \in 365..366 /\ nsec \in Nat
  BY NSModulus, TimesAssumption, YearStarts
<1>2. PICK d \in 0..(LengthOfYear(year) - 1) : yday = d + 1
  BY <1>1 DEF ValidYearDay
<1>3. PICK k \in 1..12 : InMonth(year, d, k)
  BY <1>1, OneMonth
<1>4. PICK day \in Int : day = Start(year) + d
  BY <1>1, <1>2
<1>5. PICK S \in Int : S = Seconds(day, hour, min, sec)
  BY <1>1 DEF Seconds
<1>6. PICK mday : mday = d - DaysBefore(year, k) + 1
  OBVIOUS
<1> DEFINE T(f) == Time2NSTimeInt(year, yday, hour, min, sec, f)
           t    == T(nsec)
           tm   == NSGMTime(S)
<1>7. \A f \in Int : T(f) = NSTModulus * S + f
  <2> SUFFICES ASSUME NEW f \in Int PROVE T(f) = NSTModulus * S + f
    OBVIOUS
  <2>1. /\ hour \in Nat /\ min \in Nat /\ sec \in Nat
        /\ Start(year) + yday - 1 = day
    BY <1>1, <1>2, <1>4
  <2>2. T(f) = NSTModulus * Seconds(Start(year) + yday - 1, hour, min, sec) + f
    BY <1>1, <2>1, NSTimeIs, SMTT(30)
  <2> QED BY <1>5, <2>1, <2>2
<1>8. t = NSTModulus * S + nsec /\ t \in Int
  BY <1>1, <1>7
<1>9. NSSplit(t) = [sec |-> S, nsec |-> nsec]
  BY <1>8, NSSplitIs
<1>10. /\ tm.year = year /\ tm.yday = yday /\ tm.mon = k /\ tm.mday = mday
       /\ tm.hour = hour /\ tm.min = min /\ tm.sec = sec
  <2>1. GMTime(S) = Date(YearOf(day), day, hour, min, sec)
    BY <1>5, GMTimeIs
  <2>2. Date(YearOf(day), day, hour, min, sec) =
          [year |-> year, yday |-> d + 1, mon |-> k, mday |-> d - DaysBefore(year, k) + 1,
           hour |-> hour, min |-> min, sec |-> sec, wday |-> (day + 4) % 7]
    BY <1>1, <1>3, <1>4, DateIs
  <2> QED BY <1>2, <1>6, <2>1, <2>2 DEF NSGMTime
<1>11. /\ NSDoy2MD(year, yday) = [error |-> FALSE, month |-> k, mday |-> mday]
       /\ NSMD2Doy(year, k, mday) = [error |-> FALSE, yday |-> yday]
  <2>1. /\ NSDoy2MD(year, d + 1) = [error |-> FALSE, month |-> k, mday |-> d - DaysBefore(year, k) + 1]
        /\ NSMD2Doy(year, k, d - DaysBefore(year, k) + 1) = [error |-> FALSE, yday |-> d + 1]
    BY <1>3, NSDayOfYear, Zenon
  <2> QED BY <1>2, <1>6, <2>1, Zenon
<1>12. \A f \in 0..nsec : ValidTime(hour, min, sec, f)
  BY <1>1 DEF ValidTime
<1> DEFINE shown(fmt) == NSShown(tm, t, nsec, fmt, Digits(subs, nsec))
<1>14. NSTimeStr(t, format, subs) = shown(format)
  BY <1>9 DEF NSTimeStr
<1>15. \A f \in 0..nsec : NSTime(T(f)) = Time2NSTime(year, yday, hour, min, sec, f)
  BY <1>1, <1>12 DEF Time2NSTime
<1>16. PICK f \in 0..nsec : f = Fraction(Digits(subs, nsec), nsec) /\ (Whole(subs) => f = nsec)
  BY <1>1, FractionIs
<1> HIDE DEF T, t, tm
<1>17. ReadAs(NSTime(T(f)), t, subs)
  <2>1. T(f) = NSTModulus * S + f
    BY <1>1, <1>7
  <2>2. T(f) \in Int /\ t - T(f) \in (1 - NSTModulus)..(NSTModulus - 1) /\ (Whole(subs) => T(f) = t)
    BY <1>1, <1>8, <1>16, <2>1
  <2> QED BY <1>8, <2>2, NearEnough
<1> DEFINE Agrees == format = "UNIXEPOCH" => ~IsYear(shown(format)) /\ ~(t < 0 /\ t > -NSTModulus)
<1>18. ASSUME format \in MonthDays PROVE TimeStr2NSTime(shown(format)) = NSTime(T(f))
  <2>1. shown(format) = [form |-> "monthday", sign |-> FALSE,
                         fields |-> <<tm.year, tm.mon, tm.mday, tm.hour, tm.min, tm.sec>>,
                         digits |-> Digits(subs, nsec), fract |-> Fraction(Digits(subs, nsec), nsec)]
    BY <1>18, ShownAsDate, Zenon
  <2>2. TimeStr2NSTime(shown(format)) =
          MDTimeStr2NSTime(<<tm.year, tm.mon, tm.mday, tm.hour, tm.min, tm.sec>>,
                           Fraction(Digits(subs, nsec), nsec))
    <3> HIDE DEF shown
    <3>1. /\ shown(format).form = "monthday" /\ shown(format).fract = Fraction(Digits(subs, nsec), nsec)
          /\ shown(format).fields = <<tm.year, tm.mon, tm.mday, tm.hour, tm.min, tm.sec>>
      BY <2>1
    <3> QED BY <3>1, StringsRead, Zenon
  <2>3. ValidTime(hour, min, sec, f)
    BY <1>12
  <2>4. MDTimeStr2NSTime(<<year, k, mday, hour, min, sec>>, f)
          = NSTime(Time2NSTimeInt(year, yday, hour, min, sec, f))
    <3>1. NSMD2Doy(year, k, mday) = [error |-> FALSE, yday |-> yday]
      BY <1>11, Zenon
    <3> QED BY <2>3, <3>1, MDTimeIs
  <2>5. MDTimeStr2NSTime(<<tm.year, tm.mon, tm.mday, tm.hour, tm.min, tm.sec>>,
                           Fraction(Digits(subs, nsec), nsec)) =
        MDTimeStr2NSTime(<<year, k, mday, hour, min, sec>>, f)
    BY <1>10, <1>16, Zenon
  <2> QED BY <2>2, <2>4, <2>5, Zenon DEF T
<1>19. ASSUME format = "SEEDORDINAL" PROVE TimeStr2NSTime(shown(format)) = NSTime(T(f))
  <2>1. shown(format) = [form |-> "ordinal", sign |-> FALSE,
                         fields |-> <<tm.year, tm.yday, tm.hour, tm.min, tm.sec>>,
                         digits |-> Digits(subs, nsec), fract |-> Fraction(Digits(subs, nsec), nsec)]
    BY <1>19, ShownAsOrdinal, Zenon
  <2>2. TimeStr2NSTime(shown(format)) =
          SeedTimeStr2NSTime(<<tm.year, tm.yday, tm.hour, tm.min, tm.sec>>, Fraction(Digits(subs, nsec), nsec))
    <3> HIDE DEF shown
    <3>1. /\ shown(format).form = "ordinal" /\ shown(format).fract = Fraction(Digits(subs, nsec), nsec)
          /\ shown(format).fields = <<tm.year, tm.yday, tm.hour, tm.min, tm.sec>>
      BY <2>1
    <3> QED BY <3>1, StringsRead, Zenon
  <2>3. SeedTimeStr2NSTime(<<tm.year, tm.yday, tm.hour, tm.min, tm.sec>>, Fraction(Digits(subs, nsec), nsec))
          = SeedTimeStr2NSTime(<<year, yday, hour, min, sec>>, f)
    BY <1>10, <1>16, Zenon
  <2>4. SeedTimeStr2NSTime(<<year, yday, hour, min, sec>>, f) = Time2NSTime(year, yday, hour, min, sec, f)
    BY SeedTimeIs, Zenon
  <2>5. NSTime(T(f)) = Time2NSTime(year, yday, hour, min, sec, f)
    BY <1>15
  <2> QED BY <2>2, <2>3, <2>4, <2>5, Zenon
<1>20. ASSUME format = "UNIXEPOCH", Agrees PROVE ReadAs(TimeStr2NSTime(shown(format)), t, subs)
  <2>1. ~IsYear(NSShown(tm, t, nsec, "UNIXEPOCH", Digits(subs, nsec))) /\ ~(t < 0 /\ t > -NSTModulus)
    BY <1>20
  <2>2. ReadAs(TimeStr2NSTime(NSShown(tm, t, nsec, "UNIXEPOCH", Digits(subs, nsec))), t, subs)
    BY <1>8, <2>1, EpochIs
  <2> QED BY <1>20, <2>2
<1> HIDE DEF shown, Agrees
<1>21. format \notin {"ISOMONTHDAY_DOY", "ISOMONTHDAY_DOY_Z", "NANOSECONDEPOCH"} /\ Agrees
         => ReadAs(TimeStr2NSTime(NSTimeStr(t, format, subs)), t, subs)
  <2>1. format \in MonthDays \/ format \in {"SEEDORDINAL", "UNIXEPOCH"}
          \/ format \in {"ISOMONTHDAY_DOY", "ISOMONTHDAY_DOY_Z", "NANOSECONDEPOCH"}
    BY DEF Formats, MonthDays
  <2> QED BY <1>14, <1>17, <1>18, <1>19, <1>20, <2>1
<1>22. Time2NSTime(tm.year, tm.yday, tm.hour, tm.min, tm.sec, nsec) = NSTime(t)
  BY <1>1, <1>10, <1>15 DEF t
<1>23. NSTime2Time(t).tm = tm /\ NSTime2Time(t).nsec = nsec
  BY <1>9 DEF NSTime2Time, tm
<1> QED BY <1>11, <1>14, <1>21, <1>22, <1>23 DEF NSTimesAgree, ReadAs, Whole, Agrees, shown, t, T

(* NSTimesAgree, for every date that libmseed takes, any lengths of a      *)
(* second, a minute, an hour and a day, every format and every choice of   *)
(* subseconds.                                                             *)
THEOREM NSTimesAlwaysAgree ==
  ASSUME NEW year \in NSYears, NEW yday \in Days, NEW hour \in 0..(DayHours - 1),
         NEW min \in 0..(HourMins - 1), NEW sec \in 0..(MinSecs - 1), NEW nsec \in 0..(NSTModulus - 1),
         NEW format \in Formats, NEW subseconds \in Subseconds
  PROVE  NSTimesAgree(year, yday, hour, min, sec, nsec, format, subseconds)
<1> USE DEF NSYears, Days
<1>1. year \in Int /\ year > 0 /\ ValidYear(year) /\ yday \in Int
  BY DEF ValidYear
<1>2. CASE ValidYearDay(year, yday)
  BY <1>1, <1>2, DateAgrees
<1>3. CASE ~ValidYearDay(year, yday)
  BY <1>3 DEF NSTimesAgree
<1> QED BY <1>2, <1>3

-----------------------------------------------------------------------------
(* So it is of the times of every call: TimesRead, for any sets of dates.  *)
THEOREM TimesAreRead == TimesSpec => []TimesRead
<1>1. Idle => TimesRead
  BY DEF TimesRead, Called
<1>2. ASSUME TimesRead, [CallTimes \/ Return]_call
      PROVE  TimesRead'
  <2>1. CASE Calling("time", TimeArgs)
    <3>1. PICK t \in TimeArgs : call' = <<"time", t>>
      BY <2>1 DEF Calling
    <3>2. /\ t[1] \in DLYears /\ t[2] \in Days /\ t[3] \in 0..(DayHours - 1)
          /\ t[4] \in 0..(HourMins - 1) /\ t[5] \in 0..(MinSecs - 1) /\ t[6] \in 0..(Modulus - 1)
      BY <3>1, TimeArgsAssumption
    <3>3. TimesAgree(t[1], t[2], t[3], t[4], t[5], t[6])
      BY <3>2, TimesAlwaysAgree
    <3>4. call'[1] # "nstime" /\ call'[2] = t
      BY <3>1
    <3> QED BY <3>3, <3>4, Zenon DEF TimesRead, Called
  <2>2. CASE Calling("nstime", NSTimeArgs)
    <3>1. PICK t \in NSTimeArgs : call' = <<"nstime", t>>
      BY <2>2 DEF Calling
    <3>2. /\ t[1] \in NSYears /\ t[2] \in Days /\ t[3] \in 0..(DayHours - 1)
          /\ t[4] \in 0..(HourMins - 1) /\ t[5] \in 0..(MinSecs - 1) /\ t[6] \in 0..(NSTModulus - 1)
          /\ t[7] \in Formats /\ t[8] \in Subseconds
      BY <3>1, NSTimeArgsAssumption
    <3>3. NSTimesAgree(t[1], t[2], t[3], t[4], t[5], t[6], t[7], t[8])
      BY <3>2, NSTimesAlwaysAgree
    <3>4. call'[1] # "time" /\ call'[2] = t
      BY <3>1
    <3> QED BY <3>3, <3>4, Zenon DEF TimesRead, Called
  <2>3. CASE Return
    BY <2>3 DEF Return, Idle, TimesRead, Called
  <2>4. CASE UNCHANGED call
    BY <1>2, <2>4, Zenon DEF TimesRead, Called, Idle
  <2> QED BY <1>2, <2>1, <2>2, <2>3, <2>4 DEF CallTimes
<1> QED BY <1>1, <1>2, PTL DEF TimesSpec
=============================================================================
