-------------------------------- MODULE Logs --------------------------------
(***************************************************************************)
(* The loggers of libmseed and libdali (logging.c of each): a message is   *)
(* printed at once, or, in libmseed, a warning or an error may be kept in  *)
(* a registry until ms_rlog_emit() prints it or ms_rlog_free() drops it.   *)
(*                                                                         *)
(* Printing goes to the defaults, stdout and stderr.  Levels are 0..2: a   *)
(* lower one prints nothing.  Left out is what rlog_int() reads one before *)
(* or past its message, when that is empty or was cut.                     *)
(***************************************************************************)
EXTENDS Integers, Sequences, SequencesExt

CONSTANTS
  EndOfLine, Parens,   \* a newline; the "() " between a function and its message
  ErrPrefix,   \* the default prefix of an error
  RLogInit, TooLarge,  \* the name of rloginit_int() and its complaint of a prefix
  MaxText,     \* MAX_LOG_MSG_LENGTH
  MaxName,     \* the size of a registry entry's function
  Names, Said, \* the functions and texts of messages
  LogPrefixes, \* pairs of prefixes that are set together
  MaxLogged,   \* bound on the messages that are logged
  MaxKept      \* bound on the size of the registry

ASSUME LogsAssumption ==
  /\ MaxText \in Nat \ {0} /\ MaxName \in Nat \ {0} /\ MaxLogged \in Nat /\ MaxKept \in Nat
  /\ EndOfLine \in Int /\ {Parens, ErrPrefix, RLogInit, TooLarge} \cup Names \cup Said \subseteq Seq(Int)
  /\ \A p \in LogPrefixes : p[1] \in Seq(Int) /\ p[2] \in Seq(Int)

(* The global log parameters; id numbers the messages, shown is what the   *)
(* last call printed.                                                      *)
VARIABLE mslog

LogsInit == mslog = [maxmessages |-> 0, messagecnt |-> 0, messages |-> <<>>,
                     logprefix |-> <<>>, errprefix |-> ErrPrefix, logged |-> 0, shown |-> <<>>]
LogsIdle == mslog.logged = 0 /\ mslog.maxmessages = 0 /\ mslog.logprefix = <<>> /\ mslog.errprefix = ErrPrefix

Cut(text, size) == SubSeq(text, 1, IF Len(text) < size THEN Len(text) ELSE size - 1)

Stream(level) == IF level >= 1 THEN "stderr" ELSE "stdout"

Message(log, level, text) == Cut((IF level >= 2 THEN log.errprefix ELSE log.logprefix) \o text, MaxText)

Printed(level, id, text) == [id |-> id, stream |-> Stream(level), text |-> text]

-----------------------------------------------------------------------------
(* Mutant of Trimmed: the count, which only grows, takes one message off.  *)
Trimmed_ByCount(log) ==
  IF log.messagecnt > log.maxmessages THEN [log EXCEPT !.messages = Front(@)] ELSE log

(* The earliest messages make room.  The count of messages is never        *)
(* lowered: it only tells when to look.                                    *)
Trimmed(log) ==
  IF log.messagecnt > log.maxmessages
  THEN [log EXCEPT !.messages =
                     SubSeq(@, 1, IF log.maxmessages < Len(@) THEN log.maxmessages ELSE Len(@))]
  ELSE log

add_message_int(log, function, level, message) ==
  Trimmed([log EXCEPT !.messagecnt = @ + 1,
             !.messages = <<[id |-> log.logged, level |-> level, function |-> Cut(function, MaxName),
                             message |-> message]>> \o @])

Chopped(message) ==
  IF message # <<>> /\ Last(message) = EndOfLine THEN Front(message) ELSE message

rlog_int(log, function, level, text) ==
  LET numbered == [log EXCEPT !.logged = @ + 1]
      message  == Message(log, level, text)
  IN  IF level >= 1 /\ log.maxmessages > 0
      THEN add_message_int(numbered, function, level, Chopped(message))
      ELSE [numbered EXCEPT !.shown = Append(@, Printed(level, numbered.logged, message))]

(* An empty prefix stands for none: what was set before stays.  One that   *)
(* is too long is complained of and not taken.                             *)
Prefixed(log, field, prefix) ==
  IF Len(prefix) >= MaxText THEN rlog_int(log, RLogInit, 2, TooLarge)
  ELSE [log EXCEPT ![field] = prefix]

rloginit_int(log, logprefix, errprefix, maxmessages) ==
  LET l == IF logprefix = <<>> THEN log ELSE Prefixed(log, "logprefix", logprefix)
      e == IF errprefix = <<>> THEN l ELSE Prefixed(l, "errprefix", errprefix)
  IN  IF maxmessages >= 0 THEN [e EXCEPT !.maxmessages = maxmessages] ELSE e

(* The newest count messages, or all of them, leave the registry and are   *)
(* printed oldest first.                                                   *)
rlog_emit(log, count, context) ==
  LET n == IF count > 0 /\ count < Len(log.messages) THEN count ELSE Len(log.messages)
      Show(m) == IF context /\ m.function # <<>>
                 THEN m.function \o Parens \o Cut(m.message, MaxText - MaxName - Len(Parens) + 1)
                 ELSE m.message
      Line(m) == Printed(m.level, m.id, Show(m) \o <<EndOfLine>>)
  IN  [log EXCEPT !.messages = SubSeq(@, n + 1, Len(@)),
                  !.shown = @ \o [i \in 1..n |-> Line(log.messages[n + 1 - i])]]

-----------------------------------------------------------------------------
Quiet == [mslog EXCEPT !.shown = <<>>]

ms_rloginit ==
  \E p \in LogPrefixes, max \in -1..MaxKept :
    /\ mslog.logged + Cardinality({i \in {1, 2} : Len(p[i]) >= MaxText}) <= MaxLogged
    /\ mslog' = rloginit_int(Quiet, p[1], p[2], max)

ms_rlog ==
  /\ mslog.logged < MaxLogged
  /\ \E function \in Names, text \in Said, level \in 0..2 : mslog' = rlog_int(Quiet, function, level, text)

ms_rlog_emit == \E count \in 0..MaxKept, context \in BOOLEAN : mslog' = rlog_emit(Quiet, count, context)

ms_rlog_free == mslog' = [Quiet EXCEPT !.messages = <<>>]

LogsNext == ms_rloginit \/ ms_rlog \/ ms_rlog_emit \/ ms_rlog_free

LogsSpec == LogsInit /\ [][LogsNext]_mslog

-----------------------------------------------------------------------------
(* dl_loginit_main() and dl_log_main(): messages above the verbosity are   *)
(* not printed.                                                            *)
dl_log_main(log, level, verb, text) ==
  IF verb > log.verbosity THEN <<>>
  ELSE <<[stream |-> Stream(level), text |-> Message(log, level, text)]>>

dl_loginit_main(log, verbosity, logprefix, errprefix) ==
  LET Takes(p) == p # <<>> /\ Len(p) < MaxText
  IN  [verbosity |-> verbosity,
       logprefix |-> IF Takes(logprefix) THEN logprefix ELSE log.logprefix,
       errprefix |-> IF Takes(errprefix) THEN errprefix ELSE log.errprefix]

-----------------------------------------------------------------------------
Ids(messages) == [i \in DOMAIN messages |-> messages[i].id]
Ascending(s)  == \A i, j \in DOMAIN s : i < j => s[i] < s[j]

(* What libdali prints, libmseed prints as well under the same prefixes    *)
(* when it keeps no messages.  (dl_log_main(), rlog_int().)                *)
LoggersAgree(log, level, text) ==
  LET params == [log EXCEPT !.maxmessages = 0, !.shown = <<>>]
      dl == dl_loginit_main([verbosity |-> 0, logprefix |-> <<>>, errprefix |-> ErrPrefix], 0,
                            log.logprefix, log.errprefix)
      ms == rlog_int(params, <<>>, level, text).shown
  IN  /\ dl_log_main(dl, level, 1, text) = <<>>
      /\ dl_log_main(dl, level, 0, text) = <<[stream |-> ms[1].stream, text |-> ms[1].text]>>

(* The registry keeps the newest messages: a call prints messages oldest   *)
(* first, all of them newer than what is left; a message that is neither   *)
(* kept nor printed made room for newer ones that fill the registry, or    *)
(* all were freed; and a message that is added leaves no more than asked   *)
(* for.  And the loggers agree on how a message is printed.  (ms_rlog(),   *)
(* ms_rlog_emit(), ms_rlog_free(), ms_rloginit(), dl_log_main().)          *)
MessagesKept ==
  [][LET kept  == ToSet(Ids(mslog'.messages))
         shown == ToSet(Ids(mslog'.shown))
         new   == (mslog.logged + 1)..mslog'.logged
         lost  == (ToSet(Ids(mslog.messages)) \cup new) \ (kept \cup shown)
     IN  /\ Ascending(Ids(mslog'.shown)) /\ Ascending(Reverse(Ids(mslog'.messages)))
         /\ \A k \in kept, s \in shown : k < s
         /\ \/ lost = {} \/ kept \cup shown \cup new = {}
            \/ Cardinality(kept) = mslog.maxmessages /\ \A l \in lost, k \in kept : l < k
         /\ kept \cap new # {} => Cardinality(kept) <= mslog.maxmessages
         /\ shown # {} => \A level \in 0..2, text \in Said : LoggersAgree(mslog', level, text)]_mslog
=============================================================================
