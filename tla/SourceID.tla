------------------------------ MODULE SourceID ------------------------------
(***************************************************************************)
(* FDSN source identifiers and the copying of fixed fields: genutils.c of  *)
(* libmseed.  "FDSN:" is one symbol here; what follows it is a sequence of *)
(* characters.                                                             *)
(***************************************************************************)
EXTENDS Text

CONSTANTS
  Fdsn,    \* "FDSN:"
  SidLen   \* the size of a buffer for an identifier

\* characters of "FDSN:"
FdsnLen == 5
SidSize(sid) == IF sid # <<>> /\ sid[1] = Fdsn THEN Len(sid) - 1 + FdsnLen ELSE Len(sid)

(* ms_seedchan2xchan() and ms_xchan2seedchan(): <<>> when they do not map. *)
SeedChan2XChan(chan) ==
  IF Len(chan) = 3 THEN <<chan[1], Underscore, chan[2], Underscore, chan[3]>> ELSE <<>>

XChan2SeedChan(xchan) ==
  IF Len(xchan) = 5 /\ xchan[2] = Underscore /\ xchan[4] = Underscore
  THEN <<xchan[1], xchan[3], xchan[5]>> ELSE <<>>

(* ms_nslc2sid()                                                           *)
NSLC2Sid(net, sta, loc, chan, sidlen) ==
  LET sid == <<Fdsn>> \o net \o <<Underscore>> \o sta \o <<Underscore>> \o loc \o <<Underscore>>
                \o (IF SeedChan2XChan(chan) # <<>> THEN SeedChan2XChan(chan) ELSE chan)
  IN  IF sidlen < 13 \/ SidSize(sid) >= sidlen THEN Error ELSE [error |-> FALSE, sid |-> sid]

(* Mutant of Sid2NSLC: the last code is not made a channel of SEED.        *)
Sid2NSLC_KeepsXChan(sid) ==
  LET parts == StrParse(Tail(sid), <<Underscore>>)
  IN  IF sid = <<>> \/ sid[1] # Fdsn THEN Error ELSE IF Len(parts) # 6 THEN Error
      ELSE [error |-> FALSE, net |-> parts[1], sta |-> parts[2], loc |-> parts[3],
            chan |-> parts[4] \o <<Underscore>> \o parts[5] \o <<Underscore>> \o parts[6]]

(* ms_sid2nslc(): other namespaces after FDSN are passed over.             *)
Sid2NSLC(sid) ==
  LET colons == Places(sid, Colon)
      id     == From(sid, IF colons = {} THEN 2 ELSE 1 + CHOOSE i \in colons : \A j \in colons : j <= i)
      parts  == StrParse(id, <<Underscore>>)
      xchan  == parts[4] \o <<Underscore>> \o parts[5] \o <<Underscore>> \o parts[6]
  IN  IF sid = <<>> \/ sid[1] # Fdsn THEN Error ELSE IF Len(parts) # 6 THEN Error
      ELSE [error |-> FALSE, net |-> parts[1], sta |-> parts[2], loc |-> parts[3],
            chan |-> IF XChan2SeedChan(xchan) # <<>> THEN XChan2SeedChan(xchan) ELSE xchan]

(* The fixed fields of a header: ms_strncpopen() pads, ms_strncpclean()    *)
(* and ms_strncpcleantail() take the blanks out again.                     *)
StrNCpOpen(source, length) ==
  SubSeq(source, 1, IF Len(source) < length THEN Len(source) ELSE length)
    \o [i \in 1..(IF Len(source) < length THEN length - Len(source) ELSE 0) |-> Blank]

StrNCpClean(source, length) ==
  LET Black(c) == c # Blank IN SelectSeq(SubSeq(source, 1, length), Black)

StrNCpCleanTail(source, length) ==
  LET black == {i \in 1..length : source[i] # Blank}
  IN  SubSeq(source, 1, IF black = {} THEN 0 ELSE CHOOSE i \in black : \A j \in black : j <= i)

-----------------------------------------------------------------------------
(* The codes of a channel are the same after they have been an identifier, *)
(* and after they have been in the fixed fields of a header: codes without *)
(* blanks, and a channel that is one of SEED or three codes.               *)
CodesKept(net, sta, loc, chan) ==
  LET sid == NSLC2Sid(net, sta, loc, chan, SidLen)
      codes == Len(StrParse(chan, <<Underscore>>))
  IN  /\ ~sid.error /\ (codes = 1 <=> Len(chan) = 3) /\ codes \in {1, 3} =>
           /\ Sid2NSLC(sid.sid).net = net /\ Sid2NSLC(sid.sid).sta = sta /\ Sid2NSLC(sid.sid).loc = loc
           /\ XChan2SeedChan(chan) = <<>> => Sid2NSLC(sid.sid).chan = chan
           /\ XChan2SeedChan(chan) # <<>> => Sid2NSLC(sid.sid).chan = XChan2SeedChan(chan)
      /\ Len(sta) <= 5 => /\ StrNCpClean(StrNCpOpen(sta, 5), 5) = sta
                          /\ StrNCpCleanTail(StrNCpOpen(sta, 5), 5) = sta
=============================================================================
