----------------------------- MODULE MCDalitool -----------------------------
(* Instances of Dalitool for TLC.  The server is the address A; the file   *)
(* may come from a session with another server, B or AA, or have lost the  *)
(* start of its line.                                                      *)
EXTENDS Dalitool

CONSTANTS A, B

TheAddress == <<A>>
OldTexts ==
  { StateLine(<<B>>, 1, 5),
    StateLine(<<A, A>>, 30, 5) \o StateLine(<<A>>, 1, 5),
    StateLine(<<B>>, 30, 5) \o <<0, NL>> }
=============================================================================
