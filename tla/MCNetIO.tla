------------------------------- MODULE MCNetIO ------------------------------
(* An instance of NetIO for TLC.                                           *)
EXTENDS NetIO

(* An application catches SIGALRM or does not: only where a timeout is     *)
(* kept by an alarm does it matter.                                        *)
AlarmsOnly == hasTimeo \/ iotimeout = 0 => hasHandler

NetIOInit == Init /\ AlarmsOnly

NetIOSpec == NetIOInit /\ [][Next]_vars /\ WF_vars(CallStep)
=============================================================================
