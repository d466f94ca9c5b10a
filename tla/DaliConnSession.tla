--------------------------- MODULE DaliConnSession ---------------------------
(* DaliConn implements DLSession: the refinement mapping.                  *)
EXTENDS DaliConn

(* No session until dl_connect() has returned with one.                    *)
SessionMode ==
  CASE sock = "closed" \/ fn = "connect" -> "closed"
    [] sock = "open" /\ fn # "connect" /\ streaming = 0  -> "query"
    [] sock = "open" /\ fn # "connect" /\ streaming = 1  -> "streaming"
    [] sock = "open" /\ fn # "connect" /\ streaming = -1 -> "ending"

SessionServer ==
  CASE SessionMode = "closed" -> "none"
    [] SessionMode # "closed" /\ peer = "fin" -> "lost"
    [] SessionMode # "closed" /\ peer = "up" /\ smode = "stream" -> "streaming"
    [] SessionMode # "closed" /\ peer = "up" /\ smode = "query" ->
         IF \E i \in 1..Len(c2s) : c2s[i] = "STREAM" THEN "starting" ELSE "query"

Session == INSTANCE DLSession WITH mode <- SessionMode, server <- SessionServer

(* Every behaviour of a connection, calls, failures and server included,   *)
(* is one of the abstract session: streaming = 0 is regained only after    *)
(* the server has left streaming mode or is gone.                          *)
ImplementsSession == Session!Spec
=============================================================================
