------------------------------ MODULE DLSession ------------------------------
(***************************************************************************)
(* The session a DataLink connection promises, without calls, packets or   *)
(* queues: the mode the client acts in and the mode of the server, which   *)
(* follows.  The client is back in query mode only after the server is, or *)
(* when the server is lost.                                                *)
(***************************************************************************)
VARIABLES
  mode,    \* the client's: "closed", "query", "streaming" or "ending"
  server   \* "none", "query", "starting" (STREAM is on its way), "streaming" or "lost"

vars == <<mode, server>>

TypeOK ==
  /\ mode \in {"closed", "query", "streaming", "ending"}
  /\ server \in {"none", "query", "starting", "streaming", "lost"}

Init == mode = "closed" /\ server = "none"

Open    == mode = "closed" /\ mode' = "query" /\ server' \in {"query", "lost"}
Start   == /\ mode = "query" /\ mode' = "streaming"
           /\ server' = IF server = "query" THEN "starting" ELSE server
Started == server = "starting" /\ server' = "streaming" /\ UNCHANGED mode
End     == mode = "streaming" /\ mode' = "ending" /\ UNCHANGED server
Ended   == mode = "ending" /\ server = "streaming" /\ server' = "query" /\ UNCHANGED mode
Done    == mode = "ending" /\ server \in {"query", "lost"} /\ mode' = "query" /\ UNCHANGED server
Lose    == server \notin {"none", "lost"} /\ server' = "lost" /\ UNCHANGED mode
Close   == mode # "closed" /\ mode' = "closed" /\ server' = "none"

Next == Open \/ Start \/ Started \/ End \/ Ended \/ Done \/ Lose \/ Close

Spec == Init /\ [][Next]_vars
=============================================================================
