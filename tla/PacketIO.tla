------------------------------ MODULE PacketIO ------------------------------
(***************************************************************************)
(* What the network layer promises of a connection: packets come out of it *)
(* whole, each once, in the order the server sent them, until a call has   *)
(* reported an error; nothing is promised after that.  Without a timeout   *)
(* no call fails while both sides hold the connection.                     *)
(***************************************************************************)
EXTENDS Naturals, Sequences

CONSTANT Packet

VARIABLES
  queue,   \* packets on their way
  taken,   \* the last packet whose header was returned, <<>> before
  inSync,  \* no call has failed on this connection
  up,      \* both sides hold the connection
  timed    \* the application asked for a timeout

vars == <<queue, taken, inSync, up, timed>>

Init == queue = <<>> /\ taken = <<>> /\ inSync = FALSE /\ up = FALSE /\ timed \in BOOLEAN

Connected == inSync' = TRUE /\ up' = TRUE /\ queue' = <<>> /\ UNCHANGED <<taken, timed>>
Arrives   == /\ inSync /\ up /\ \E p \in Packet : queue' = Append(queue, p)
             /\ UNCHANGED <<taken, inSync, up, timed>>
Take      == /\ inSync /\ queue # <<>>
             /\ taken' = <<Head(queue)>> /\ queue' = Tail(queue)
             /\ UNCHANGED <<inSync, up, timed>>
\* the server goes, and takes the last packets with it
Gone      == /\ up /\ up' = FALSE /\ \E k \in 0..Len(queue) : queue' = SubSeq(queue, 1, k)
             /\ UNCHANGED <<taken, inSync, timed>>
Closed    == up' = FALSE /\ inSync' = FALSE /\ queue' = <<>> /\ UNCHANGED <<taken, timed>>
Fails     == /\ up => timed
             /\ inSync' = FALSE /\ queue' = <<>> /\ UNCHANGED <<taken, up, timed>>

Next == Connected \/ Arrives \/ Take \/ Gone \/ Closed \/ Fails

Spec == Init /\ [][Next]_vars
=============================================================================
