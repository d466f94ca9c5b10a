----------------------------- MODULE DaliConnInv -----------------------------
(***************************************************************************)
(* The inductive invariant behind QueryModeQuiet, CommandsFitMode and      *)
(* ImplementsSession: where the switches of mode, STREAM and ENDSTREAM,    *)
(* may be between the client and the server, for each value of streaming.  *)
(* And that behind ReplyInSync and OwnReply: what a call in progress on a  *)
(* connection in step may find on its way to the server and back.          *)
(***************************************************************************)
EXTENDS DaliConnSession

Has(q, c)  == \E i \in 1..Len(q) : q[i] = c
Once(q, c) == \A i, j \in 1..Len(q) : q[i] = c /\ q[j] = c => i = j
InOrder(q) == \A i, j \in 1..Len(q) : q[i] = "STREAM" /\ q[j] = "ENDSTREAM" => i < j

(* Commands the server will read while streaming are ID and ENDSTREAM.     *)
Fits(q, sm) ==
  \A i \in 1..Len(q) :
    (sm = "stream" \/ \E j \in 1..Len(q) : j < i /\ q[j] = "STREAM") =>
      q[i] \in {"ID", "ENDSTREAM", "TORN"}

(* The commands on their way, for a client in mode m and a server in sm.   *)
CommandInv(m, q, sm) ==
  /\ Once(q, "STREAM") /\ Once(q, "ENDSTREAM") /\ InOrder(q)
  /\ Fits(q, sm)
  /\ m = 0 => sm = "query" /\ ~Has(q, "STREAM") /\ ~Has(q, "ENDSTREAM")
  /\ m = 1 => ~Has(q, "ENDSTREAM") /\ (Has(q, "STREAM") <=> sm = "query")
  /\ m = -1 => IF Has(q, "ENDSTREAM") THEN Has(q, "STREAM") <=> sm = "query"
                                      ELSE sm = "query" /\ ~Has(q, "STREAM")

NoEnd(q) == \A i \in 1..Len(q) : q[i].k # "ENDSTREAM"

(* The units on their way back: nothing streamed follows an ENDSTREAM.     *)
UnitInv(m, q) ==
  /\ \A i \in 1..Len(q) : q[i].k = "ENDSTREAM" => q[i].src = "stream"
  /\ \A i, j \in 1..Len(q) : i < j /\ q[i].k = "ENDSTREAM" => q[j].src # "stream"
  /\ m = 0 => Quiet(q)
  /\ m = 1 => NoEnd(q)

(* What reading, or losing the end of the stream, leaves of it: units in   *)
(* the same order, some of the first ones gone or cut to DATA.             *)
Part(r, q) ==
  \E d \in 0..Len(q) :
    /\ Len(r) + d <= Len(q)
    /\ \A i \in 1..Len(r) : r[i].src = q[i + d].src /\ r[i].k \in {q[i + d].k, "DATA"}

(* Where a call may stand.                                                 *)
CallInv ==
  /\ pc # "idle" => sock = "open"
  /\ pc = "exchange" => c2s = <<>> /\ s2c = <<>> /\ smode = "query"
  /\ pc = "exchange" => fn = "connect"
  /\ fn = "connect" => pc \in {"exchange", "reply"}
  /\ fn = "connect" /\ pc = "reply" => streaming = 0
  /\ pc \in {"loop", "recv"} => fn \in CollectFns

SocketInv ==
  /\ sock = "closed" => peer = "fin" /\ s2c = <<>>
  /\ peer = "fin" => c2s = <<>> /\ smode = "query"

(* What holds of both directions once the connection is made.              *)
Settled ==
  /\ UnitInv(streaming, s2c)
  /\ peer = "up" =>
       /\ CommandInv(streaming, c2s, smode)
       /\ streaming = -1 /\ Has(c2s, "ENDSTREAM") => NoEnd(s2c)

WireInv == Connected => Settled

(* The inductive invariant: each call stands where the code can leave it,  *)
(* a closed or lost connection carries nothing, and the switches of mode   *)
(* on the wire are those that streaming = 0, 1 or -1 accounts for.         *)
IInv == TypeOK /\ CallInv /\ SocketInv /\ WireInv
-----------------------------------------------------------------------------
(* A connection in step.  The parameters: the mode m of the client, the    *)
(* call f that stands at p, the commands c and the units s on their way.   *)

Bodied == {"message", "data", "discard"}  \* where a call reads a body

(* A body, and nothing else, follows a header that has one; the first unit *)
(* may be the body of a header already read.                               *)
Framed(p, s) ==
  \A i \in 1..Len(s) : s[i].k = "DATA" <=> IF i = 1 THEN p \in Bodied ELSE s[i - 1].body # "none"
Whole(p, s) == IF s = <<>> THEN p \notin Bodied ELSE s[Len(s)].body = "none"
Plain(s)    == \A i \in 1..Len(s) : s[i].k \in {"ID", "ENDSTREAM", "DATA"} => s[i].body = "none"

(* The command whose reply a call waits for; dl_read() of the next packet  *)
(* has sent none.                                                          *)
Asked(f) ==
  CASE f \in ReplyFns             -> {"QUERY"}
    [] f = "read"                 -> {"READ"}
    [] f = "getinfo"              -> {"INFO"}
    [] f \in {"rawid", "connect"} -> {"ID"}
    [] OTHER                      -> {}

(* In query mode: the command of the call, behind WRITEs nobody answers,   *)
(* or its reply, or nothing.                                               *)
QuerySync(f, p, c, s) ==
  /\ \A i \in 1..Len(c) : c[i] = "WRITE_N" \/ (i = Len(c) /\ p = "reply" /\ c[i] \in Asked(f))
  /\ s # <<>> => c = <<>> /\ (p \in Bodied \/ (p = "reply" /\ s[1].k \in Expected(f)))
  /\ \A i \in 1..Len(s) : i # 1 => s[i].k = "DATA"

HasID(s)  == \E i \in 1..Len(s) : s[i].k = "ID"
OnceID(s) == \A i, j \in 1..Len(s) : s[i].k = "ID" /\ s[j].k = "ID" => i = j

(* While streaming: the commands sent, none but ID behind an ENDSTREAM;    *)
(* packets and the end of the stream; and the ID of the application, or    *)
(* its reply, if it waits for that.                                        *)
StreamCommands(m, c) ==
  /\ \A i \in 1..Len(c) : c[i] \in {"WRITE_N", "STREAM", "ENDSTREAM", "ID"}
  /\ m = -1 => \A i \in 1..Len(c) : c[i] = "ID" \/ \E j \in i..Len(c) : c[j] = "ENDSTREAM"

StreamUnits(s) ==
  \A i \in 1..Len(s) : /\ s[i].k \in {"PACKET", "DATA", "ENDSTREAM", "ID"}
                       /\ s[i].k # "ID" => s[i].src = "stream"

OwnID(f, p, c, s) ==
  /\ p = "reply" => /\ f = "rawid" /\ "rawid" \in Calls
                    /\ Once(c, "ID") /\ OnceID(s) /\ ~(Has(c, "ID") /\ HasID(s))
  /\ p # "reply" => ~Has(c, "ID") /\ ~HasID(s)

StreamSync(m, f, p, c, s) == StreamCommands(m, c) /\ StreamUnits(s) /\ OwnID(f, p, c, s)

(* (e: the server's end; once it has shut down the last bytes may be lost.) *)
Synced(m, f, p, c, s, e) ==
  /\ Plain(s) /\ Framed(p, s) /\ (e = "up" => Whole(p, s))
  /\ IF m = 0 THEN QuerySync(f, p, c, s) ELSE StreamSync(m, f, p, c, s)

InStep == sock = "open" /\ Synced(streaming, fn, pc, c2s, s2c, peer)

(* The second inductive invariant: while no exchange has failed half-way,  *)
(* what is on its way is what the call in progress has asked for.  It      *)
(* takes a connection without keepalive packets, whose replies nobody      *)
(* waits for.                                                              *)
SyncInv == clean \/ fn = "connect" => InStep
=============================================================================
