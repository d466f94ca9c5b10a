------------------------------ MODULE DaliConn ------------------------------
(***************************************************************************)
(* A libdali connection (src/libdali/connection.c and network.c): the DLCP *)
(* fields a client's calls share, every call of the API as its steps, the  *)
(* TCP stream in each direction, and the DataLink server as libdali relies *)
(* on it (external).                                                       *)
(*                                                                         *)
(* Abstractions.  A packet of the protocol is one unit of a stream: its    *)
(* header, then, when it has a body, one DATA unit.  A header keeps its    *)
(* kind, the integer of an OK or ERROR reply, and what its reader makes of *)
(* the body: "none", "fits" its buffer, too "big" for it, or "bad" (the    *)
(* header cannot be parsed, or an INFO answers another type).  A unit that *)
(* was cut by a failed recv() is DATA for whoever reads next.  The clock   *)
(* is the trigger it drives: an interval may or may not have elapsed.      *)
(* Identity and content of packets, logging and address parsing are left   *)
(* out.  Names of variables are those of the DLCP structure where it has   *)
(* the field.                                                              *)
(***************************************************************************)
EXTENDS Integers, Sequences

CONSTANTS
  Calls,        \* the API calls the application makes
  Bodies,       \* the bodies the server's packets may have
  Values,       \* the integers its replies may carry
  KeepaliveOn,  \* dlconn->keepalive # 0
  MaxC2S,       \* bound: commands the server has not read, send() blocks
  MaxS2C,       \* bound: units unread by the client before the server stops streaming
  MaxFaults     \* bound: timeouts, interrupted calls and shutdowns by the server

ReplyFns   == {"position", "position_after", "match", "reject", "write"}
CollectFns == {"collect", "collect_nb"}
AllCalls   == ReplyFns \cup CollectFns \cup
              {"write_noack", "read", "read_next", "getinfo", "rawid", "terminate",
               "end_unstarted"}
AllBodies  == {"none", "fits", "big", "bad"}
AllValues  == -1..1

ASSUME CallsAssumption  == Calls \subseteq AllCalls
ASSUME BodiesAssumption == Bodies \subseteq AllBodies /\ "none" \in Bodies
ASSUME ValuesAssumption == Values \subseteq AllValues
ASSUME BoundsAssumption == /\ KeepaliveOn \in BOOLEAN
                           /\ MaxC2S \in Nat \ {0} /\ MaxS2C \in Nat \ {0}
                           /\ MaxFaults \in Nat

VARIABLES
  link,       \* DLCP.link: NoLink, or the descriptor of the socket
  streaming,  \* DLCP.streaming: 0 query mode, 1 streaming, -1 ENDSTREAM sent
  trig,       \* DLCP.keepalive_trig: -1 reset the timer, 0 running, 1 send
  terminate,  \* DLCP.terminate
  fn, pc,     \* the call in progress ("none") and where it stands ("idle")
  hdr,        \* the reply header whose message is being read
  ret,        \* what the last call returned, 0 while one runs
  clean,      \* history: no exchange on this socket has failed half-way
  sock,       \* the socket itself: "open" or "closed"
  peer,       \* the server's end: "up", or "fin" once it has shut down
  c2s, s2c,   \* the two directions of the TCP stream
  smode,      \* the mode the server has this connection in
  faults      \* how many more faults may happen

dlcp == <<link, streaming, trig, terminate>>
call == <<fn, pc, hdr, ret>>
net  == <<sock, peer, c2s, s2c, smode, faults>>
vars == <<link, streaming, trig, terminate, fn, pc, hdr, ret, clean,
          sock, peer, c2s, s2c, smode, faults>>

NoLink == -1
Fd     == 3
DLERROR    == -1
DLENDED    == 0
DLPACKET   == 1
DLNOPACKET == 2

(* Units of the server's stream; src is history: sent while streaming?     *)
Header(k, val, body, src) == [k |-> k, val |-> val, body |-> body, src |-> src]
Payload(src) == Header("DATA", 0, "none", src)
NoHdr        == Header("none", 0, "none", "reply")
Push(q, h)   == IF h.body = "none" THEN Append(q, h)
                                   ELSE Append(Append(q, h), Payload(h.src))

Commands == {"ID", "QUERY", "WRITE_N", "READ", "INFO", "STREAM", "ENDSTREAM", "TORN"}
Units    == [k : {"ID", "OK", "ERROR", "PACKET", "INFO", "ENDSTREAM", "DATA"},
             val : AllValues, body : AllBodies, src : {"stream", "reply"}]

TypeOK ==
  /\ link \in {NoLink, Fd}
  /\ streaming \in {-1, 0, 1}
  /\ trig \in {-1, 0, 1}
  /\ terminate \in {0, 1}
  /\ fn \in AllCalls \cup {"none", "connect"}
  /\ pc \in {"idle", "exchange", "reply", "message", "data", "discard", "loop", "recv"}
  /\ hdr \in Units \cup {NoHdr}
  /\ ret \in {DLERROR, DLENDED, DLPACKET, DLNOPACKET, Fd}
  /\ clean \in BOOLEAN
  /\ sock \in {"open", "closed"}
  /\ peer \in {"up", "fin"}
  /\ c2s \in Seq(Commands)
  /\ s2c \in Seq(Units)
  /\ smode \in {"query", "stream"}
  /\ faults \in 0..MaxFaults

(* dl_newdlcp(): the defaults of a new connection.                         *)
Init ==
  /\ link = NoLink /\ streaming = 0 /\ trig = -1 /\ terminate = 0
  /\ fn = "none" /\ pc = "idle" /\ hdr = NoHdr /\ ret = 0 /\ clean = FALSE
  /\ sock = "closed" /\ peer = "fin" /\ c2s = <<>> /\ s2c = <<>>
  /\ smode = "query" /\ faults = MaxFaults

Goto(f, label) == fn' = f /\ pc' = label /\ ret' = 0 /\ UNCHANGED hdr
Return(v)      == fn' = "none" /\ pc' = "idle" /\ hdr' = NoHdr /\ ret' = v
Fault          == faults > 0 /\ faults' = faults - 1

-----------------------------------------------------------------------------
(* network.c: sending and receiving.                                       *)

(* What a failed recv() may have taken of the first unit: nothing, or part *)
(* of it, the rest being bytes without a header.                           *)
Torn(q) == [q EXCEPT ![1] = Payload(q[1].src)]
Interrupted(q) == {q} \cup (IF q = <<>> THEN {} ELSE {Torn(q)})

(* dl_recvheader() on bytes that do not start with "DL" takes three: fewer *)
(* than there are, all of them, or some of the next unit too.              *)
Misread(q) == {q, Tail(q)} \cup (IF Len(q) > 1 THEN {Torn(Tail(q))} ELSE {})

(* dl_recvheader() without blocking, the result ignored.                   *)
Peeked(q) == IF q = <<>> THEN {q}
             ELSE IF Head(q).k = "DATA" THEN Misread(q) ELSE {Tail(q)}

(* dl_senddata() succeeds; a peer that has shut down never reads it.       *)
Send(cmd) ==
  /\ sock = "open"
  /\ IF peer = "up" THEN Len(c2s) < MaxC2S /\ c2s' = Append(c2s, cmd)
                    ELSE UNCHANGED c2s
  /\ UNCHANGED <<sock, peer, s2c, smode, faults>>

(* dl_senddata() fails: the descriptor is closed, the connection was       *)
(* reset, or the send timed out with nothing or a part of it sent.  With a *)
(* response buffer dl_sendpacket() then tries to read a message.           *)
SendFails(resp) ==
  /\ \/ sock = "closed" /\ UNCHANGED <<c2s, faults>>
     \/ sock = "open" /\ peer = "fin" /\ UNCHANGED <<c2s, faults>>
     \/ sock = "open" /\ peer = "up" /\ Fault /\ c2s' \in {c2s, Append(c2s, "TORN")}
  /\ IF resp THEN s2c' \in Peeked(s2c) ELSE UNCHANGED s2c
  /\ UNCHANGED <<sock, peer, smode>>

(* dl_recvheader() returns a header.                                       *)
HeaderArrived ==
  /\ s2c # <<>> /\ Head(s2c).k # "DATA"
  /\ s2c' = Tail(s2c)
  /\ UNCHANGED <<sock, peer, c2s, smode, faults>>

(* dl_recvdata() returns the body asked for.                               *)
BodyArrived ==
  /\ s2c # <<>> /\ Head(s2c).k = "DATA"
  /\ s2c' = Tail(s2c)
  /\ UNCHANGED <<sock, peer, c2s, smode, faults>>

(* They return -2: no synchronization bytes, a timeout, or a signal.       *)
NoSync ==
  /\ s2c # <<>> /\ Head(s2c).k = "DATA"
  /\ s2c' \in Misread(s2c)
  /\ UNCHANGED <<sock, peer, c2s, smode, faults>>

RecvTimesOut ==
  /\ Fault
  /\ s2c' \in Interrupted(s2c)
  /\ UNCHANGED <<sock, peer, c2s, smode>>

(* They return -1: everything sent was read and the peer has shut down.    *)
PeerShutdown == s2c = <<>> /\ peer = "fin" /\ UNCHANGED net

(* The descriptor is closed: the bytes of both directions are gone.        *)
CloseSocket ==
  /\ sock' = "closed" /\ peer' = "fin" /\ c2s' = <<>> /\ s2c' = <<>> /\ smode' = "query"

-----------------------------------------------------------------------------
(* dl_connect() and dl_disconnect().  Applications connect only after a    *)
(* disconnect, so that the previous socket is closed.                      *)

(* No address answers; an invalid port also sets the terminate flag.       *)
ConnectFails ==
  /\ pc = "idle" /\ sock = "closed"
  /\ terminate' \in IF "terminate" \in Calls THEN {terminate, 1} ELSE {terminate}
  /\ Return(-1)
  /\ UNCHANGED <<link, streaming, trig, clean, net>>

ConnectOpens ==
  /\ pc = "idle" /\ sock = "closed"
  /\ link' = Fd /\ sock' = "open" /\ peer' = "up"
  /\ Goto("connect", "exchange")
  /\ UNCHANGED <<streaming, trig, terminate, clean, c2s, s2c, smode, faults>>

(* dl_exchangeIDs() refuses to run in streaming mode.                      *)
ExchangeRefused ==
  /\ pc = "exchange" /\ streaming # 0
  /\ CloseSocket /\ Return(-1) /\ clean' = FALSE
  /\ UNCHANGED <<dlcp, faults>>

ExchangeSend ==
  /\ pc = "exchange" /\ streaming = 0
  /\ Send("ID") /\ Goto("connect", "reply")
  /\ UNCHANGED <<dlcp, clean>>

ExchangeReply ==
  /\ pc = "reply" /\ fn = "connect"
  /\ HeaderArrived /\ Head(s2c).k = "ID"
  /\ Return(link) /\ clean' = TRUE
  /\ UNCHANGED dlcp

(* The ID cannot be sent, or no reply comes: the socket is closed, the     *)
(* descriptor stays in the DLCP.                                           *)
ExchangeFails ==
  /\ \/ pc = "exchange" /\ streaming = 0
     \/ pc = "reply" /\ fn = "connect"
  /\ \/ Fault
     \/ peer = "fin" /\ s2c = <<>> /\ UNCHANGED faults
  /\ CloseSocket /\ Return(-1) /\ clean' = FALSE
  /\ UNCHANGED dlcp

Disconnect ==
  /\ pc = "idle" /\ link # NoLink
  /\ link' = NoLink /\ CloseSocket /\ clean' = FALSE /\ Return(0)
  /\ UNCHANGED <<streaming, trig, terminate, faults>>

(* dl_terminate(), from a signal handler: at any moment.                   *)
Terminate ==
  /\ "terminate" \in Calls /\ terminate = 0
  /\ terminate' = 1
  /\ UNCHANGED <<link, streaming, trig, call, clean, net>>

-----------------------------------------------------------------------------
(* The requests: guards, then the command.                                 *)

MayCall(f) == pc = "idle" /\ f \in Calls

NoIO(v) == Return(v) /\ UNCHANGED <<dlcp, clean, net>>

(* Not connected, "Connection in streaming mode, cannot continue", or an   *)
(* argument (a packet ID, a packet's size) the call does not accept.       *)
ArgumentChecked == {"position", "write", "write_noack"}

Refused(f) ==
  /\ MayCall(f)
  /\ link = NoLink \/ streaming # 0 \/ f \in ArgumentChecked
  /\ NoIO(-1)

(* Mutant of Request: the streaming mode is not checked.                   *)
Request_AnyMode(f, cmd, resp) ==
  /\ MayCall(f) /\ link # NoLink
  /\ \/ Len(s2c) < MaxS2C /\ Send(cmd) /\ Goto(f, "reply") /\ UNCHANGED clean
     \/ SendFails(resp) /\ Return(-1) /\ clean' = FALSE
  /\ UNCHANGED dlcp

Request(f, cmd, resp) ==
  /\ MayCall(f) /\ link # NoLink /\ streaming = 0
  /\ \/ /\ Len(s2c) < MaxS2C
        /\ Send(cmd) /\ Goto(f, "reply") /\ UNCHANGED clean
     \/ SendFails(resp) /\ Return(-1) /\ clean' = FALSE
  /\ UNCHANGED dlcp

Position      == Refused("position") \/ Request("position", "QUERY", TRUE)
PositionAfter == Refused("position_after") \/ Request("position_after", "QUERY", TRUE)
Match         == Refused("match") \/ Request("match", "QUERY", TRUE)
Reject        == Refused("reject") \/ Request("reject", "QUERY", TRUE)
WriteAck      == Refused("write") \/ Request("write", "QUERY", TRUE)
Read          == Refused("read") \/ Request("read", "READ", FALSE)
GetInfo       == Refused("getinfo") \/ Request("getinfo", "INFO", FALSE)

(* dl_write() without acknowledgement returns once the packet is sent.     *)
WriteNoAck ==
  \/ Refused("write_noack")
  \/ /\ MayCall("write_noack") /\ link # NoLink /\ streaming = 0
     /\ \/ Send("WRITE_N") /\ Return(0) /\ UNCHANGED clean
        \/ SendFails(FALSE) /\ Return(-1) /\ clean' = FALSE
     /\ UNCHANGED dlcp

(* dl_read() with no packet ID requests nothing and waits for a packet.    *)
ReadNext ==
  \/ Refused("read_next")
  \/ /\ MayCall("read_next") /\ link # NoLink /\ streaming = 0
     /\ IF sock = "open" THEN Goto("read_next", "reply") /\ UNCHANGED clean
                         ELSE Return(-1) /\ clean' = FALSE
     /\ UNCHANGED <<dlcp, net>>

(* An application may also exchange a packet of its own with               *)
(* dl_sendpacket(), which looks at no mode: the console does so with ID.   *)
RawID ==
  /\ MayCall("rawid")
  /\ \/ /\ Len(s2c) < MaxS2C
        /\ Send("ID") /\ Goto("rawid", "reply") /\ UNCHANGED clean
     \/ SendFails(TRUE) /\ Return(-1) /\ clean' = FALSE
  /\ UNCHANGED dlcp

-----------------------------------------------------------------------------
(* The requests: their replies.                                            *)

(* dl_handlereply() on a whole reply: 0 for OK, 1 for ERROR, -1 otherwise. *)
ReplyStatus(h) ==
  CASE h.k = "OK" /\ h.body \in {"none", "fits"}    -> 0
    [] h.k = "ERROR" /\ h.body \in {"none", "fits"} -> 1
    [] OTHER                                        -> -1

(* What each request makes of that status and of the reply's integer.      *)
ReplyResult(f, rv, val) ==
  CASE f = "position" -> IF rv < 0 \/ val < 0 THEN -1 ELSE val
    [] f \in {"position_after", "match", "reject"} -> IF rv < 0 THEN -1 ELSE val
    [] f = "write" -> IF rv = 0 THEN val ELSE -1
    [] OTHER -> -1

(* Mutant of HandleReply: the message of a reply is left unread.           *)
HandleReply_LeavesMessage(h) ==
  Return(ReplyResult(fn, ReplyStatus(h), h.val)) /\ clean' = (clean /\ ReplyStatus(h) >= 0)

(* dl_handlereply() parses the header, and reads the message if one fits.  *)
HandleReply(h) ==
  IF ReplyStatus(h) >= 0 /\ h.body = "fits"
  THEN pc' = "message" /\ hdr' = h /\ UNCHANGED <<fn, ret, clean>>
  ELSE Return(ReplyResult(fn, ReplyStatus(h), h.val)) /\ clean' = (clean /\ ReplyStatus(h) >= 0)

ReplyHeader ==
  /\ pc = "reply" /\ fn \in ReplyFns
  /\ HeaderArrived /\ HandleReply(Head(s2c))
  /\ UNCHANGED dlcp

ReplyMessage ==
  /\ pc = "message"
  /\ BodyArrived /\ Return(ReplyResult(fn, ReplyStatus(hdr), hdr.val))
  /\ UNCHANGED <<dlcp, clean>>

(* Mutants of ReadHeader: a packet too big is reported but not read; after *)
(* an ERROR the packet is waited for.                                      *)
ReadHeader_KeepsBigPacket ==
  /\ pc = "reply" /\ fn \in {"read", "read_next"}
  /\ HeaderArrived
  /\ IF Head(s2c).k = "PACKET" /\ Head(s2c).body = "fits" THEN Goto(fn, "data") ELSE Return(0)
  /\ UNCHANGED <<dlcp, clean>>

ReadHeader_RetriesOnError ==
  /\ pc = "reply" /\ fn \in {"read", "read_next"}
  /\ HeaderArrived
  /\ IF Head(s2c).k = "ERROR" THEN Goto(fn, "reply") ELSE Return(0)
  /\ UNCHANGED <<dlcp, clean>>

(* dl_read(): a packet too big for the buffer is read and discarded.       *)
ReadHeader ==
  /\ pc = "reply" /\ fn \in {"read", "read_next"}
  /\ HeaderArrived
  /\ LET h == Head(s2c) IN
       CASE h.k = "PACKET" /\ h.body = "fits" -> Goto(fn, "data") /\ UNCHANGED clean
         [] h.k = "PACKET" /\ h.body = "big"  -> Goto(fn, "discard") /\ UNCHANGED clean
         [] h.k = "PACKET" /\ h.body = "none" -> Return(0) /\ UNCHANGED clean
         [] h.k = "ERROR"                     -> HandleReply(h)
         [] OTHER                             -> Return(-1) /\ clean' = FALSE
  /\ UNCHANGED dlcp

ReadDiscard ==
  /\ pc = "discard"
  /\ BodyArrived /\ Return(0)
  /\ UNCHANGED <<dlcp, clean>>

(* dl_getinfo(): an answer that does not fit is left where it is.          *)
InfoHeader ==
  /\ pc = "reply" /\ fn = "getinfo"
  /\ HeaderArrived
  /\ LET h == Head(s2c) IN
       CASE h.k = "INFO" /\ h.body = "fits" -> Goto(fn, "data") /\ UNCHANGED clean
         [] h.k = "INFO" /\ h.body = "none" -> Return(0) /\ UNCHANGED clean
         [] h.k = "ERROR"                   -> HandleReply(h)
         [] OTHER                           -> Return(-1) /\ clean' = FALSE
  /\ UNCHANGED dlcp

(* The body of a packet or of an INFO; it counts as DLPACKET when collecting. *)
DataBody ==
  /\ pc = "data"
  /\ BodyArrived /\ Return(DLPACKET)
  /\ UNCHANGED <<dlcp, clean>>

(* Any header is taken for the reply; one of another kind is an exchange   *)
(* gone wrong, as on a connection that is streaming.                       *)
RawIDReply ==
  /\ pc = "reply" /\ fn = "rawid"
  /\ HeaderArrived /\ Return(1) /\ clean' = (clean /\ Head(s2c).k = "ID")
  /\ UNCHANGED dlcp

(* Any of the receives fails, or finds that the server has shut down.      *)
ReceiveFails ==
  /\ pc \in {"reply", "message", "data", "discard", "recv"} /\ fn # "connect"
  /\ \/ pc \in {"reply", "recv"} /\ NoSync /\ Return(-1)
     \/ RecvTimesOut /\ Return(-1)
     \/ PeerShutdown /\ Return(IF fn \in CollectFns THEN DLENDED ELSE -1)
  /\ clean' = FALSE
  /\ UNCHANGED dlcp

-----------------------------------------------------------------------------
(* dl_collect() and dl_collect_nb().                                       *)

(* Mutants of SwitchMode: query mode is assumed as soon as ENDSTREAM is    *)
(* sent; the mode is set but ENDSTREAM is not sent.                        *)
SwitchMode_EndsAtOnce(f, cmd, mode) ==
  /\ Send(cmd) /\ Goto(f, "loop")
  /\ streaming' = (IF mode = 1 THEN 1 ELSE 0) /\ trig' = -1
  /\ UNCHANGED <<link, terminate, clean>>

SwitchMode_SilentEnd(f, cmd, mode) ==
  /\ IF mode = 1 THEN Send(cmd) ELSE UNCHANGED net
  /\ Goto(f, "loop")
  /\ streaming' = mode /\ trig' = -1
  /\ UNCHANGED <<link, terminate, clean>>

(* STREAM or ENDSTREAM is sent, then the mode and the trigger are set.     *)
SwitchMode(f, cmd, mode) ==
  \/ /\ Send(cmd) /\ Goto(f, "loop")
     /\ streaming' = mode /\ trig' = -1
     /\ UNCHANGED <<link, terminate, clean>>
  \/ /\ SendFails(FALSE) /\ Return(DLERROR) /\ clean' = FALSE
     /\ UNCHANGED dlcp

(* (An endflag outside streaming mode is only worth a misuse: "end_unstarted".) *)
CollectStart(f, endflag) ==
  /\ MayCall(f)
  /\ endflag /\ streaming = 0 => "end_unstarted" \in Calls
  /\ \/ link = NoLink /\ NoIO(DLERROR)
     \/ link # NoLink /\ streaming = 0 /\ ~endflag /\ SwitchMode(f, "STREAM", 1)
     \/ link # NoLink /\ streaming = 1 /\ endflag /\ SwitchMode(f, "ENDSTREAM", -1)
     \/ /\ link # NoLink /\ (IF endflag THEN streaming # 1 ELSE streaming # 0)
        /\ IF sock = "open"
           THEN Goto(f, "loop") /\ UNCHANGED <<dlcp, clean, net>>
           ELSE NoIO(IF f = "collect" /\ terminate = 1 THEN DLENDED ELSE DLERROR)

(* The loop of dl_collect() runs until it is told to terminate.            *)
CollectTerminated ==
  /\ pc = "loop" /\ fn = "collect" /\ terminate = 1
  /\ NoIO(DLENDED)

KeepaliveDue == KeepaliveOn /\ trig > 0 /\ terminate = 0

SendKeepalive ==
  /\ pc = "loop" /\ KeepaliveDue
  /\ \/ Send("ID") /\ trig' = -1 /\ Goto(fn, "recv") /\ UNCHANGED <<link, streaming, terminate, clean>>
     \/ SendFails(FALSE) /\ Return(DLERROR) /\ clean' = FALSE /\ UNCHANGED dlcp

(* Mutant of Poll: the loop does not look at the terminate flag.           *)
Poll_IgnoresTerminate ==
  /\ pc = "loop" /\ ~KeepaliveDue
  /\ Goto(fn, "recv")
  /\ UNCHANGED <<dlcp, clean, net>>

Poll ==
  /\ pc = "loop" /\ ~KeepaliveDue /\ (fn = "collect" => terminate = 0)
  /\ Goto(fn, "recv")
  /\ UNCHANGED <<dlcp, clean, net>>

(* Mutant of Timer: the trigger goes on counting after it has fired.       *)
Timer_CountsOn(t) == {t, t + 1}

(* The keepalive timer: restarted, running, or elapsed.                    *)
Timer(t) == CASE ~KeepaliveOn          -> {t}
              [] KeepaliveOn /\ t = -1 -> {0}
              [] KeepaliveOn /\ t = 0  -> {0, 1}
              [] KeepaliveOn /\ t = 1  -> {1}

(* Mutant of NoPacketYet: "no packet yet" is reported as the end.          *)
NoPacketYet_Ended(t) ==
  /\ trig' \in Timer(t)
  /\ Return(DLENDED)
  /\ UNCHANGED <<link, terminate, clean>>

(* The end of an iteration without a packet.                               *)
NoPacketYet(t) ==
  /\ trig' \in Timer(t)
  /\ IF fn = "collect" THEN Goto(fn, "loop")
                       ELSE Return(IF terminate = 1 THEN DLENDED ELSE DLNOPACKET)
  /\ UNCHANGED <<link, terminate, clean>>

CollectHeader ==
  /\ pc = "recv"
  /\ HeaderArrived
  /\ LET h == Head(s2c) IN
       CASE h.k = "PACKET" /\ h.body = "fits" ->
              Goto(fn, "data") /\ trig' = -1 /\ UNCHANGED <<link, streaming, terminate, clean>>
         [] h.k = "PACKET" /\ h.body = "none" ->
              Return(DLPACKET) /\ trig' = -1 /\ UNCHANGED <<link, streaming, terminate, clean>>
         [] h.k = "ID" -> NoPacketYet(-1) /\ UNCHANGED streaming
         [] h.k = "ENDSTREAM" ->
              Return(DLENDED) /\ streaming' = 0 /\ trig' = -1 /\ UNCHANGED <<link, terminate, clean>>
         [] OTHER ->
              Return(DLERROR) /\ clean' = FALSE /\ trig' = -1 /\ UNCHANGED <<link, streaming, terminate>>

NothingAvailable ==
  /\ pc = "recv" /\ s2c = <<>> /\ peer = "up"
  /\ NoPacketYet(trig)
  /\ UNCHANGED <<streaming, net>>

(* A signal interrupts the select() of dl_collect().                       *)
SelectInterrupted ==
  /\ pc = "recv" /\ fn = "collect" /\ terminate = 0 /\ Fault
  /\ Return(DLERROR)
  /\ UNCHANGED <<dlcp, clean, sock, peer, c2s, s2c, smode>>

-----------------------------------------------------------------------------
(* The DataLink server (external), as connection.c relies on it: commands  *)
(* are answered in order; ENDSTREAM ends the packets; no reply to a WRITE  *)
(* without acknowledgement; a command cut short ends the connection.       *)

Answers(kinds) == {Header(k, 0, b, "reply") : k \in kinds, b \in Bodies}
ErrorReplies   == {Header("ERROR", v, b, "reply") : v \in Values, b \in Bodies}
Replies(cmd) ==
  CASE cmd = "ID"    -> {Header("ID", 0, "none", "reply")}
    [] cmd = "QUERY" -> ErrorReplies \cup {Header("OK", v, b, "reply") : v \in Values, b \in Bodies}
    [] cmd = "READ"  -> ErrorReplies \cup Answers({"PACKET"})
    [] cmd = "INFO"  -> ErrorReplies \cup Answers({"INFO"})

ServerReplies ==
  /\ peer = "up" /\ c2s # <<>> /\ Head(c2s) \in {"ID", "QUERY", "READ", "INFO"}
  /\ \E h \in Replies(Head(c2s)) : s2c' = Push(s2c, h)
  /\ c2s' = Tail(c2s)
  /\ UNCHANGED <<dlcp, call, clean, sock, peer, smode, faults>>

ServerStores ==
  /\ peer = "up" /\ c2s # <<>> /\ Head(c2s) = "WRITE_N"
  /\ c2s' = Tail(c2s)
  /\ UNCHANGED <<dlcp, call, clean, sock, peer, s2c, smode, faults>>

ServerStartsStream ==
  /\ peer = "up" /\ c2s # <<>> /\ Head(c2s) = "STREAM"
  /\ c2s' = Tail(c2s) /\ smode' = "stream"
  /\ UNCHANGED <<dlcp, call, clean, sock, peer, s2c, faults>>

ServerEndsStream ==
  /\ peer = "up" /\ c2s # <<>> /\ Head(c2s) = "ENDSTREAM"
  /\ c2s' = Tail(c2s) /\ smode' = "query"
  /\ s2c' = Push(s2c, Header("ENDSTREAM", 0, "none", "stream"))
  /\ UNCHANGED <<dlcp, call, clean, sock, peer, faults>>

ServerStreams ==
  /\ peer = "up" /\ smode = "stream" /\ Len(s2c) < MaxS2C
  /\ \E b \in Bodies : s2c' = Push(s2c, Header("PACKET", 0, b, "stream"))
  /\ UNCHANGED <<dlcp, call, clean, sock, peer, c2s, smode, faults>>

(* The server shuts the connection down, which may lose the last bytes.    *)
ServerCloses ==
  /\ peer = "up"
  /\ \/ Fault
     \/ c2s # <<>> /\ Head(c2s) = "TORN" /\ UNCHANGED faults
  /\ peer' = "fin" /\ c2s' = <<>> /\ smode' = "query"
  /\ \E n \in 0..Len(s2c) : s2c' = SubSeq(s2c, 1, n)
  /\ UNCHANGED <<dlcp, call, clean, sock>>

-----------------------------------------------------------------------------
ApplicationCall ==
  \/ ConnectFails \/ ConnectOpens \/ Disconnect
  \/ Position \/ PositionAfter \/ Match \/ Reject \/ WriteAck \/ WriteNoAck
  \/ Read \/ ReadNext \/ GetInfo \/ RawID
  \/ \E f \in CollectFns, endflag \in BOOLEAN : CollectStart(f, endflag)

CallStep ==
  \/ ExchangeRefused \/ ExchangeSend \/ ExchangeReply \/ ExchangeFails
  \/ ReplyHeader \/ ReplyMessage \/ ReadHeader \/ ReadDiscard \/ InfoHeader
  \/ DataBody \/ RawIDReply \/ ReceiveFails
  \/ CollectTerminated \/ SendKeepalive \/ Poll \/ CollectHeader
  \/ NothingAvailable \/ SelectInterrupted

ServerCommand == ServerReplies \/ ServerStores \/ ServerStartsStream \/ ServerEndsStream

ServerStep == ServerCommand \/ ServerStreams \/ ServerCloses

Next == ApplicationCall \/ CallStep \/ Terminate \/ ServerStep

Spec == Init /\ [][Next]_vars

(* A call in progress goes on, and the server reads what it is sent; the   *)
(* application may stop calling and packets may stop coming.               *)
LiveSpec == Spec /\ WF_vars(CallStep) /\ WF_vars(ServerCommand)

-----------------------------------------------------------------------------
(* Properties.                                                             *)

Connected == sock = "open" /\ pc # "exchange"

Quiet(q) == \A i \in 1..Len(q) : q[i].src # "stream"

(* A client that believes it is in query mode is: on an open connection    *)
(* with streaming = 0 the server is in query mode, no STREAM or ENDSTREAM  *)
(* is on its way to it, and nothing sent while streaming is left unread,   *)
(* so that no reply read by dl_position() and the others is a packet.      *)
QueryModeQuiet ==
  Connected /\ streaming = 0 =>
    /\ Quiet(s2c)
    /\ peer = "up" => /\ smode = "query"
                     /\ \A i \in 1..Len(c2s) : c2s[i] \notin {"STREAM", "ENDSTREAM"}

(* The protocol's "No client commands are accepted in streaming mode       *)
(* except ID requests": the server in streaming mode never reads anything  *)
(* but ID and ENDSTREAM, nor an ENDSTREAM out of it, whatever calls the    *)
(* application makes and however they fail.                                *)
CommandsFitMode ==
  Connected /\ peer = "up" /\ c2s # <<>> =>
    IF smode = "stream" THEN Head(c2s) \in {"ID", "ENDSTREAM", "TORN"}
                        ELSE Head(c2s) # "ENDSTREAM"

(* Between calls in query mode, as long as no exchange failed half-way, no *)
(* reply is owed or unread: the next request reads its own reply.  That is *)
(* why dl_read() discards a packet it has no room for.                     *)
ReplyInSync ==
  clean /\ pc = "idle" /\ streaming = 0 =>
    s2c = <<>> /\ (peer = "up" => \A i \in 1..Len(c2s) : c2s[i] = "WRITE_N")

(* The kinds of header a call can make sense of.                           *)
Expected(f) ==
  CASE f \in ReplyFns -> {"OK", "ERROR"}
    [] f \in {"read", "read_next"} -> {"PACKET", "ERROR"}
    [] f = "getinfo" -> {"INFO", "ERROR"}
    [] f \in {"rawid", "connect"} -> {"ID"}
    [] f \in CollectFns -> {"PACKET", "ID", "ENDSTREAM"}
    [] OTHER -> {}

(* While no exchange has failed half-way, whatever call is reading finds   *)
(* the kind of header it asked for, never another call's.                  *)
OwnReply ==
  (clean \/ fn = "connect") /\ pc \in {"reply", "recv"} /\ s2c # <<>> =>
    Head(s2c).k \in Expected(fn)

(* DLENDED is returned when the stream ending sequence was completed or    *)
(* the connection was shut down (or the client terminates), and at no      *)
(* other time: dl_collect()'s contract.  Then all that the server sent     *)
(* before it shut down has been read, or both sides are in query mode and  *)
(* no packet of the stream is unread.                                      *)
EndedMeansOver ==
  [][pc = "recv" /\ pc' = "idle" /\ ret' = DLENDED =>
       \/ terminate = 1
       \/ peer = "fin" /\ s2c = <<>>
       \/ streaming' = 0 /\ smode' = "query" /\ Quiet(s2c')]_vars

(* "A DataLink connection is always in query mode by default, switching to *)
(* streaming mode only when specifically requested by the client"          *)
(* (DataLink.protocol.dox): a connection just made is in query mode, as    *)
(* dl_exchangeIDs() needs it to be.                                        *)
FreshConnectionInQueryMode == pc = "exchange" => streaming = 0

(* "The stream ending sequence must be completed if the connection is to   *)
(* be used after streaming mode" (dl_collect()): once it is completed the  *)
(* connection can be used, nothing else being sent or owed on it.          *)
UsableAfterEnding ==
  [][clean /\ streaming = -1 /\ streaming' = 0 => s2c' = <<>> /\ c2s' = <<>>]_vars

(* A request on a connection in step comes back: with the server's answer, *)
(* or because a receive failed or the server is gone.                      *)
RequestsReturn ==
  (clean \/ fn = "connect") /\ pc = "reply" /\ fn # "read_next" ~> pc = "idle"

(* Once ENDSTREAM has been sent on a stream still in step, dl_collect()    *)
(* returns: with a packet that was in the air, or because the stream ended. *)
EndingReturns == clean /\ fn = "collect" /\ streaming = -1 ~> pc = "idle"

(* A signal handler's dl_terminate() gets the collecting calls back.       *)
TerminateReturns == fn \in CollectFns /\ terminate = 1 ~> pc = "idle"

=============================================================================
