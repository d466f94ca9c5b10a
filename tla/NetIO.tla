------------------------------- MODULE NetIO -------------------------------
(***************************************************************************)
(* The network layer of libdali at the level of sockets and bytes:         *)
(* dl_connect(), dl_disconnect(), dl_senddata(), dl_sendpacket(),          *)
(* dl_recvdata() and dl_recvheader() of network.c over the socket calls of *)
(* portable.c, with the socket's blocking mode, the timeouts and the alarm *)
(* they switch on the way.  It says what DaliConn takes for granted: that  *)
(* a receive returns a whole header, or nothing, or an error.              *)
(*                                                                         *)
(* A packet is its number, the length of its header and that of its body;  *)
(* it arrives byte by byte, and a byte is the packet it is of and its      *)
(* place there: three bytes come before the header, then the header, then  *)
(* the body.  Addresses are the results of connecting to them.             *)
(***************************************************************************)
EXTENDS Integers, Sequences, FiniteSets

CONSTANTS
  Timeouts,    \* the values of iotimeout an application may set
  Headers,     \* the lengths of headers, one byte each
  Bodies,      \* the lengths of bodies
  MaxAddr,     \* bound: the addresses of a server
  MaxSockets,  \* bound: the sockets created
  MaxPackets,  \* bound: the packets a server sends on all connections
  MaxFaults    \* bound: sends that fail, timeouts that expire, resets

ASSUME NetAssumption ==
  /\ Timeouts \subseteq Nat /\ Headers \subseteq 1..255 /\ Bodies \subseteq Nat
  /\ {MaxAddr, MaxSockets, MaxPackets, MaxFaults} \subseteq Nat

VARIABLES
  sock,       \* the sockets: state, blocking mode, timeouts set
  link,       \* DLCP.link, 0 for -1
  iotimeout,  \* DLCP.iotimeout
  hasTimeo,   \* this system has SO_RCVTIMEO and SO_SNDTIMEO
  hasHandler, \* the application catches SIGALRM
  alarm,      \* an I/O alarm is set
  fn, pc,     \* the call in progress ("idle", "dead"), and where it stands
  stage,      \* what dl_recvdata() reads: "sync", "header" or "data"
  want, got,  \* the bytes still to read, and those read
  blockflag,
  resp,       \* dl_sendpacket(): "none", "reply", or "message" after a failed send
  ret,        \* what the last call returned
  addr,       \* addresses not tried yet
  rx, coming, \* bytes that have arrived, and those of a packet still to arrive
  peer,       \* "up", "fin" or "reset"
  made,       \* packets sent by the server
  owed,       \* history: bytes of the body behind the header returned last
  taken,      \* history: the packet of the last header returned in sync, <<>> before
  inSync,     \* history: no call has failed on this connection
  sendFailed, \* history: a send has failed on this socket
  faults

netio   == <<stage, want, got, blockflag, resp>>
config  == <<hasTimeo, hasHandler>>
stream  == <<rx, coming, peer, made>>
history == <<owed, taken, inSync, sendFailed>>
vars    == <<sock, link, iotimeout, config, alarm, fn, pc, netio, ret, addr, stream, history, faults>>

Packet  == [n : 1..MaxPackets, h : Headers, b : Bodies]
Byte    == [of : Packet, at : Nat \ {0}]
Size(p) == 3 + p.h + p.b
Bytes(p) == [k \in 1..Size(p) |-> [of |-> p, at |-> k]]

\* what a byte reads as: "DL" and the length come first
D == -1
L == -2
Other == -3
Reads(byte) ==
  CASE byte.at = 1 -> D [] byte.at = 2 -> L [] byte.at = 3 -> byte.of.h [] OTHER -> Other

Closed  == [state |-> "closed", blocking |-> FALSE, timeo |-> FALSE]
Open(s) == s # 0 /\ sock[s].state \notin {"none", "closed"}
Created == Cardinality({s \in DOMAIN sock : sock[s].state # "none"})
Calls   == {"connect", "recvheader", "recvbody", "sendpacket"}

NetTypeOK ==
  /\ sock \in [1..MaxSockets -> [state : {"none", "closed", "connecting", "connected"},
                                 blocking : BOOLEAN, timeo : BOOLEAN]]
  /\ link \in 0..MaxSockets /\ iotimeout \in Int
  /\ fn \in Calls \cup {"idle", "dead"} /\ pc \in {"idle", "socket", "send", "recv"}
  /\ stage \in {"sync", "header", "data"} /\ want \in Nat /\ got \in Seq(Byte)
  /\ resp \in {"none", "reply", "message"}
  /\ ret \in {"none", "got", "data", "sent", "failed"} /\ addr \in 0..MaxAddr
  /\ rx \in Seq(Byte) /\ coming \in Seq(Byte) /\ peer \in {"up", "fin", "reset"}
  /\ {hasTimeo, hasHandler, alarm, blockflag, inSync, sendFailed} \subseteq BOOLEAN
  /\ owed \in Nat /\ taken \in {<<>>} \cup {<<p>> : p \in Packet}

Init ==
  /\ sock = [s \in 1..MaxSockets |-> [Closed EXCEPT !.state = "none"]]
  /\ link = 0 /\ iotimeout \in Timeouts /\ hasTimeo \in BOOLEAN /\ hasHandler \in BOOLEAN
  /\ alarm = FALSE /\ fn = "idle" /\ pc = "idle"
  /\ stage = "sync" /\ want = 0 /\ got = <<>> /\ blockflag = FALSE /\ resp = "none"
  /\ ret = "none" /\ addr = 0
  /\ rx = <<>> /\ coming = <<>> /\ peer = "fin" /\ made = 0
  /\ owed = 0 /\ taken = <<>> /\ inSync = FALSE /\ sendFailed = FALSE /\ faults = 0

Free == fn = "idle" /\ pc = "idle"

-----------------------------------------------------------------------------
(* The end of a call.  dl_connect() closes the socket on which its         *)
(* dl_exchangeIDs() failed, and leaves it in dlconn->link.                 *)
Return(r, blocking) ==
  /\ fn' = "idle" /\ pc' = "idle" /\ ret' = r
  /\ stage' = "sync" /\ want' = 0 /\ got' = <<>> /\ blockflag' = FALSE /\ resp' = "none"
  /\ inSync' = (inSync /\ r # "failed")
  /\ sock' = IF fn = "connect" /\ r = "failed" THEN [sock EXCEPT ![link] = Closed]
             ELSE [sock EXCEPT ![link].blocking = blocking]

AlarmSet    == alarm \/ iotimeout > 0      \* after dlp_setioalarm (iotimeout)
AlarmUnset  == alarm /\ iotimeout <= 0     \* after dlp_setioalarm (0)

(* dl_recvdata() begins: blocking mode if asked for, and the alarm.        *)
RecvData(n, block, st) ==
  /\ pc' = "recv" /\ stage' = st /\ want' = n /\ got' = <<>> /\ blockflag' = block
  /\ sock' = [sock EXCEPT ![link].blocking = @ \/ block] /\ alarm' = AlarmSet

(* dl_recvdata() ends: the alarm is cancelled, non-blocking mode set if it *)
(* had been changed.                                                       *)
AfterRecv == sock[link].blocking /\ ~blockflag

(* Mutant of RecvFails: an error returns without the clean-up.             *)
RecvFails_AtOnce ==
  /\ Return("failed", sock[link].blocking)
  /\ owed' = 0 /\ UNCHANGED <<link, iotimeout, config, alarm, addr, taken, sendFailed>>

RecvFails ==
  /\ Return("failed", AfterRecv) /\ alarm' = AlarmUnset
  /\ owed' = 0 /\ UNCHANGED <<link, iotimeout, config, addr, taken, sendFailed>>

(* No data, without blocking: 0, or -1 if it was to follow a failed send.  *)
RecvNothing ==
  /\ Return(IF resp = "message" THEN "failed" ELSE "none", AfterRecv) /\ alarm' = AlarmUnset
  /\ UNCHANGED <<link, iotimeout, config, addr, owed, taken, sendFailed>>

-----------------------------------------------------------------------------
(* The calls of an application.  On a descriptor that is closed they fail. *)
OnStale == link # 0 /\ sock[link].state = "closed"

StaleCall ==
  /\ Free /\ OnStale /\ ret' = "failed"
  /\ UNCHANGED <<sock, link, iotimeout, config, alarm, fn, pc, netio, addr, stream, history, faults>>

RecvHeader(block) ==
  /\ Free /\ Open(link) /\ owed = 0 /\ fn' = "recvheader"
  /\ RecvData(3, block, "sync")
  /\ UNCHANGED <<link, iotimeout, config, resp, ret, addr, stream, history, faults>>

(* The body of the packet whose header was read, always blocking.          *)
RecvBody ==
  /\ Free /\ Open(link) /\ owed > 0 /\ fn' = "recvbody"
  /\ RecvData(owed, TRUE, "data")
  /\ UNCHANGED <<link, iotimeout, config, resp, ret, addr, stream, history, faults>>

(* dl_sendpacket(), with or without a buffer for the response: blocking    *)
(* mode and alarm, then send().                                            *)
SendBegins ==
  /\ pc' = "send" /\ sock' = [sock EXCEPT ![link].blocking = TRUE] /\ alarm' = AlarmSet

SendPacket(r) ==
  /\ Free /\ Open(link) /\ owed = 0 /\ fn' = "sendpacket" /\ resp' = r /\ SendBegins
  /\ UNCHANGED <<link, iotimeout, config, stage, want, got, blockflag, ret, addr,
                 stream, history, faults>>

(* dl_disconnect().                                                        *)
Disconnect ==
  /\ Free /\ link # 0
  /\ sock' = [sock EXCEPT ![link] = Closed] /\ link' = 0 /\ inSync' = FALSE /\ owed' = 0
  /\ UNCHANGED <<iotimeout, config, alarm, fn, pc, netio, ret, addr, stream, taken,
                 sendFailed, faults>>

-----------------------------------------------------------------------------
(* send().  dl_senddata() cancels the alarm and dl_recvdata() sets it anew *)
(* for the response.                                                       *)
Answered(armed) ==
  /\ pc = "send" /\ sock[link].state = "connected" /\ peer # "reset"
  /\ IF resp = "none"
     THEN /\ Return("sent", FALSE) /\ alarm' = AlarmUnset /\ UNCHANGED <<owed, taken>>
     ELSE /\ pc' = "recv" /\ stage' = "sync" /\ want' = 3 /\ got' = <<>> /\ blockflag' = TRUE
          /\ alarm' = armed
          /\ UNCHANGED <<fn, resp, ret, sock, inSync, owed, taken>>
  /\ UNCHANGED <<link, iotimeout, config, addr, stream, sendFailed, faults>>

(* Mutant of SendDone: the response is awaited after the alarm was         *)
(* cancelled.                                                              *)
SendDone_AlarmOff == Answered(AlarmUnset)

SendDone == Answered(AlarmSet)

(* It failed or sent only a part: the socket stays in blocking mode and    *)
(* the alarm set.  dl_sendpacket() looks for a message of the server, which *)
(* on that socket may wait for one.                                        *)
SendFailed(still) ==
  /\ sendFailed' = TRUE
  /\ IF resp = "none"
     THEN Return("failed", TRUE) /\ owed' = 0 /\ alarm' = still
     ELSE /\ pc' = "recv" /\ stage' = "sync" /\ want' = 3 /\ got' = <<>> /\ blockflag' = FALSE
          /\ resp' = "message" /\ alarm' = (still \/ iotimeout > 0)
          /\ UNCHANGED <<fn, ret, sock, inSync, owed>>
  /\ UNCHANGED <<link, iotimeout, config, addr, stream, taken>>

SendError ==
  /\ pc = "send" /\ (peer # "up" \/ sock[link].state = "connecting")
  /\ SendFailed(alarm) /\ UNCHANGED faults

SendTimesOut ==
  /\ pc = "send" /\ sock[link].timeo /\ faults < MaxFaults /\ faults' = faults + 1
  /\ SendFailed(alarm)

-----------------------------------------------------------------------------
(* recv(), until the bytes asked for are there.                            *)
HeaderRead(all) ==
  IF resp = "message"
  THEN Return("failed", FALSE) /\ owed' = 0 /\ UNCHANGED taken
  ELSE \/ /\ Return("got", FALSE) /\ owed' = all[1].of.b
          /\ taken' = IF inSync THEN <<all[1].of>> ELSE taken
       \/ /\ fn = "connect"     \* not the reply to an ID
          /\ Return("failed", FALSE) /\ owed' = 0 /\ UNCHANGED taken

(* Mutant of SyncRead: without blocking the header is not waited for.      *)
SyncRead_KeepsFlag(all) ==
  IF Reads(all[1]) = D /\ Reads(all[2]) = L
  THEN RecvData(Reads(all[3]), blockflag, "header") /\ UNCHANGED <<fn, resp, ret, inSync, owed, taken>>
  ELSE Return("failed", AfterRecv) /\ alarm' = AlarmUnset /\ owed' = 0 /\ UNCHANGED taken

(* Mutant of SyncRead: the length is taken from the second byte.           *)
SyncRead_SecondByte(all) ==
  /\ Reads(all[1]) = D /\ Reads(all[2]) = L
  /\ RecvData(Reads(all[2]), TRUE, "header") /\ UNCHANGED <<fn, resp, ret, inSync, owed, taken>>

SyncRead(all) ==
  IF Reads(all[1]) = D /\ Reads(all[2]) = L
  THEN RecvData(Reads(all[3]), TRUE, "header") /\ UNCHANGED <<fn, resp, ret, inSync, owed, taken>>
  ELSE Return("failed", AfterRecv) /\ alarm' = AlarmUnset /\ owed' = 0 /\ UNCHANGED taken

RecvBytes ==
  /\ pc = "recv" /\ peer # "reset"
  /\ \E k \in 1..Len(rx) :
       LET all == got \o SubSeq(rx, 1, k)
       IN  /\ k <= want /\ rx' = SubSeq(rx, k + 1, Len(rx))
           /\ \/ /\ k < want /\ got' = all /\ want' = want - k
                 /\ UNCHANGED <<fn, pc, stage, blockflag, resp, ret, sock, alarm, inSync, owed, taken>>
              \/ k = want /\ stage = "sync" /\ SyncRead(all)
              \/ k = want /\ stage = "header" /\ HeaderRead(all) /\ alarm' = AlarmUnset
              \/ /\ k = want /\ stage = "data" /\ Return("data", FALSE) /\ alarm' = AlarmUnset
                 /\ owed' = 0 /\ UNCHANGED taken
  /\ UNCHANGED <<link, iotimeout, config, addr, coming, peer, made, sendFailed, faults>>

Empty    == pc = "recv" /\ rx = <<>> /\ peer = "up"
Sleeping == Empty /\ sock[link].blocking

(* Mutant of RecvWouldBlock: the loop runs on before the first byte too.   *)
RecvWouldBlock_Loops == Empty /\ ~sock[link].blocking /\ UNCHANGED vars

(* EWOULDBLOCK.  Without blocking it ends the call only before the first   *)
(* byte; after it the loop runs on until all of them are there.            *)
RecvWouldBlock ==
  /\ Empty /\ ~sock[link].blocking /\ got = <<>> /\ RecvNothing /\ UNCHANGED <<stream, faults>>

(* Mutant of RecvTimesOut: a timeout is no data, also when blocking.       *)
RecvTimesOut_Retries ==
  /\ Sleeping /\ sock[link].timeo /\ ~blockflag /\ got = <<>> /\ RecvNothing
  /\ UNCHANGED <<stream, faults>>

(* The timeout of a socket in blocking mode looks the same to errno.       *)
RecvTimesOut ==
  /\ Sleeping /\ sock[link].timeo
  /\ \/ blockflag /\ RecvFails
     \/ ~blockflag /\ got = <<>> /\ RecvNothing
  /\ UNCHANGED <<stream, faults>>

\* -1 on an orderly shutdown, -2 on an error
RecvShutdown ==
  /\ pc = "recv" /\ (peer = "reset" \/ (peer = "fin" /\ rx = <<>>))
  /\ RecvFails /\ UNCHANGED <<stream, faults>>

(* SIGALRM.  Caught, it interrupts a call of the system that waits, and is *)
(* lost on any other; not caught, it ends the process.                     *)
AlarmInterrupts ==
  /\ alarm /\ hasHandler
  /\ \/ pc = "send" /\ SendFailed(FALSE)
     \/ Sleeping /\ RecvFails /\ UNCHANGED stream
  /\ UNCHANGED faults

AlarmLost ==
  /\ alarm /\ hasHandler /\ ~Sleeping /\ pc # "send" /\ alarm' = FALSE
  /\ UNCHANGED <<sock, link, iotimeout, config, fn, pc, netio, ret, addr, stream, history, faults>>

AlarmKills ==
  /\ alarm /\ ~hasHandler /\ fn' = "dead" /\ pc' = "idle" /\ alarm' = FALSE
  /\ sock' = [s \in 1..MaxSockets |-> IF Open(s) THEN Closed ELSE sock[s]]
  /\ inSync' = FALSE /\ got' = <<>>
  /\ UNCHANGED <<link, iotimeout, config, stage, want, blockflag, resp, ret, addr, stream, owed,
                 taken, sendFailed, faults>>

-----------------------------------------------------------------------------
(* dl_connect(): the addresses in turn, then the exchange of IDs.          *)
Connect ==
  /\ Free /\ ~Open(link)
  /\ fn' = "connect" /\ pc' = "socket" /\ addr' \in 1..MaxAddr /\ inSync' = FALSE
  /\ UNCHANGED <<sock, link, iotimeout, config, alarm, netio, ret, stream, owed, taken,
                 sendFailed, faults>>

(* Socket timeouts are set if the system has them, and iotimeout negated.  *)
(* Mutant of Timeo: a timeout set for one socket is taken as set for all.  *)
Timeo_Once == iotimeout > 0 /\ hasTimeo

Timeo == iotimeout # 0 /\ hasTimeo

TimeoutNow == IF Timeo /\ iotimeout > 0 THEN -iotimeout ELSE iotimeout
New        == Created + 1

(* Mutant of AddressFails: the socket that did not connect stays open.     *)
AddressFails_LeaksSocket ==
  /\ pc = "socket" /\ addr > 0 /\ New <= MaxSockets /\ addr' = addr - 1
  /\ iotimeout' = TimeoutNow
  /\ sock' = [sock EXCEPT ![New] = [state |-> "connecting", blocking |-> TRUE, timeo |-> Timeo]]
  /\ UNCHANGED <<link, config, alarm, fn, pc, netio, ret, stream, history, faults>>

AddressFails ==
  /\ pc = "socket" /\ addr > 0 /\ New <= MaxSockets /\ addr' = addr - 1
  /\ iotimeout' = TimeoutNow /\ sock' = [sock EXCEPT ![New] = Closed]
  /\ UNCHANGED <<link, config, alarm, fn, pc, netio, ret, stream, history, faults>>

\* socket() itself fails
NoSocket ==
  /\ pc = "socket" /\ addr > 0 /\ addr' = addr - 1
  /\ UNCHANGED <<sock, link, iotimeout, config, alarm, fn, pc, netio, ret, stream, history, faults>>

(* connect() has succeeded, or its timeout has expired: EINPROGRESS passes *)
(* for success.  The socket is made non-blocking, and blocking again by    *)
(* the send of the ID.                                                     *)
AddressOpens ==
  /\ pc = "socket" /\ addr > 0 /\ New <= MaxSockets
  /\ \E st \in {"connected", "connecting"} :
       /\ st = "connecting" => Timeo
       /\ sock' = [sock EXCEPT ![New] = [state |-> st, blocking |-> TRUE, timeo |-> Timeo]]
  /\ iotimeout' = TimeoutNow /\ link' = New /\ pc' = "send" /\ resp' = "reply"
  /\ alarm' = (alarm \/ TimeoutNow > 0)
  /\ rx' = <<>> /\ coming' = <<>> /\ peer' = "up"
  /\ inSync' = TRUE /\ sendFailed' = FALSE /\ owed' = 0
  /\ UNCHANGED <<config, fn, stage, want, got, blockflag, ret, addr, made, taken, faults>>

(* No address is left, the port is not a number or the name unknown.       *)
ConnectFails ==
  /\ pc = "socket" /\ fn' = "idle" /\ pc' = "idle" /\ ret' = "failed" /\ addr' = 0
  /\ addr = 0
  /\ UNCHANGED <<sock, link, iotimeout, config, alarm, netio, stream, history, faults>>

-----------------------------------------------------------------------------
(* The other side and the wire between (external).                         *)
OnWire == link # 0 /\ sock[link].state = "connected" /\ peer = "up"

LateConnect ==
  /\ Open(link) /\ sock[link].state = "connecting"
  /\ sock' = [sock EXCEPT ![link].state = "connected"]
  /\ UNCHANGED <<link, iotimeout, config, alarm, fn, pc, netio, ret, addr, stream, history, faults>>

ServerSends ==
  /\ OnWire /\ coming = <<>> /\ made < MaxPackets /\ made' = made + 1
  /\ \E h \in Headers, b \in Bodies : coming' = Bytes([n |-> made + 1, h |-> h, b |-> b])
  /\ UNCHANGED <<sock, link, iotimeout, config, alarm, fn, pc, netio, ret, addr, rx, peer,
                 history, faults>>

Arrive ==
  /\ OnWire /\ \E k \in 1..Len(coming) :
       rx' = rx \o SubSeq(coming, 1, k) /\ coming' = SubSeq(coming, k + 1, Len(coming))
  /\ UNCHANGED <<sock, link, iotimeout, config, alarm, fn, pc, netio, ret, addr, peer, made,
                 history, faults>>

ServerCloses ==
  /\ OnWire /\ faults < MaxFaults /\ faults' = faults + 1 /\ coming' = <<>>
  /\ \/ peer' = "fin" /\ UNCHANGED rx
     \/ peer' = "reset" /\ rx' = <<>>
  /\ UNCHANGED <<sock, link, iotimeout, config, alarm, fn, pc, netio, ret, addr, made, history>>

-----------------------------------------------------------------------------
CallStep ==
  \/ SendDone \/ SendError \/ SendTimesOut
  \/ RecvBytes \/ RecvWouldBlock \/ RecvTimesOut \/ RecvShutdown
  \/ AddressFails \/ NoSocket \/ AddressOpens \/ ConnectFails

Next ==
  \/ Connect \/ Disconnect \/ StaleCall \/ RecvBody
  \/ \E block \in BOOLEAN : RecvHeader(block)
  \/ \E r \in {"none", "reply"} : SendPacket(r)
  \/ CallStep
  \/ AlarmInterrupts \/ AlarmLost \/ AlarmKills
  \/ LateConnect \/ ServerSends \/ Arrive \/ ServerCloses

Spec == Init /\ [][Next]_vars

(* A call runs on unless it waits for the other side.                      *)
LiveSpec == Spec /\ WF_vars(CallStep)

-----------------------------------------------------------------------------
(* The implementation of PacketIO: a packet is on its way from the send    *)
(* until the call that reads its header has returned it, if the end of the *)
(* header was not lost with the server.  Packets on their way are in the   *)
(* order of their numbers.                                                 *)
Ahead      == got \o rx \o coming
Ends(s, i) == s[i].at = 3 + s[i].of.h
OnWay(s)   == {s[i].of : i \in {j \in 1..Len(s) : Ends(s, j)}}

InOrder(S) ==
  LET first == CHOOSE m \in {p.n : p \in S} : \A p \in S : m <= p.n
  IN  [k \in {p.n - first + 1 : p \in S} |-> CHOOSE p \in S : p.n = first + k - 1]

Queue == IF inSync THEN InOrder(OnWay(Ahead)) ELSE <<>>

PIO == INSTANCE PacketIO
         WITH queue <- Queue, up <- (peer = "up" /\ Open(link)), timed <- (iotimeout # 0)

(* Until a call has failed, headers are returned whole, in order, each     *)
(* once, however their bytes arrive and whatever is read without blocking. *)
ImplementsPacketIO == PIO!Spec

(* A call that succeeds leaves the socket non-blocking and no alarm        *)
(* pending, whatever has failed before it; a call that fails does so too,  *)
(* unless a send has failed on this socket: dl_senddata() then returns     *)
(* without cleaning up, the socket "should be disconnected".               *)
ModeRestored ==
  fn = "idle" /\ Open(link) /\ (sendFailed => ret \in {"sent", "got", "data"})
    => ~sock[link].blocking /\ ~alarm

(* Where a timeout is asked for no call waits without one: where a system  *)
(* has socket timeouts, on a socket with its own, be it of the second      *)
(* address or the next connection; elsewhere with the alarm, set for each  *)
(* send() and for each part of a packet received, and gone before its end  *)
(* only if it rang while the call did not wait (AlarmLost).                *)
TimeoutArmed ==
  [][pc' \in {"send", "recv"} /\ iotimeout' # 0 =>
       IF hasTimeo THEN sock'[link'].timeo
       ELSE alarm' \/ AlarmLost \/ (~alarm /\ UNCHANGED <<pc, stage>>)]_vars

(* No socket stays open but the one in the DLCP.                           *)
NoLeak == fn = "idle" => \A s \in 1..MaxSockets : sock[s].state \in {"none", "closed"} \/ s = link

(* A read without blocking comes back when nothing has arrived, or has     *)
(* begun to read a packet, but after a failed send.                        *)
PollReturns ==
  (fn = "recvheader" /\ stage = "sync" /\ ~blockflag /\ ~sendFailed)
    ~> (fn # "recvheader" \/ stage # "sync" \/ got # <<>>)

(* With socket timeouts every call comes back, but a read without blocking *)
(* that has begun: it loops until the rest has arrived.                    *)
Spinning == ~blockflag /\ got # <<>>
TimeoutReturns ==
  (fn \in Calls /\ iotimeout < 0) ~> (fn \notin Calls \/ Spinning)
=============================================================================
