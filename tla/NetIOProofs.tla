----------------------------- MODULE NetIOProofs -----------------------------
(***************************************************************************)
(* Proofs about NetIO for every value of its constants.                    *)
(*                                                                         *)
(* The sockets: the blocking mode and the alarm are put back after each    *)
(* call (ModeRestored), no call waits without the timeout asked for, of    *)
(* the socket or an alarm (TimeoutArmed), and no socket is left open (NoLeak), from the *)
(* inductive invariant SocketsInv.                                         *)
(*                                                                         *)
(* The bytes: types (NetTypeOK), and the refinement of PacketIO, from      *)
(* FlowInv: a Stream of bytes is that of packets in the order of their     *)
(* numbers, without a gap, and a call that reads in step with it knows     *)
(* what the next byte is.                                                  *)
(***************************************************************************)
EXTENDS NetIO, Numbers, FiniteSetTheorems, SequenceTheorems, TLAPS

Socket == [state : {"none", "closed", "connecting", "connected"}, blocking : BOOLEAN, timeo : BOOLEAN]

SocketType ==
  /\ sock \in [1..MaxSockets -> Socket]
  /\ link \in 0..MaxSockets /\ iotimeout \in Int
  /\ alarm \in BOOLEAN /\ blockflag \in BOOLEAN /\ hasTimeo \in BOOLEAN

(* Where a call stands: dl_connect() begins on no open socket, and a send  *)
(* or a receive has one.                                                   *)
Standing ==
  /\ pc \in {"idle", "socket", "send", "recv"} /\ fn \in Calls \cup {"idle", "dead"}
  /\ pc = "idle" <=> fn \in {"idle", "dead"}
  /\ pc = "socket" => fn = "connect" /\ ~Open(link)
  /\ pc \in {"send", "recv"} => Open(link)

(* Sockets are made in turn, and none is open but the one in the DLCP.     *)
Used(s) == sock[s].state # "none"
InTurn  == \E n \in 0..MaxSockets : \A s \in 1..MaxSockets : Used(s) <=> s <= n
OneOpen == /\ \A s \in 1..MaxSockets : sock[s].state \in {"none", "closed"} \/ s = link
           /\ link # 0 => Used(link)

(* The I/O alarm is for systems without socket timeouts; where there are,  *)
(* iotimeout is negated with the first socket.                             *)
Alarms ==
  /\ alarm => iotimeout > 0 /\ ~hasTimeo
  /\ ~hasTimeo => iotimeout >= 0
  /\ hasTimeo /\ iotimeout > 0 => \A s \in 1..MaxSockets : ~Used(s)

Armed == Open(link) /\ iotimeout # 0 /\ hasTimeo => sock[link].timeo

(* While receiving, blocking mode is to be left as it was found only if    *)
(* the caller asked for it (blockflag).                                    *)
Blocking == pc = "recv" /\ sock[link].blocking => blockflag \/ sendFailed

SocketsInv ==
  SocketType /\ Standing /\ InTurn /\ OneOpen /\ Alarms /\ Armed /\ Blocking /\ ModeRestored
-----------------------------------------------------------------------------
(* A socket may be switched to blocking mode or back: the rest of it stays. *)
Switched(mode) ==
  /\ sock' \in [1..MaxSockets -> Socket]
  /\ \A s \in 1..MaxSockets : sock'[s].state = sock[s].state /\ sock'[s].timeo = sock[s].timeo
  /\ sock'[link].blocking = mode

LEMMA LinkOpen ==
  ASSUME SocketType, Open(link)
  PROVE  link \in 1..MaxSockets /\ sock[link] \in Socket
  BY DEF SocketType, Open

LEMMA SwitchesSocket ==
  ASSUME SocketType, Open(link), NEW mode \in BOOLEAN, sock' = [sock EXCEPT ![link].blocking = mode]
  PROVE  Switched(mode)
<1>1. link \in 1..MaxSockets /\ sock \in [1..MaxSockets -> Socket]
  BY LinkOpen DEF SocketType
<1>2. [sock[link] EXCEPT !.blocking = mode] \in Socket
  BY <1>1 DEF Socket
<1> QED BY <1>1, <1>2 DEF Switched, Socket

LEMMA KeepsSocket ==
  ASSUME SocketType, Open(link), UNCHANGED sock
  PROVE  Switched(sock[link].blocking)
  BY LinkOpen DEF SocketType, Switched

LEMMA ClosesSocket ==
  ASSUME SocketType, link # 0, sock' = [sock EXCEPT ![link] = Closed]
  PROVE  /\ sock' \in [1..MaxSockets -> Socket] /\ sock'[link].state = "closed"
         /\ \A s \in 1..MaxSockets \ {link} : sock'[s] = sock[s]
<1>1. link \in 1..MaxSockets /\ sock \in [1..MaxSockets -> Socket]
  BY DEF SocketType
<1>2. Closed \in Socket /\ Closed.state = "closed"
  BY DEF Socket, Closed
<1> QED BY <1>1, <1>2

(* Where there is an open socket, an alarm is set only if socket timeouts  *)
(* are missing.                                                            *)
LEMMA AlarmIfNone ==
  ASSUME SocketType, OneOpen, Alarms, Open(link), iotimeout > 0
  PROVE  ~hasTimeo
  BY LinkOpen DEF OneOpen, Alarms, Open

(* The socket stays open, maybe switched: what does not change with it.    *)
LEMMA SwitchedKeeps ==
  ASSUME SocketsInv, Open(link), NEW mode \in BOOLEAN, Switched(mode),
         UNCHANGED <<link, iotimeout, hasTimeo>>, alarm' \in BOOLEAN, blockflag' \in BOOLEAN,
         alarm' => alarm \/ iotimeout > 0
  PROVE  SocketType' /\ InTurn' /\ OneOpen' /\ Alarms' /\ Armed' /\ Open(link)'
<1> USE DEF SocketsInv
<1>1. link \in 1..MaxSockets /\ (iotimeout > 0 => ~hasTimeo)
  BY LinkOpen, AlarmIfNone
<1>2. \A s \in 1..MaxSockets : Used(s)' <=> Used(s)
  BY DEF Switched, Used
<1>3. SocketType' /\ Open(link)' /\ Armed'
  BY <1>1 DEF SocketType, Switched, Open, Armed
<1>4. InTurn'
  BY <1>2 DEF InTurn
<1>5. OneOpen'
  BY <1>1, <1>2 DEF OneOpen, Switched
<1>6. Alarms'
  BY <1>1, <1>2 DEF Alarms
<1> QED BY <1>3, <1>4, <1>5, <1>6

(* A call goes on or begins.                                               *)
LEMMA GoingKeeps ==
  ASSUME SocketsInv, Open(link), NEW mode \in BOOLEAN, Switched(mode),
         UNCHANGED <<link, iotimeout, hasTimeo>>, alarm' \in BOOLEAN, blockflag' \in BOOLEAN,
         alarm' => alarm \/ iotimeout > 0,
         fn' \in Calls, pc' \in {"send", "recv"},
         pc' = "recv" => (mode => blockflag' \/ sendFailed')
  PROVE  SocketsInv'
<1>1. SocketType' /\ InTurn' /\ OneOpen' /\ Alarms' /\ Armed' /\ Open(link)'
  BY SwitchedKeeps
<1>2. Standing'
  BY <1>1 DEF Standing, Calls
<1>3. Blocking' /\ ModeRestored'
  BY DEF Switched, Blocking, ModeRestored, Calls
<1> QED BY <1>1, <1>2, <1>3 DEF SocketsInv

(* A call returns: with the socket non-blocking and no alarm, unless it    *)
(* was not successful and a send has failed.  dl_connect() closes the      *)
(* socket on which it fails.                                               *)
LEMMA ReturningKeeps ==
  ASSUME SocketsInv, Open(link), NEW r, NEW mode \in BOOLEAN, Return(r, mode),
         UNCHANGED <<link, iotimeout, hasTimeo>>, alarm' \in BOOLEAN, alarm' => alarm,
         mode \/ alarm' => sendFailed' /\ r \notin {"sent", "got", "data"}
  PROVE  SocketsInv'
<1> USE DEF SocketsInv
<1>1. fn' = "idle" /\ pc' = "idle" /\ blockflag' = FALSE /\ ret' = r
  BY DEF Return
<1>2. Standing' /\ Blocking'
  BY <1>1 DEF Standing, Calls, Blocking
<1>3. CASE fn = "connect" /\ r = "failed"
  <2>1. sock' = [sock EXCEPT ![link] = Closed] /\ link # 0 /\ link \in 1..MaxSockets
    BY <1>3, LinkOpen DEF Return, Open
  <2>2. /\ sock' \in [1..MaxSockets -> Socket] /\ sock'[link].state = "closed"
        /\ \A s \in 1..MaxSockets \ {link} : sock'[s] = sock[s]
    BY <2>1, ClosesSocket
  <2>3. \A s \in 1..MaxSockets : Used(s)' <=> Used(s)
    BY <2>1, <2>2 DEF Used, OneOpen
  <2>4. ~Open(link)'
    BY <2>2 DEF Open
  <2>5. SocketType' /\ Armed' /\ ModeRestored'
    BY <1>1, <2>2, <2>4 DEF SocketType, Armed, ModeRestored
  <2>6. InTurn' /\ OneOpen' /\ Alarms'
    BY <2>1, <2>2, <2>3 DEF InTurn, OneOpen, Alarms
  <2> QED BY <1>2, <2>5, <2>6
<1>4. CASE ~(fn = "connect" /\ r = "failed")
  <2>1. Switched(mode)
    BY <1>4, SwitchesSocket DEF Return
  <2>2. SocketType' /\ InTurn' /\ OneOpen' /\ Alarms' /\ Armed' /\ Open(link)'
    BY <1>1, <2>1, SwitchedKeeps
  <2>3. ModeRestored'
    BY <1>1, <2>1 DEF ModeRestored, Switched
  <2> QED BY <1>2, <2>2, <2>3
<1> QED BY <1>3, <1>4

(* Nothing changes of the sockets and of the call.                         *)
LEMMA ElsewhereKeeps ==
  ASSUME SocketsInv, UNCHANGED <<sock, link, iotimeout, hasTimeo, fn, pc, blockflag, ret, sendFailed>>,
         alarm' \in BOOLEAN, alarm' => alarm
  PROVE  SocketsInv'
<1> USE DEF SocketsInv
<1>1. \A s \in 1..MaxSockets : Used(s)' <=> Used(s)
  BY DEF Used
<1>2. SocketType' /\ Standing' /\ Armed' /\ Blocking' /\ ModeRestored'
  BY DEF SocketType, Standing, Open, Armed, Blocking, ModeRestored
<1>3. InTurn'
  BY <1>1 DEF InTurn
<1>4. OneOpen'
  BY <1>1 DEF OneOpen, SocketType
<1>5. Alarms'
  BY <1>1 DEF Alarms
<1> QED BY <1>2, <1>3, <1>4, <1>5
-----------------------------------------------------------------------------
(* The steps of a call.  An alarm that is cancelled is not set any more,   *)
(* since it is set only for a timeout of the application.                  *)
LEMMA AlarmCancelled ==
  ASSUME SocketsInv
  PROVE  /\ AlarmUnset = FALSE
         /\ AlarmSet \in BOOLEAN /\ (AlarmSet => alarm \/ iotimeout > 0)
<1>1. alarm => iotimeout > 0
  BY DEF SocketsInv, Alarms
<1>2. ~AlarmUnset
  BY <1>1 DEF AlarmUnset, SocketsInv, SocketType
<1> QED BY <1>2 DEF AlarmUnset, AlarmSet

LEMMA RecvDataKeeps ==
  ASSUME SocketsInv, Open(link), NEW n, NEW block \in BOOLEAN, NEW st, RecvData(n, block, st),
         block \/ ~sock[link].blocking \/ sendFailed,
         UNCHANGED <<link, iotimeout, hasTimeo, sendFailed>>, fn' \in Calls
  PROVE  SocketsInv'
<1> DEFINE mode == sock[link].blocking \/ block
<1>1. sock[link] \in Socket /\ link \in 1..MaxSockets /\ sock \in [1..MaxSockets -> Socket]
  BY LinkOpen DEF SocketsInv, SocketType
<1>2. mode \in BOOLEAN
  OBVIOUS
<1>3. sock' = [sock EXCEPT ![link].blocking = mode]
  BY <1>1 DEF RecvData
<1> HIDE DEF mode
<1>4. Switched(mode)
  BY <1>2, <1>3, SwitchesSocket DEF SocketsInv
<1>5. alarm' \in BOOLEAN /\ (alarm' => alarm \/ iotimeout > 0)
  BY AlarmCancelled DEF RecvData
<1>6. pc' = "recv" /\ blockflag' = block
  BY DEF RecvData
<1>7. mode => blockflag' \/ sendFailed'
  BY <1>6 DEF mode
<1> QED BY <1>2, <1>4, <1>5, <1>6, <1>7, GoingKeeps

(* The socket's mode after a receive that fails.                           *)
LEMMA AfterReceiving ==
  ASSUME SocketsInv, pc = "recv"
  PROVE  AfterRecv \in BOOLEAN /\ (AfterRecv => sendFailed)
  BY DEF AfterRecv, SocketsInv, Blocking

LEMMA RecvEndKeeps ==
  ASSUME SocketsInv, pc = "recv", RecvFails \/ RecvNothing
  PROVE  SocketsInv'
<1>1. \E r \in {"failed", "none"} : Return(r, AfterRecv)
  BY DEF RecvFails, RecvNothing
<1>2. alarm' = AlarmUnset /\ UNCHANGED <<link, iotimeout, hasTimeo, sendFailed>>
  BY DEF RecvFails, RecvNothing, config
<1>3. Open(link)
  BY DEF SocketsInv, Standing
<1> QED BY <1>1, <1>2, <1>3, AlarmCancelled, AfterReceiving, ReturningKeeps

LEMMA SendFailedKeeps ==
  ASSUME SocketsInv, pc = "send", NEW still \in BOOLEAN, SendFailed(still), still => alarm
  PROVE  SocketsInv'
<1>1. Open(link) /\ sendFailed' = TRUE /\ UNCHANGED <<link, iotimeout, hasTimeo>> /\ fn \in Calls
  BY DEF SocketsInv, Standing, SendFailed, config
<1>2. CASE resp = "none"
  <2>1. Return("failed", TRUE) /\ alarm' = still
    BY <1>2 DEF SendFailed
  <2>2. alarm' \in BOOLEAN /\ (alarm' => alarm)
    BY <2>1
  <2> QED BY <1>1, <2>1, <2>2, ReturningKeeps
<1>3. CASE resp # "none"
  <2>1. /\ pc' = "recv" /\ blockflag' = FALSE /\ alarm' = (still \/ iotimeout > 0)
        /\ UNCHANGED <<fn, sock>>
    BY <1>3 DEF SendFailed
  <2>2. Switched(sock[link].blocking) /\ sock[link].blocking \in BOOLEAN
    BY <1>1, <2>1, KeepsSocket, LinkOpen DEF SocketsInv, Socket
  <2> QED BY <1>1, <2>1, <2>2, GoingKeeps
<1> QED BY <1>2, <1>3

LEMMA SendDoneKeeps ==
  ASSUME SocketsInv, SendDone
  PROVE  SocketsInv'
<1>1. Open(link) /\ UNCHANGED <<link, iotimeout, hasTimeo, sendFailed>> /\ fn \in Calls
  BY DEF SocketsInv, Standing, SendDone, Answered, config
<1>2. CASE resp = "none"
  <2>1. Return("sent", FALSE) /\ alarm' = FALSE
    BY <1>2, AlarmCancelled DEF SendDone, Answered
  <2> QED BY <1>1, <2>1, ReturningKeeps
<1>3. CASE resp # "none"
  <2>1. /\ pc' = "recv" /\ blockflag' = TRUE /\ UNCHANGED <<fn, sock>>
        /\ alarm' \in BOOLEAN /\ (alarm' => alarm \/ iotimeout > 0)
    BY <1>3, AlarmCancelled DEF SendDone, Answered
  <2>2. Switched(sock[link].blocking) /\ sock[link].blocking \in BOOLEAN
    BY <1>1, <2>1, KeepsSocket, LinkOpen DEF SocketsInv, Socket
  <2> QED BY <1>1, <2>1, <2>2, GoingKeeps
<1> QED BY <1>2, <1>3

LEMMA RecvBytesKeeps ==
  ASSUME SocketsInv, RecvBytes
  PROVE  SocketsInv'
<1>1. /\ Open(link) /\ UNCHANGED <<link, iotimeout, hasTimeo, sendFailed>> /\ pc = "recv"
      /\ fn \in Calls
  BY DEF SocketsInv, Standing, RecvBytes, config
<1>2. CASE \E all : SyncRead(all)
  <2>1. PICK all : SyncRead(all)
    BY <1>2
  <2>2. CASE Reads(all[1]) = D /\ Reads(all[2]) = L
    BY <1>1, <2>1, <2>2, RecvDataKeeps DEF SyncRead
  <2>3. CASE ~(Reads(all[1]) = D /\ Reads(all[2]) = L)
    <3>1. Return("failed", AfterRecv) /\ alarm' = FALSE
      BY <2>1, <2>3, AlarmCancelled DEF SyncRead
    <3>2. AfterRecv \in BOOLEAN /\ (AfterRecv => sendFailed')
      BY <1>1, AfterReceiving
    <3> QED BY <1>1, <3>1, <3>2, ReturningKeeps
  <2> QED BY <2>2, <2>3
<1>3. CASE \E r : Return(r, FALSE) /\ alarm' = AlarmUnset
  <2>1. PICK r : Return(r, FALSE)
    BY <1>3
  <2>2. alarm' = FALSE
    BY <1>3, AlarmCancelled
  <2> QED BY <1>1, <2>1, <2>2, ReturningKeeps
<1>4. CASE UNCHANGED <<fn, pc, stage, blockflag, resp, ret, sock, alarm, inSync, owed, taken>>
  BY <1>1, <1>4, ElsewhereKeeps DEF SocketsInv, SocketType
<1>5. \/ \E all : SyncRead(all)
      \/ \E r : Return(r, FALSE) /\ alarm' = AlarmUnset
      \/ UNCHANGED <<fn, pc, stage, blockflag, resp, ret, sock, alarm, inSync, owed, taken>>
  BY Zenon DEF RecvBytes, HeaderRead
<1> QED BY <1>2, <1>3, <1>4, <1>5
-----------------------------------------------------------------------------
(* Connecting.                                                             *)
LEMMA NewSocket ==
  ASSUME SocketType, InTurn
  PROVE  /\ Created \in 0..MaxSockets /\ New = Created + 1
         /\ \A s \in 1..MaxSockets : Used(s) <=> s <= Created
<1>1. PICK n \in 0..MaxSockets : \A s \in 1..MaxSockets : Used(s) <=> s <= n
  BY DEF InTurn
<1>2. MaxSockets \in Nat
  BY NetAssumption
<1>3. {s \in DOMAIN sock : sock[s].state # "none"} = 1..n
  BY <1>1, <1>2 DEF SocketType, Used
<1>4. Cardinality(1..n) = n
  BY <1>2, FS_Interval
<1> QED BY <1>1, <1>3, <1>4 DEF Created, New

(* The timeout is negated as soon as it is used for a socket.              *)
LEMMA TimeoutUsed ==
  ASSUME SocketType
  PROVE  /\ TimeoutNow \in Int /\ (hasTimeo => TimeoutNow <= 0)
         /\ ~hasTimeo => TimeoutNow = iotimeout
         /\ TimeoutNow = 0 <=> iotimeout = 0
         /\ Timeo <=> iotimeout # 0 /\ hasTimeo
  BY DEF TimeoutNow, Timeo, SocketType

(* A socket is made while none is open, and stays open only if it is put   *)
(* in the DLCP.                                                            *)
LEMMA NewKeeps ==
  ASSUME SocketsInv, ~Open(link), New <= MaxSockets, UNCHANGED hasTimeo,
         NEW x \in Socket, x.state # "none", sock' = [sock EXCEPT ![New] = x],
         iotimeout' = TimeoutNow, alarm' \in BOOLEAN, blockflag' \in BOOLEAN,
         alarm' => alarm \/ TimeoutNow > 0,
         (UNCHANGED link /\ x.state = "closed") \/ (link' = New /\ (Timeo => x.timeo))
  PROVE  SocketType' /\ InTurn' /\ OneOpen' /\ Alarms' /\ Armed'
<1> USE DEF SocketsInv
<1>1. /\ Created \in 0..MaxSockets /\ New = Created + 1 /\ MaxSockets \in Nat
      /\ \A s \in 1..MaxSockets : Used(s) <=> s <= Created
  BY NewSocket, NetAssumption
<1>2. New \in 1..MaxSockets /\ ~Used(New)
  BY <1>1
<1> HIDE DEF New
<1>3. /\ sock' \in [1..MaxSockets -> Socket] /\ sock'[New] = x
      /\ \A s \in 1..MaxSockets \ {New} : sock'[s] = sock[s]
  BY <1>2 DEF SocketType
<1>4. /\ TimeoutNow \in Int /\ (hasTimeo => TimeoutNow <= 0) /\ (~hasTimeo => TimeoutNow = iotimeout)
      /\ TimeoutNow = 0 <=> iotimeout = 0
      /\ Timeo <=> iotimeout # 0 /\ hasTimeo
  BY TimeoutUsed
<1>5. SocketType'
  BY <1>2, <1>3, <1>4 DEF SocketType
<1>6. \A s \in 1..MaxSockets : Used(s)' <=> s <= New
  BY <1>1, <1>2, <1>3 DEF Used
<1>7. InTurn'
  BY <1>2, <1>6 DEF InTurn
<1>8. link # New
  BY <1>2 DEF OneOpen, SocketType
<1>9. \A s \in 1..MaxSockets : sock[s].state \in {"none", "closed"}
  BY DEF OneOpen, Open, SocketType
<1>10. OneOpen'
  <2>1. \A s \in 1..MaxSockets : sock'[s].state \in {"none", "closed"} \/ s = link'
    BY <1>3, <1>9
  <2>2. link' # 0 => Used(link)'
    BY <1>1, <1>2, <1>6, <1>5 DEF OneOpen, SocketType
  <2> QED BY <2>1, <2>2 DEF OneOpen
<1>11. Alarms'
  <2>1. alarm' => iotimeout' > 0 /\ ~hasTimeo
    BY <1>4 DEF Alarms
  <2>2. hasTimeo => ~(iotimeout' > 0)
    BY <1>4
  <2>3. ~hasTimeo => iotimeout' >= 0
    BY <1>4 DEF Alarms
  <2> QED BY <2>1, <2>2, <2>3 DEF Alarms
<1>12. Armed'
  <2>1. CASE link' = New
    BY <1>2, <1>3, <1>4, <2>1, <1>8 DEF Armed
  <2>2. CASE UNCHANGED link /\ x.state = "closed"
    BY <1>3, <1>8, <2>2 DEF Armed, Open, SocketType
  <2> QED BY <2>1, <2>2
<1> QED BY <1>5, <1>7, <1>10, <1>11, <1>12

LEMMA AddressKeeps ==
  ASSUME SocketsInv, AddressFails \/ AddressOpens
  PROVE  SocketsInv'
<1>1. /\ pc = "socket" /\ fn = "connect" /\ ~Open(link) /\ blockflag \in BOOLEAN /\ alarm \in BOOLEAN
      /\ New <= MaxSockets /\ UNCHANGED <<hasTimeo, fn, blockflag>> /\ iotimeout' = TimeoutNow
  BY DEF SocketsInv, SocketType, Standing, AddressFails, AddressOpens, config, netio
<1>2. CASE AddressFails
  <2>1. Closed \in Socket /\ Closed.state = "closed"
    BY DEF Closed, Socket
  <2>2. sock' = [sock EXCEPT ![New] = Closed] /\ UNCHANGED <<link, alarm, pc>>
    BY <1>2 DEF AddressFails
  <2>3. SocketType' /\ InTurn' /\ OneOpen' /\ Alarms' /\ Armed'
    BY <1>1, <2>1, <2>2, NewKeeps
  <2>4. ~Open(link)'
    BY <1>1, <2>2, <2>3, NewSocket DEF Open, SocketsInv, SocketType, OneOpen, Used
  <2>5. Standing' /\ Blocking' /\ ModeRestored'
    BY <1>1, <2>2, <2>4 DEF Standing, Blocking, ModeRestored, Calls
  <2> QED BY <2>3, <2>5 DEF SocketsInv
<1>3. CASE AddressOpens
  <2>1. PICK st \in {"connected", "connecting"} :
          sock' = [sock EXCEPT ![New] = [state |-> st, blocking |-> TRUE, timeo |-> Timeo]]
    BY <1>3 DEF AddressOpens
  <2> DEFINE x == [state |-> st, blocking |-> TRUE, timeo |-> Timeo]
  <2>2. x \in Socket /\ x.state = st /\ x.timeo = Timeo
    BY DEF Socket, Timeo
  <2>3. sock' = [sock EXCEPT ![New] = x]
    BY <2>1
  <2> HIDE DEF x
  <2>4. link' = New /\ pc' = "send" /\ (alarm' = (alarm \/ TimeoutNow > 0))
    BY <1>3 DEF AddressOpens
  <2>5. SocketType' /\ InTurn' /\ OneOpen' /\ Alarms' /\ Armed'
    BY <1>1, <2>2, <2>3, <2>4, NewKeeps
  <2>6. Open(link)'
    BY <1>1, <2>2, <2>3, <2>4, NewSocket DEF Open, SocketsInv, SocketType
  <2>7. Standing' /\ Blocking' /\ ModeRestored'
    BY <1>1, <2>4, <2>6 DEF Standing, Blocking, ModeRestored, Calls
  <2> QED BY <2>5, <2>7 DEF SocketsInv
<1> QED BY <1>2, <1>3
-----------------------------------------------------------------------------
(* The calls of the application, the alarm, and the other side.            *)
LEMMA CallingKeepsSockets ==
  ASSUME SocketsInv,
         \/ \E block \in BOOLEAN : RecvHeader(block)
         \/ RecvBody
         \/ \E r \in {"none", "reply"} : SendPacket(r)
  PROVE  SocketsInv'
<1>1. /\ Open(link) /\ fn = "idle" /\ UNCHANGED <<link, iotimeout, hasTimeo, sendFailed>>
      /\ sock[link].blocking => sendFailed
  BY DEF RecvHeader, RecvBody, SendPacket, Free, config, history, SocketsInv, ModeRestored
<1>2. CASE \E block \in BOOLEAN : RecvHeader(block)
  <2>1. PICK block \in BOOLEAN : RecvHeader(block)
    BY <1>2
  <2>2. RecvData(3, block, "sync") /\ fn' \in Calls
    BY <2>1 DEF RecvHeader, Calls
  <2> QED BY <1>1, <2>2, RecvDataKeeps
<1>3. CASE RecvBody
  <2>1. RecvData(owed, TRUE, "data") /\ fn' \in Calls
    BY <1>3 DEF RecvBody, Calls
  <2> QED BY <1>1, <2>1, RecvDataKeeps
<1>4. CASE \E r \in {"none", "reply"} : SendPacket(r)
  <2>1. /\ SendBegins /\ fn' \in Calls /\ UNCHANGED blockflag
    BY <1>4 DEF SendPacket, Calls
  <2>2. Switched(TRUE)
    BY <1>1, <2>1, SwitchesSocket DEF SendBegins, SocketsInv
  <2>3. /\ alarm' \in BOOLEAN /\ (alarm' => alarm \/ iotimeout > 0)
        /\ blockflag' \in BOOLEAN /\ pc' = "send"
    BY <2>1, AlarmCancelled DEF SendBegins, SocketsInv, SocketType
  <2> QED BY <1>1, <2>1, <2>2, <2>3, GoingKeeps
<1> QED BY <1>2, <1>3, <1>4

LEMMA DisconnectKeeps ==
  ASSUME SocketsInv, Disconnect
  PROVE  SocketsInv'
<1> USE DEF SocketsInv
<1>1. /\ link # 0 /\ link' = 0 /\ sock' = [sock EXCEPT ![link] = Closed]
      /\ UNCHANGED <<iotimeout, hasTimeo, alarm, fn, pc, blockflag>> /\ fn = "idle" /\ pc = "idle"
  BY DEF Disconnect, Free, config, netio
<1>2. /\ sock' \in [1..MaxSockets -> Socket] /\ sock'[link].state = "closed"
      /\ \A s \in 1..MaxSockets \ {link} : sock'[s] = sock[s]
  BY <1>1, ClosesSocket
<1>3. \A s \in 1..MaxSockets : Used(s)' <=> Used(s)
  BY <1>1, <1>2 DEF Used, OneOpen
<1>4. ~Open(link)'
  BY <1>1 DEF Open
<1>5. SocketType'
  <2>1. link' \in 0..MaxSockets /\ iotimeout' \in Int
    BY <1>1, NetAssumption DEF SocketType
  <2>2. alarm' \in BOOLEAN /\ blockflag' \in BOOLEAN /\ hasTimeo' \in BOOLEAN
    BY <1>1 DEF SocketType
  <2> QED BY <1>2, <2>1, <2>2 DEF SocketType
<1>6. Standing' /\ Armed' /\ Blocking' /\ ModeRestored'
  BY <1>1, <1>4 DEF Standing, Armed, Blocking, ModeRestored, Calls
<1>7. InTurn' /\ Alarms'
  BY <1>1, <1>3 DEF InTurn, Alarms
<1>8. OneOpen'
  BY <1>1, <1>2 DEF OneOpen
<1> QED BY <1>5, <1>6, <1>7, <1>8

(* The process ends, and its sockets are closed.                           *)
LEMMA KillKeeps ==
  ASSUME SocketsInv, AlarmKills
  PROVE  SocketsInv'
<1> USE DEF SocketsInv
<1>1. /\ sock' = [s \in 1..MaxSockets |-> IF Open(s) THEN Closed ELSE sock[s]]
      /\ UNCHANGED <<link, iotimeout, hasTimeo, blockflag>> /\ fn' = "dead" /\ pc' = "idle" /\ alarm' = FALSE
  BY DEF AlarmKills, config
<1>2. Closed \in Socket /\ Closed.state = "closed"
  BY DEF Closed, Socket
<1>3. \A s \in 1..MaxSockets : /\ sock'[s] \in Socket /\ sock'[s].state \in {"none", "closed"}
                               /\ Used(s)' <=> Used(s)
  BY <1>1, <1>2 DEF Open, SocketType, Used
<1>4. ~Open(link)' /\ SocketType'
  <2>1. sock' \in [1..MaxSockets -> Socket] /\ link' \in 0..MaxSockets /\ iotimeout' \in Int
    BY <1>1, <1>3 DEF SocketType
  <2>2. alarm' \in BOOLEAN /\ blockflag' \in BOOLEAN /\ hasTimeo' \in BOOLEAN
    BY <1>1 DEF SocketType
  <2>3. ~Open(link)'
    BY <1>3, <2>1 DEF Open
  <2> QED BY <2>1, <2>2, <2>3 DEF SocketType
<1>5. Standing' /\ Armed' /\ Blocking' /\ ModeRestored'
  BY <1>1, <1>4 DEF Standing, Armed, Blocking, ModeRestored, Calls
<1>6. InTurn'
  BY <1>3 DEF InTurn
<1>7. OneOpen'
  BY <1>1, <1>3 DEF OneOpen, SocketType
<1>8. Alarms'
  BY <1>1, <1>3 DEF Alarms
<1> QED BY <1>4, <1>6, <1>7, <1>8, <1>5

(* SIGALRM, caught.                                                        *)
LEMMA AlarmKeeps ==
  ASSUME SocketsInv, AlarmInterrupts \/ AlarmLost
  PROVE  SocketsInv'
<1>1. CASE AlarmLost
  BY <1>1, ElsewhereKeeps DEF AlarmLost, config, netio, history
<1>2. CASE AlarmInterrupts
  <2>1. CASE pc = "send" /\ SendFailed(FALSE)
    BY <2>1, SendFailedKeeps
  <2>2. CASE Sleeping /\ RecvFails
    BY <2>2, RecvEndKeeps DEF Sleeping, Empty
  <2> QED BY <1>2, <2>1, <2>2 DEF AlarmInterrupts
<1> QED BY <1>1, <1>2

(* The connection is made late, or something arrives.                      *)
LEMMA OtherSideKeeps ==
  ASSUME SocketsInv, LateConnect \/ ServerSends \/ Arrive \/ ServerCloses
  PROVE  SocketsInv'
<1>1. CASE LateConnect
  <2>1. /\ Open(link) /\ sock' = [sock EXCEPT ![link].state = "connected"]
        /\ UNCHANGED <<link, iotimeout, hasTimeo, alarm, fn, pc, blockflag, ret, sendFailed>>
    BY <1>1 DEF LateConnect, config, netio, history
  <2>2. /\ link \in 1..MaxSockets /\ sock[link] \in Socket
        /\ sock \in [1..MaxSockets -> Socket]
    BY <2>1, LinkOpen DEF SocketsInv, SocketType
  <2> DEFINE x == [sock[link] EXCEPT !.state = "connected"]
  <2>3. /\ x \in Socket /\ x.state = "connected"
        /\ x.blocking = sock[link].blocking /\ x.timeo = sock[link].timeo
    BY <2>2 DEF Socket
  <2>4. sock' = [sock EXCEPT ![link] = x]
    BY <2>1, <2>2
  <2> HIDE DEF x
  <2>5. /\ sock' \in [1..MaxSockets -> Socket] /\ sock'[link] = x
        /\ \A s \in 1..MaxSockets \ {link} : sock'[s] = sock[s]
    BY <2>2, <2>3, <2>4
  <2>6. \A s \in 1..MaxSockets : Used(s)' <=> Used(s)
    BY <2>1, <2>3, <2>5 DEF Used, Open
  <2>7. SocketType' /\ Standing' /\ Armed' /\ Blocking' /\ ModeRestored'
    BY <2>1, <2>2, <2>3, <2>5 DEF SocketsInv, SocketType, Standing, Open, Armed, Blocking, ModeRestored
  <2>8. InTurn' /\ OneOpen'
    BY <2>1, <2>5, <2>6 DEF SocketsInv, InTurn, OneOpen
  <2>9. Alarms'
    BY <2>1, <2>6 DEF SocketsInv, Alarms
  <2> QED BY <2>7, <2>8, <2>9 DEF SocketsInv
<1>2. CASE ServerSends \/ Arrive \/ ServerCloses
  <2>1. /\ UNCHANGED <<sock, link, iotimeout, hasTimeo, alarm, fn, pc, blockflag, ret, sendFailed>>
    BY <1>2 DEF ServerSends, Arrive, ServerCloses, config, netio, history
  <2>2. alarm' \in BOOLEAN /\ (alarm' => alarm)
    BY <2>1 DEF SocketsInv, SocketType
  <2> QED BY <2>1, <2>2, ElsewhereKeeps
<1> QED BY <1>1, <1>2

(* dl_connect() begins or has no address left; a call on a closed socket.  *)
LEMMA NoSocketKeeps ==
  ASSUME SocketsInv, Connect \/ NoSocket \/ ConnectFails \/ StaleCall
  PROVE  SocketsInv'
<1> USE DEF SocketsInv
<1>1. /\ UNCHANGED <<sock, link, iotimeout, hasTimeo, alarm, blockflag, sendFailed>> /\ ~Open(link)
      /\ \/ pc' = "socket" /\ fn' = "connect"
         \/ pc' = "idle" /\ fn' = "idle"
  BY DEF Connect, NoSocket, ConnectFails, StaleCall, OnStale, Free, Standing, Open, config, netio,
         history
<1>2. ~Open(link)'
  BY <1>1 DEF Open
<1>3. \A s \in 1..MaxSockets : Used(s)' <=> Used(s)
  BY <1>1 DEF Used
<1>4. SocketType' /\ Standing' /\ Armed' /\ Blocking' /\ ModeRestored'
  BY <1>1, <1>2 DEF SocketType, Standing, Armed, Blocking, ModeRestored, Calls
<1>5. InTurn'
  BY <1>3 DEF InTurn
<1>6. OneOpen'
  BY <1>1, <1>3 DEF OneOpen, SocketType
<1>7. Alarms'
  BY <1>1, <1>3 DEF Alarms
<1> QED BY <1>4, <1>5, <1>6, <1>7

LEMMA NextKeepsSockets ==
  ASSUME SocketsInv, [Next]_vars
  PROVE  SocketsInv'
<1>1. CASE SendError \/ SendTimesOut
  <2>1. pc = "send" /\ SendFailed(alarm) /\ alarm \in BOOLEAN
    BY <1>1 DEF SendError, SendTimesOut, SocketsInv, SocketType
  <2> QED BY <2>1, SendFailedKeeps
<1>2. CASE RecvWouldBlock \/ RecvTimesOut \/ RecvShutdown
  BY <1>2, RecvEndKeeps DEF RecvWouldBlock, RecvTimesOut, RecvShutdown, Sleeping, Empty
<1>3. CASE CallStep
  BY <1>1, <1>2, <1>3, SendDoneKeeps, RecvBytesKeeps, AddressKeeps, NoSocketKeeps DEF CallStep
<1>4. CASE UNCHANGED vars
  <2>1. /\ UNCHANGED <<sock, link, iotimeout, hasTimeo, fn, pc, blockflag, ret, sendFailed>>
        /\ alarm' \in BOOLEAN /\ (alarm' => alarm)
    BY <1>4 DEF vars, config, netio, history, SocketsInv, SocketType
  <2> QED BY <2>1, ElsewhereKeeps
<1> QED BY <1>3, <1>4, NoSocketKeeps, CallingKeepsSockets, DisconnectKeeps, AlarmKeeps, KillKeeps,
           OtherSideKeeps DEF Next

LEMMA SocketsInit ==
  ASSUME Init
  PROVE  SocketsInv
<1>1. MaxSockets \in Nat /\ Timeouts \subseteq Nat
  BY NetAssumption
<1>2. [Closed EXCEPT !.state = "none"] \in Socket /\ [Closed EXCEPT !.state = "none"].state = "none"
  BY DEF Closed, Socket
<1>3. \A s \in 1..MaxSockets : sock[s] \in Socket /\ ~Used(s)
  BY <1>2 DEF Init, Used
<1>4. SocketType
  <2>1. sock \in [1..MaxSockets -> Socket]
    BY <1>2 DEF Init
  <2>2. link \in 0..MaxSockets /\ iotimeout \in Int
    BY <1>1 DEF Init
  <2>3. alarm \in BOOLEAN /\ blockflag \in BOOLEAN /\ hasTimeo \in BOOLEAN
    BY DEF Init
  <2> QED BY <2>1, <2>2, <2>3 DEF SocketType
<1>5. InTurn
  <2>1. \A s \in 1..MaxSockets : ~(s <= 0)
    OBVIOUS
  <2> QED BY <1>1, <1>3, <2>1 DEF InTurn
<1>6. OneOpen /\ Alarms
  BY <1>1, <1>3 DEF Init, OneOpen, Alarms, Used
<1>7. Standing /\ Armed /\ Blocking /\ ModeRestored
  BY DEF Init, Standing, Armed, Blocking, ModeRestored, Open
<1> QED BY <1>4, <1>5, <1>6, <1>7 DEF SocketsInv

(* SocketsInv holds of every state: where a call stands, which socket is   *)
(* open, which timeout covers it and what is to be put back.               *)
THEOREM SocketsInvariance == Spec => []SocketsInv
<1>1. Init => SocketsInv
  BY SocketsInit
<1> QED BY <1>1, NextKeepsSockets, PTL DEF Spec

(* A call that succeeded has left the socket non-blocking and no alarm     *)
(* pending, and so has one that failed, but on a socket on which a send    *)
(* has failed.                                                             *)
THEOREM ModesRestored == Spec => []ModeRestored
<1>1. SocketsInv => ModeRestored
  BY DEF SocketsInv
<1> QED BY <1>1, SocketsInvariance, PTL

(* Each wait begins with the alarm set, where it is to be, and goes on     *)
(* with it unless it rang.                                                 *)
LEMMA WaitsWithAlarm ==
  ASSUME SocketsInv, SocketsInv', Next, pc' \in {"send", "recv"}, iotimeout' > 0
  PROVE  alarm' \/ AlarmLost \/ (~alarm /\ UNCHANGED <<pc, stage>>)
<1>1. pc' # "idle" /\ pc' # "socket"
  OBVIOUS
<1>2. CASE AddressOpens
  BY <1>2 DEF AddressOpens
<1>3. CASE SendDone
  BY <1>1, <1>3 DEF SendDone, Answered, Return, AlarmSet
<1>4. CASE SendError \/ SendTimesOut \/ AlarmInterrupts
  <2>1. CASE \E still : SendFailed(still)
    BY <1>1, <2>1 DEF SendFailed, Return
  <2>2. CASE RecvFails
    BY <1>1, <2>2 DEF RecvFails, Return
  <2> QED BY <1>4, <2>1, <2>2 DEF SendError, SendTimesOut, AlarmInterrupts
<1>5. CASE RecvBytes
  <2>1. CASE \E r : Return(r, FALSE)
    BY <1>1, <2>1 DEF Return
  <2>2. CASE \E all : SyncRead(all)
    BY <1>1, <1>5, <2>2 DEF RecvBytes, SyncRead, RecvData, Return, AlarmSet
  <2>3. CASE UNCHANGED <<fn, pc, stage, blockflag, resp, ret, sock, alarm, inSync, owed, taken>>
    BY <2>3 DEF SocketsInv, SocketType
  <2> QED BY <1>5, <2>1, <2>2, <2>3, Zenon DEF RecvBytes, HeaderRead
<1>6. CASE RecvWouldBlock \/ RecvTimesOut \/ RecvShutdown
  BY <1>1, <1>6 DEF RecvWouldBlock, RecvTimesOut, RecvShutdown, RecvFails, RecvNothing, Return
<1>7. CASE \/ \E block \in BOOLEAN : RecvHeader(block)
          \/ RecvBody
          \/ \E r \in {"none", "reply"} : SendPacket(r)
  BY <1>7 DEF RecvHeader, RecvBody, SendPacket, RecvData, SendBegins, AlarmSet
<1>8. CASE AddressFails \/ NoSocket
  BY <1>1, <1>8 DEF AddressFails, NoSocket
<1>9. CASE Connect \/ ConnectFails \/ StaleCall \/ Disconnect \/ AlarmKills
  BY <1>1, <1>9 DEF Connect, ConnectFails, StaleCall, Disconnect, Free, AlarmKills
<1>10. CASE LateConnect \/ ServerSends \/ Arrive \/ ServerCloses
  BY <1>10 DEF LateConnect, ServerSends, Arrive, ServerCloses, netio, SocketsInv, SocketType
<1> QED BY <1>2, <1>3, <1>4, <1>5, <1>6, <1>7, <1>8, <1>9, <1>10 DEF Next, CallStep

(* A call that waits has the timeout the application asked for: of the     *)
(* socket, also after dl_connect() has negated iotimeout for the address   *)
(* or the connection before, or an alarm, unless it rang in that wait.     *)
THEOREM TimeoutsArmed == Spec => TimeoutArmed
<1> DEFINE Covered == pc' \in {"send", "recv"} /\ iotimeout' # 0 =>
                        IF hasTimeo THEN sock'[link'].timeo
                        ELSE alarm' \/ AlarmLost \/ (~alarm /\ UNCHANGED <<pc, stage>>)
<1>1. ASSUME SocketsInv, SocketsInv', [Next]_vars
      PROVE  [Covered]_vars
  <2> SUFFICES ASSUME Next, pc' \in {"send", "recv"}, iotimeout' # 0
               PROVE  IF hasTimeo THEN sock'[link'].timeo
                      ELSE alarm' \/ AlarmLost \/ (~alarm /\ UNCHANGED <<pc, stage>>)
    BY <1>1
  <2>1. hasTimeo' = hasTimeo
    <3>1. UNCHANGED config
      BY Zenon DEF Next, CallStep, Connect, Disconnect, StaleCall, RecvBody, RecvHeader, SendPacket,
        SendDone, Answered, SendError, SendTimesOut, SendFailed, RecvBytes, RecvWouldBlock,
        RecvTimesOut, RecvShutdown, RecvFails, RecvNothing, AddressFails, NoSocket, AddressOpens,
        ConnectFails, AlarmInterrupts, AlarmLost, AlarmKills, LateConnect, ServerSends, Arrive,
        ServerCloses
    <3> QED BY <3>1 DEF config
  <2>2. CASE hasTimeo
    BY <1>1, <2>1, <2>2 DEF SocketsInv, Standing, Armed
  <2>3. CASE ~hasTimeo
    <3>1. iotimeout' > 0
      BY <1>1, <2>1, <2>3 DEF SocketsInv, SocketType, Alarms
    <3> QED BY <1>1, <2>3, <3>1, WaitsWithAlarm
  <2> QED BY <2>2, <2>3
<1>2. Spec => []SocketsInv
  BY SocketsInvariance
<1> QED BY <1>1, <1>2, PTL DEF Spec, TimeoutArmed

(* dl_connect() closes each socket it made but the one it returns.         *)
THEOREM NothingLeaks == Spec => []NoLeak
<1>1. SocketsInv => NoLeak
  BY DEF SocketsInv, OneOpen, NoLeak
<1> QED BY <1>1, SocketsInvariance, PTL
-----------------------------------------------------------------------------
(* The bytes on their way.  Byte y is d places after byte x.               *)
Following(x, y, d) ==
  IF x.at + d <= Size(x.of) THEN y = [of |-> x.of, at |-> x.at + d]
  ELSE x.of.n < y.of.n /\ y.at <= d - (Size(x.of) - x.at)

NumbersOf(s) == {p.n : p \in OnWay(s)}

(* Bytes follow each other as the server sent them, of its first m packets. *)
Stream(s, m) ==
  /\ s \in Seq(Byte)
  /\ \A i \in 1..Len(s) : s[i].of.n <= m /\ s[i].at <= Size(s[i].of)
  /\ \A i, j \in 1..Len(s) : i < j => Following(s[i], s[j], j - i)
  /\ \A i, j \in 1..Len(s), k \in Nat : s[i].of.n < k /\ k < s[j].of.n => k \in NumbersOf(s)

(* Nothing is missing at the end.                                          *)
Whole(s, m) ==
  /\ s # <<>> => s[Len(s)].at = Size(s[Len(s)].of)
  /\ \A i \in 1..Len(s), k \in Nat : s[i].of.n < k /\ k <= m => k \in NumbersOf(s)

(* t is what is left of s behind its first d bytes, or the start of that.  *)
PartOf(t, s, d) ==
  /\ t \in Seq(Byte) /\ d \in Nat /\ d + Len(t) <= Len(s)
  /\ \A i \in 1..Len(t) : t[i] = s[d + i]

LEMMA ByteType ==
  ASSUME NEW x \in Byte
  PROVE  /\ x.of \in Packet /\ x.at \in Nat \ {0}
         /\ x.of.n \in 1..MaxPackets /\ x.of.n \in Nat /\ x.of.h \in Nat \ {0} /\ x.of.b \in Nat
         /\ Size(x.of) = 3 + x.of.h + x.of.b /\ Size(x.of) \in Nat
<1>1. MaxPackets \in Nat /\ Headers \subseteq Nat \ {0} /\ Bodies \subseteq Nat
  BY NetAssumption
<1>2. x.of \in Packet /\ x.at \in Nat \ {0}
  BY DEF Byte
<1>3. x.of.n \in 1..MaxPackets /\ x.of.h \in Headers /\ x.of.b \in Bodies
  BY <1>2 DEF Packet
<1>4. x.of.h \in Nat \ {0} /\ x.of.b \in Nat
  BY <1>1, <1>3, Zenon
<1>5. \A k \in 1..MaxPackets : k \in Nat
  BY <1>1
<1>6. x.of.n \in Nat
  BY <1>3, <1>5, Zenon
<1> QED BY <1>2, <1>3, <1>4, <1>6 DEF Size

LEMMA NumberIs ==
  ASSUME NEW s, NEW k
  PROVE  k \in NumbersOf(s) <=> \E i \in 1..Len(s) : Ends(s, i) /\ s[i].of.n = k
  BY DEF NumbersOf, OnWay

LEMMA StreamOrder ==
  ASSUME NEW m \in Nat, NEW s, Stream(s, m)
  PROVE  /\ \A i, j \in 1..Len(s) : i < j => s[i].of.n <= s[j].of.n
         /\ \A i, j \in 1..Len(s) : s[i].of.n < s[j].of.n => i < j
         /\ \A i, j \in 1..Len(s) : s[i].of.n = s[j].of.n => s[i].of = s[j].of
         /\ \A i, j \in 1..Len(s) : s[i].of.n = s[j].of.n => s[j].at = s[i].at + (j - i)
<1>1. \A i \in 1..Len(s) : s[i] \in Byte
  BY DEF Stream
<1>2. \A i \in 1..Len(s) : s[i].of.n \in Nat /\ s[i].at \in Nat /\ Size(s[i].of) \in Nat
  BY <1>1, ByteType
<1>3. ASSUME NEW i \in 1..Len(s), NEW j \in 1..Len(s), i < j
      PROVE  \/ s[i].of.n < s[j].of.n
             \/ s[i].of = s[j].of /\ s[j].at = s[i].at + (j - i)
  <2>1. Following(s[i], s[j], j - i)
    BY <1>3 DEF Stream
  <2> QED BY <2>1 DEF Following
<1>4. Len(s) \in Nat
  BY DEF Stream
<1>5. \A i, j \in 1..Len(s) : i < j => s[i].of.n <= s[j].of.n
  BY <1>2, <1>3
<1>6. \A i, j \in 1..Len(s) : s[i].of.n < s[j].of.n => i < j
  <2> SUFFICES ASSUME NEW i \in 1..Len(s), NEW j \in 1..Len(s), s[i].of.n < s[j].of.n, ~(i < j)
               PROVE  FALSE
    OBVIOUS
  <2>1. i = j \/ j < i
    OBVIOUS
  <2> QED BY <1>2, <1>5, <2>1
<1>7. \A i, j \in 1..Len(s) : s[i].of.n = s[j].of.n =>
         s[i].of = s[j].of /\ s[j].at = s[i].at + (j - i)
  <2> SUFFICES ASSUME NEW i \in 1..Len(s), NEW j \in 1..Len(s), s[i].of.n = s[j].of.n
               PROVE  s[i].of = s[j].of /\ s[j].at = s[i].at + (j - i)
    OBVIOUS
  <2>1. CASE i < j
    <3>1. s[i].of.n < s[j].of.n \/ (s[i].of = s[j].of /\ s[j].at = s[i].at + (j - i))
      BY <1>3, <2>1
    <3> QED BY <1>2, <3>1
  <2>2. CASE j < i
    <3>1. s[j].of.n < s[i].of.n \/ (s[i].of = s[j].of /\ s[i].at = s[j].at + (i - j))
      BY <1>3, <2>2
    <3> QED BY <1>2, <3>1
  <2>3. CASE i = j
    BY <1>2, <2>3
  <2> QED BY <2>1, <2>2, <2>3
<1> QED BY <1>5, <1>6, <1>7

LEMMA PartStream ==
  ASSUME NEW m \in Nat, NEW s, NEW t, NEW d, Stream(s, m), PartOf(t, s, d)
  PROVE  /\ Stream(t, m)
         /\ \A i \in 1..Len(t) : d + i \in 1..Len(s) /\ t[i] = s[d + i] /\ (Ends(t, i) <=> Ends(s, d + i))
<1>1. s \in Seq(Byte) /\ Len(s) \in Nat /\ Len(t) \in Nat /\ d \in Nat
  BY DEF Stream, PartOf
<1>2. \A i \in 1..Len(t) : d + i \in 1..Len(s) /\ t[i] = s[d + i]
  BY <1>1 DEF PartOf
<1>3. \A i \in 1..Len(t) : Ends(t, i) <=> Ends(s, d + i)
  BY <1>2 DEF Ends
<1>4. ASSUME NEW i \in 1..Len(t), NEW j \in 1..Len(t), NEW k \in Nat, t[i].of.n < k, k < t[j].of.n
      PROVE  k \in NumbersOf(t)
  <2>1. k \in NumbersOf(s)
    BY <1>2, <1>4 DEF Stream
  <2>2. PICK e \in 1..Len(s) : Ends(s, e) /\ s[e].of.n = k
    BY <2>1, NumberIs
  <2>3. d + i < e /\ e < d + j
    BY <1>2, <1>4, <2>2, StreamOrder
  <2>4. e - d \in 1..Len(t) /\ d + (e - d) = e
    BY <1>1, <2>2, <2>3
  <2>5. Ends(t, e - d) /\ t[e - d].of.n = k
    BY <1>2, <1>3, <2>2, <2>4
  <2> QED BY <2>4, <2>5, NumberIs
<1>5. ASSUME NEW i \in 1..Len(t), NEW j \in 1..Len(t), i < j
      PROVE  Following(t[i], t[j], j - i)
  <2>1. d + i < d + j /\ (d + j) - (d + i) = j - i
    BY <1>1, <1>5
  <2>2. Following(s[d + i], s[d + j], (d + j) - (d + i))
    BY <1>2, <2>1 DEF Stream
  <2> QED BY <1>2, <2>1, <2>2
<1>6. Stream(t, m)
  BY <1>2, <1>4, <1>5 DEF Stream, PartOf
<1> QED BY <1>2, <1>3, <1>6

(* The end of the stream stays as it is when bytes are taken from its      *)
(* start.                                                                  *)
LEMMA RestWhole ==
  ASSUME NEW m \in Nat, NEW s, NEW t, NEW d, Stream(s, m), PartOf(t, s, d), d + Len(t) = Len(s),
         Whole(s, m)
  PROVE  Whole(t, m)
<1>1. s \in Seq(Byte) /\ Len(s) \in Nat /\ Len(t) \in Nat /\ d \in Nat /\ t \in Seq(Byte)
  BY DEF Stream, PartOf
<1>2. \A i \in 1..Len(t) : d + i \in 1..Len(s) /\ t[i] = s[d + i] /\ (Ends(t, i) <=> Ends(s, d + i))
  BY PartStream
<1>3. t # <<>> => t[Len(t)].at = Size(t[Len(t)].of)
  <2>1. SUFFICES ASSUME t # <<>> PROVE t[Len(t)].at = Size(t[Len(t)].of)
    OBVIOUS
  <2>2. Len(t) \in 1..Len(t) /\ s # <<>>
    BY <1>1, <2>1
  <2>3. t[Len(t)] = s[Len(s)]
    BY <1>2, <2>2
  <2> QED BY <2>2, <2>3 DEF Whole
<1>4. ASSUME NEW i \in 1..Len(t), NEW k \in Nat, t[i].of.n < k, k <= m
      PROVE  k \in NumbersOf(t)
  <2>1. k \in NumbersOf(s)
    BY <1>2, <1>4 DEF Whole
  <2>2. PICK e \in 1..Len(s) : Ends(s, e) /\ s[e].of.n = k
    BY <2>1, NumberIs
  <2>3. d + i < e
    BY <1>2, <1>4, <2>2, StreamOrder
  <2>4. e - d \in 1..Len(t) /\ d + (e - d) = e
    BY <1>1, <2>2, <2>3
  <2>5. Ends(t, e - d) /\ t[e - d].of.n = k
    BY <1>2, <2>2, <2>4
  <2> QED BY <2>4, <2>5, NumberIs
<1> QED BY <1>3, <1>4 DEF Whole

(* The packets on their way behind the first d bytes.                      *)
LEMMA RestOnWay ==
  ASSUME NEW m \in Nat, NEW s, NEW t, NEW d, Stream(s, m), PartOf(t, s, d), d + Len(t) = Len(s)
  PROVE  /\ (\A i \in 1..d : ~Ends(s, i)) => OnWay(t) = OnWay(s)
         /\ \A e \in 1..d : Ends(s, e) /\ (\A i \in 1..d : Ends(s, i) => i = e)
              => /\ s[e].of \in OnWay(s) /\ OnWay(t) = OnWay(s) \ {s[e].of}
                 /\ \A p \in OnWay(t) : s[e].of.n < p.n
<1>1. s \in Seq(Byte) /\ Len(s) \in Nat /\ Len(t) \in Nat /\ d \in Nat
  BY DEF Stream, PartOf
<1>2. \A i \in 1..Len(t) : d + i \in 1..Len(s) /\ t[i] = s[d + i] /\ (Ends(t, i) <=> Ends(s, d + i))
  BY PartStream
<1>3. \A p \in OnWay(t) : \E i \in 1..Len(s) : d < i /\ Ends(s, i) /\ p = s[i].of
  <2> SUFFICES ASSUME NEW p \in OnWay(t)
               PROVE  \E i \in 1..Len(s) : d < i /\ Ends(s, i) /\ p = s[i].of
    OBVIOUS
  <2>1. PICK i \in 1..Len(t) : Ends(t, i) /\ p = t[i].of
    BY DEF OnWay
  <2>2. d < d + i
    BY <1>1
  <2> QED BY <1>2, <2>1, <2>2
<1>4. \A i \in 1..Len(s) : d < i /\ Ends(s, i) => s[i].of \in OnWay(t)
  <2> SUFFICES ASSUME NEW i \in 1..Len(s), d < i, Ends(s, i)
               PROVE  s[i].of \in OnWay(t)
    OBVIOUS
  <2>1. i - d \in 1..Len(t) /\ d + (i - d) = i
    BY <1>1
  <2>2. Ends(t, i - d) /\ t[i - d].of = s[i].of
    BY <1>2, <2>1
  <2> QED BY <2>1, <2>2 DEF OnWay
<1>5. \A p : p \in OnWay(s) <=> \E i \in 1..Len(s) : Ends(s, i) /\ p = s[i].of
  BY DEF OnWay
<1>6. \A i \in 1..Len(s) : i \in 1..d \/ d < i
  BY <1>1
<1>7. 1..d \subseteq 1..Len(s)
  BY <1>1
<1>8. ASSUME \A i \in 1..d : ~Ends(s, i) PROVE OnWay(t) = OnWay(s)
  <2>1. \A i \in 1..Len(s) : Ends(s, i) => d < i
    BY <1>6, <1>8
  <2>2. \A p \in OnWay(t) : p \in OnWay(s)
    BY <1>3, <1>5
  <2>3. \A p \in OnWay(s) : p \in OnWay(t)
    BY <1>4, <1>5, <2>1
  <2> QED BY <2>2, <2>3
<1>9. ASSUME NEW e \in 1..d, Ends(s, e), \A i \in 1..d : Ends(s, i) => i = e
      PROVE  /\ s[e].of \in OnWay(s) /\ OnWay(t) = OnWay(s) \ {s[e].of}
             /\ \A p \in OnWay(t) : s[e].of.n < p.n
  <2>1. s[e].of \in OnWay(s)
    BY <1>5, <1>7, <1>9
  <2>2. ASSUME NEW i \in 1..Len(s), d < i, Ends(s, i) PROVE s[e].of.n < s[i].of.n
    <3>1. e \in 1..Len(s) /\ e < i /\ s[e] \in Byte /\ s[i] \in Byte
      BY <1>1, <1>7, <2>2
    <3>2. s[e].of.n <= s[i].of.n
      BY <3>1, StreamOrder
    <3>3. ASSUME s[e].of.n = s[i].of.n PROVE FALSE
      <4>1. s[e].of = s[i].of /\ s[i].at = s[e].at + (i - e)
        BY <3>1, <3>3, StreamOrder
      <4> QED BY <1>9, <2>2, <3>1, <4>1, ByteType DEF Ends
    <3>4. s[e].of.n \in Nat /\ s[i].of.n \in Nat
      BY <3>1, ByteType
    <3> QED BY <3>2, <3>3, <3>4
  <2>3. \A p \in OnWay(t) : s[e].of.n < p.n
    BY <1>3, <2>2
  <2>4. s[e].of.n \in Nat
    BY <1>1, <1>7, ByteType
  <2>5. s[e].of \notin OnWay(t)
    BY <2>3, <2>4
  <2>6. \A p \in OnWay(t) : p \in OnWay(s)
    BY <1>3, <1>5
  <2>7. \A p \in OnWay(s) : p = s[e].of \/ p \in OnWay(t)
    BY <1>4, <1>5, <1>6, <1>9
  <2> QED BY <2>1, <2>3, <2>5, <2>6, <2>7
<1> QED BY <1>8, <1>9

LEMMA StartOnWay ==
  ASSUME NEW m \in Nat, NEW s, NEW t, Stream(s, m), PartOf(t, s, 0)
  PROVE  /\ OnWay(t) \subseteq OnWay(s)
         /\ \A p \in OnWay(t), q \in OnWay(s) : q.n <= p.n => q \in OnWay(t)
<1>1. s \in Seq(Byte) /\ Len(s) \in Nat /\ Len(t) \in Nat /\ Len(t) <= Len(s)
  BY DEF Stream, PartOf
<1>2. \A i \in 1..Len(t) : i \in 1..Len(s) /\ t[i] = s[i] /\ (Ends(t, i) <=> Ends(s, i))
  <2>1. \A i \in 1..Len(t) : 0 + i = i
    BY <1>1
  <2>2. \A i \in 1..Len(t) : 0 + i \in 1..Len(s) /\ t[i] = s[0 + i] /\ (Ends(t, i) <=> Ends(s, 0 + i))
    BY PartStream
  <2> QED BY <2>1, <2>2
<1>3. ASSUME NEW p \in OnWay(t), NEW q \in OnWay(s), q.n <= p.n PROVE q \in OnWay(t)
  <2>1. PICK i \in 1..Len(t) : Ends(t, i) /\ p = t[i].of
    BY DEF OnWay
  <2>2. PICK j \in 1..Len(s) : Ends(s, j) /\ q = s[j].of
    BY DEF OnWay
  <2>3. /\ i \in 1..Len(s) /\ t[i] = s[i] /\ Ends(s, i) /\ s[i] \in Byte /\ s[j] \in Byte
        /\ s[j].of.n <= s[i].of.n
    BY <1>1, <1>2, <1>3, <2>1, <2>2
  <2>4. j <= i
    <3>1. CASE s[j].of.n = s[i].of.n
      <4>1. s[i].of = s[j].of /\ s[i].at = s[j].at + (i - j)
        BY <2>3, <3>1, StreamOrder
      <4>2. s[i].at = s[j].at
        BY <2>2, <2>3, <4>1 DEF Ends
      <4> QED BY <2>3, <4>1, <4>2, ByteType
    <3>2. CASE s[j].of.n # s[i].of.n
      <4>1. s[j].of.n < s[i].of.n
        BY <2>3, <3>2, ByteType
      <4> QED BY <2>3, <4>1, StreamOrder
    <3> QED BY <3>1, <3>2
  <2>5. j \in 1..Len(t)
    BY <2>4
  <2> QED BY <1>2, <2>2, <2>5 DEF OnWay
<1>4. \A p \in OnWay(t) : p \in OnWay(s)
  BY <1>2 DEF OnWay
<1> QED BY <1>3, <1>4

LEMMA PacketAppended ==
  ASSUME NEW m \in Nat, NEW s, Stream(s, m), Whole(s, m), NEW p \in Packet, p.n = m + 1
  PROVE  /\ Stream(s \o Bytes(p), m + 1) /\ Whole(s \o Bytes(p), m + 1)
         /\ OnWay(s \o Bytes(p)) = OnWay(s) \cup {p}
         /\ \A q \in OnWay(s) : q.n < p.n
<1>1. PICK z \in Nat : s \in Seq(Byte) /\ z = Len(s)
  BY DEF Stream
<1>2. PICK t : t = s \o Bytes(p)
  OBVIOUS
<1>3. PICK h \in Nat \ {0}, b \in Nat : p.h = h /\ p.b = b /\ Size(p) = 3 + h + b
  <2>1. Headers \subseteq Nat \ {0} /\ Bodies \subseteq Nat
    BY NetAssumption
  <2>2. p.h \in Headers /\ p.b \in Bodies
    BY DEF Packet
  <2>3. p.h \in Nat \ {0} /\ p.b \in Nat
    BY <2>1, <2>2, Zenon
  <2> QED BY <2>3 DEF Size
<1>4. Bytes(p) \in Seq(Byte) /\ Len(Bytes(p)) = Size(p)
  <2>1. \A k \in 1..Size(p) : [of |-> p, at |-> k] \in Byte
    BY <1>3 DEF Byte
  <2> QED BY <1>3, <2>1 DEF Bytes
<1>5. t \in Seq(Byte) /\ Len(t) = z + Size(p) /\ Len(t) \in Nat
  <2>1. t \in Seq(Byte) /\ Len(t) = Len(s) + Len(Bytes(p))
    BY <1>2, <1>1, <1>4, ConcatProperties
  <2> QED BY <1>1, <1>3, <1>4, <2>1
<1>6. \A i \in 1..z : i \in 1..Len(t) /\ t[i] = s[i]
  BY <1>2, <1>1, <1>3, <1>4
<1>7. \A k \in 1..Size(p) : t[z + k] = Bytes(p)[k]
  <2>1. \A k \in 1..Size(p) : z + k \in 1..Len(t) /\ z + k > z /\ (z + k) - z = k
    BY <1>1, <1>3, <1>5
  <2>2. \A i \in 1..(Len(s) + Len(Bytes(p))) :
           t[i] = IF i <= Len(s) THEN s[i] ELSE Bytes(p)[i - Len(s)]
    BY <1>2, <1>1, <1>4, ConcatProperties
  <2>3. \A i \in 1..Len(t) : i > z => t[i] = Bytes(p)[i - z]
    <3>1. Len(s) = z /\ Len(Bytes(p)) = Size(p) /\ Len(t) = z + Size(p)
      BY <1>1, <1>4, <1>5
    <3>2. \A i \in 1..Len(t) : i > z => ~(i <= z)
      BY <1>1
    <3> QED BY <2>2, <3>1, <3>2, Zenon
  <2> QED BY <2>1, <2>3
<1>8. ASSUME NEW i \in 1..Len(t), i > z
       PROVE  t[i] = [of |-> p, at |-> i - z] /\ i - z \in 1..Size(p)
  <2>1. i - z \in 1..Size(p) /\ z + (i - z) = i
    BY <1>1, <1>3, <1>5, <1>8
  <2>2. t[z + (i - z)] = Bytes(p)[i - z]
    BY <1>7, <2>1, Zenon
  <2>3. Bytes(p)[i - z] = [of |-> p, at |-> i - z]
    BY <2>1 DEF Bytes
  <2> QED BY <2>1, <2>2, <2>3
<1>9. \A i \in 1..Len(t) : i > z => t[i].of = p /\ t[i].at = i - z /\ i - z <= Size(p) /\ i - z \in Nat
  <2> SUFFICES ASSUME NEW i \in 1..Len(t), i > z
               PROVE  t[i].of = p /\ t[i].at = i - z /\ i - z <= Size(p) /\ i - z \in Nat
    OBVIOUS
  <2>1. t[i] = [of |-> p, at |-> i - z] /\ i - z \in 1..Size(p)
    BY <1>8
  <2>2. t[i].of = p /\ t[i].at = i - z
    BY <2>1
  <2>3. i - z <= Size(p) /\ i - z \in Nat
    BY <1>3, <2>1
  <2> QED BY <2>2, <2>3
<1>10. \A i \in 1..z : /\ s[i] \in Byte /\ s[i].of.n <= m /\ s[i].at <= Size(s[i].of)
                      /\ s[i].of.n \in Nat /\ s[i].at \in Nat /\ Size(s[i].of) \in Nat
  BY <1>1, ByteType DEF Stream
<1>11. \A i \in 1..z : Ends(t, i) <=> Ends(s, i)
  BY <1>6 DEF Ends
<1>12. \A i \in 1..Len(t) : i > z => (Ends(t, i) <=> i = z + 3 + h)
  <2> SUFFICES ASSUME NEW i \in 1..Len(t), i > z
               PROVE  Ends(t, i) <=> i = z + 3 + h
    OBVIOUS
  <2>1. t[i].of = p /\ t[i].at = i - z
    BY <1>9
  <2>2. Ends(t, i) <=> i - z = 3 + h
    BY <1>3, <2>1 DEF Ends
  <2>3. i - z = 3 + h <=> i = z + 3 + h
    BY <1>1, <1>3
  <2> QED BY <2>2, <2>3
<1>13. z + 3 + h \in 1..Len(t) /\ z + 3 + h > z
  BY <1>1, <1>3, <1>5
<1>14. \A i \in 1..Len(t) : i \in 1..z \/ i > z
  BY <1>1
<1>15. OnWay(t) = OnWay(s) \cup {p}
  <2>1. p \in OnWay(t)
    BY <1>9, <1>12, <1>13 DEF OnWay
  <2>2. \A i \in 1..z : Ends(s, i) => s[i].of \in OnWay(t)
    BY <1>6, <1>11 DEF OnWay
  <2>3. \A q \in OnWay(s) : q \in OnWay(t)
    BY <1>1, <2>2 DEF OnWay
  <2>4. \A i \in 1..Len(t) : Ends(t, i) => t[i].of = p \/ t[i].of \in OnWay(s)
    BY <1>1, <1>6, <1>9, <1>11, <1>14 DEF OnWay
  <2>5. \A q \in OnWay(t) : q = p \/ q \in OnWay(s)
    BY <2>4 DEF OnWay
  <2> QED BY <2>1, <2>3, <2>5
<1>16. \A q \in OnWay(s) : q.n < p.n
  <2>1. \A q \in OnWay(s) : \E i \in 1..z : q = s[i].of
    BY <1>1 DEF OnWay
  <2> QED BY <1>10, <2>1
<1>17. NumbersOf(s) \subseteq NumbersOf(t) /\ m + 1 \in NumbersOf(t)
  BY <1>15 DEF NumbersOf
<1>18. \A i \in 1..Len(t) : t[i].of.n <= m + 1 /\ t[i].at <= Size(t[i].of)
  <2>1. \A i \in 1..z : t[i].of.n <= m + 1 /\ t[i].at <= Size(t[i].of)
    BY <1>6, <1>10, SMTT(30), ZenonT(30)
  <2>2. \A i \in 1..Len(t) : i > z => t[i].of.n <= m + 1 /\ t[i].at <= Size(t[i].of)
    BY <1>9
  <2> QED BY <1>14, <2>1, <2>2
<1>19. ASSUME NEW i \in 1..Len(t), NEW k \in Nat, t[i].of.n < k, k <= m + 1
       PROVE  k \in NumbersOf(t)
  <2>1. CASE k = m + 1
    BY <1>17, <2>1
  <2>2. CASE k <= m
    <3>1. i \in 1..z
      BY <1>9, <1>14, <1>19, <2>2
    <3>2. k \in NumbersOf(s)
      BY <1>1, <1>6, <1>19, <2>2, <3>1 DEF Whole
    <3> QED BY <1>17, <3>2
  <2> QED BY <1>19, <2>1, <2>2
<1>20. ASSUME NEW i \in 1..Len(t), NEW j \in 1..Len(t), i < j
       PROVE  Following(t[i], t[j], j - i)
  <2>1. CASE j \in 1..z
    <3>1. i \in 1..z
      BY <1>1, <1>20, <2>1
    <3> QED BY <1>1, <1>6, <1>20, <2>1, <3>1 DEF Stream
  <2>2. CASE i > z
    <3>1. j > z /\ (i - z) + (j - i) = j - z
      BY <1>1, <1>20, <2>2
    <3>2. /\ t[i].of = p /\ t[i].at = i - z
          /\ t[j] = [of |-> p, at |-> j - z] /\ j - z <= Size(p)
      BY <1>1, <1>3, <1>8, <1>9, <2>2, <3>1
    <3> QED BY <3>1, <3>2 DEF Following
  <2>3. CASE i \in 1..z /\ j > z
    <3>1. t[i] = s[i] /\ t[j].of = p /\ t[j].at = j - z
      BY <1>6, <1>9, <2>3
    <3>2. z \in 1..z /\ s[z].at = Size(s[z].of)
      BY <1>1, <2>3 DEF Whole
    <3>3. s[i].at + (z - i) >= Size(s[i].of)
      <4>1. CASE i = z
        BY <1>10, <3>2, <4>1
      <4>2. CASE i < z
        <5>1. Following(s[i], s[z], z - i)
          BY <1>1, <3>2, <4>2, <2>3 DEF Stream
        <5>2. CASE s[i].at + (z - i) <= Size(s[i].of)
          <6>1. s[z].of = s[i].of /\ s[z].at = s[i].at + (z - i)
            BY <5>1, <5>2 DEF Following
          <6> QED BY <1>10, <2>3, <3>2, <6>1
        <5> QED BY <1>10, <2>3, <5>2
      <4> QED BY <2>3, <4>1, <4>2
    <3>4. j - z <= (j - i) - (Size(s[i].of) - s[i].at) /\ s[i].at + (j - i) > Size(s[i].of)
      BY <1>1, <1>10, <2>3, <3>3
    <3>5. s[i].of.n < p.n
      BY <1>10, <2>3
    <3> QED BY <1>10, <2>3, <3>1, <3>4, <3>5 DEF Following
  <2> QED BY <1>14, <2>1, <2>2, <2>3
<1>21. \A i, j \in 1..Len(t), k \in Nat : t[i].of.n < k /\ k < t[j].of.n => k \in NumbersOf(t)
  <2>1. \A j \in 1..Len(t) : t[j].of.n \in Nat
    BY <1>5, ByteType
  <2> QED BY <1>18, <1>19, <2>1
<1>22. Stream(t, m + 1)
  BY <1>5, <1>18, <1>20, <1>21 DEF Stream
<1>23. Whole(t, m + 1)
  <2>1. Len(t) \in 1..Len(t) /\ Len(t) > z /\ Len(t) - z = Size(p)
    BY <1>1, <1>3, <1>5
  <2>2. t[Len(t)].at = Size(t[Len(t)].of)
    BY <1>9, <2>1
  <2> QED BY <1>19, <2>2 DEF Whole
<1> QED BY <1>15, <1>16, <1>2, <1>22, <1>23
LEMMA PacketType ==
  ASSUME NEW p \in Packet
  PROVE  p.n \in 1..MaxPackets /\ p.n \in Nat /\ p.h \in Nat \ {0} /\ p.b \in Nat
<1>1. MaxPackets \in Nat /\ Headers \subseteq Nat \ {0} /\ Bodies \subseteq Nat
  BY NetAssumption
<1>2. p.n \in 1..MaxPackets /\ p.h \in Headers /\ p.b \in Bodies
  BY DEF Packet
<1>3. p.h \in Nat \ {0} /\ p.b \in Nat
  BY <1>1, <1>2, Zenon
<1>4. \A k \in 1..MaxPackets : k \in Nat
  BY <1>1
<1> QED BY <1>2, <1>3, <1>4, Zenon
-----------------------------------------------------------------------------
(* Packets in a row: each number once, and none missing between two.       *)
Row(S) ==
  /\ S \subseteq Packet
  /\ \A p, r \in S : p.n = r.n => p = r
  /\ \A p, r \in S, k \in Nat : p.n < k /\ k < r.n => \E x \in S : x.n = k

(* q lists the packets of S by their numbers.                              *)
Lists(q, S) ==
  /\ q \in Seq(S)
  /\ \A j, k \in 1..Len(q) : q[k].n = q[j].n + (k - j)
  /\ \A p \in S : \E k \in 1..Len(q) : q[k] = p

LEMMA InOrderLists ==
  ASSUME NEW S, Row(S)
  PROVE  Lists(InOrder(S), S)
<1> DEFINE T     == {p.n : p \in S}
           first == CHOOSE i \in T : \A p \in S : i <= p.n
           at(k) == CHOOSE p \in S : p.n = first + k - 1
<1>1. InOrder(S) = [k \in {p.n - first + 1 : p \in S} |-> at(k)]
  BY DEF InOrder
<1>2. \A p \in S : p.n \in Nat /\ p.n <= MaxPackets
  BY PacketType DEF Row
<1>3. CASE S = {}
  <2>1. {p.n - first + 1 : p \in S} = {}
    BY <1>3
  <2>2. 1..0 = {}
    OBVIOUS
  <2>3. InOrder(S) = [k \in 1..0 |-> at(k)]
    BY <1>1, <2>1, <2>2, Zenon
  <2> HIDE DEF first, at
  <2>4. PICK q : q = InOrder(S)
    OBVIOUS
  <2>5. q \in Seq(S) /\ Len(q) = 0
    BY <2>3, <2>4
  <2>6. Lists(q, S)
    BY <1>3, <2>5 DEF Lists
  <2> QED BY <2>4, <2>6
<1>4. CASE S # {}
  <2>1. T \in SUBSET Nat /\ T # {} /\ \A k \in T : k <= MaxPackets
    BY <1>2, <1>4
  <2>2. MaxPackets \in Nat
    BY NetAssumption
  <2>3. \A p \in S : p.n \in T
    OBVIOUS
  <2>4. \A i \in T : \E p \in S : i = p.n
    OBVIOUS
  <2> HIDE DEF T
  <2>5. PICK f \in T : \A k \in T : f <= k
    BY <2>1, LeastNumber
  <2>6. PICK g \in T : \A k \in T : k <= g
    BY <2>1, <2>2, GreatestNumber
  <2>7. first \in T /\ \A p \in S : first <= p.n
    BY <2>3, <2>5
  <2>8. first = f
    <3>1. first <= f
      BY <2>4, <2>7
    <3>2. f <= first
      BY <2>5, <2>7
    <3>3. f \in Nat /\ first \in Nat
      BY <2>1, <2>7
    <3> HIDE DEF first
    <3> QED BY <3>1, <3>2, <3>3
  <2>9. PICK pf \in S, pg \in S : f = pf.n /\ g = pg.n
    BY <2>4
  <2>10. f \in Nat /\ g \in Nat /\ f <= g
    BY <2>1, <2>6
  <2>11. \A p \in S : f <= p.n /\ p.n <= g
    BY <2>3, <2>5, <2>6
  <2>12. ASSUME NEW k \in 1..(g - f + 1)
         PROVE  \E p \in S : p.n = f + k - 1
    <3>1. f + k - 1 \in Nat /\ f <= f + k - 1 /\ f + k - 1 <= g
      BY <2>10
    <3>2. CASE f + k - 1 = f \/ f + k - 1 = g
      BY <2>9, <3>2
    <3>3. CASE f < f + k - 1 /\ f + k - 1 < g
      BY <2>9, <3>1, <3>3 DEF Row
    <3> QED BY <2>10, <3>1, <3>2, <3>3
  <2> DEFINE el(k) == CHOOSE p \in S : p.n = f + k - 1
  <2>13. \A k \in 1..(g - f + 1) : el(k) \in S /\ el(k).n = f + k - 1
    BY <2>12
  <2>14. {p.n - f + 1 : p \in S} = 1..(g - f + 1)
    <3>1. \A p \in S : p.n - f + 1 \in 1..(g - f + 1)
      BY <1>2, <2>10, <2>11
    <3>2. \A k \in 1..(g - f + 1) : \E p \in S : p.n - f + 1 = k
      <4> SUFFICES ASSUME NEW k \in 1..(g - f + 1)
                   PROVE  \E p \in S : p.n - f + 1 = k
        OBVIOUS
      <4>1. PICK p \in S : p.n = f + k - 1
        BY <2>12
      <4>2. (f + k - 1) - f + 1 = k
        BY <2>10
      <4> QED BY <4>1, <4>2
    <3> QED BY <3>1, <3>2
  <2>15. InOrder(S) = [k \in 1..(g - f + 1) |-> el(k)]
    BY <1>1, <2>8, <2>14, ZenonT(30)
  <2> HIDE DEF el, first, at
  <2>16. PICK q : q = InOrder(S)
    OBVIOUS
  <2>17. g - f + 1 \in Nat
    BY <2>10
  <2>18. q \in Seq(S) /\ Len(q) = g - f + 1 /\ \A k \in 1..Len(q) : q[k] = el(k)
    BY <2>13, <2>15, <2>16, <2>17
  <2>19. \A k \in 1..Len(q) : q[k] \in S /\ q[k].n = f + k - 1
    BY <2>13, <2>18
  <2>20. \A j, k \in 1..Len(q) : q[k].n = q[j].n + (k - j)
    BY <2>10, <2>17, <2>18, <2>19
  <2>21. \A p \in S : \E k \in 1..Len(q) : q[k] = p
    <3> SUFFICES ASSUME NEW p \in S PROVE \E k \in 1..Len(q) : q[k] = p
      OBVIOUS
    <3>1. p.n \in Nat /\ f <= p.n /\ p.n <= g
      BY <1>2, <2>11
    <3>2. p.n - f + 1 \in 1..Len(q) /\ f + (p.n - f + 1) - 1 = p.n
      BY <2>10, <2>18, <3>1
    <3>3. q[p.n - f + 1] \in S /\ q[p.n - f + 1].n = p.n
      BY <2>19, <3>2
    <3>4. q[p.n - f + 1] = p
      BY <3>3 DEF Row
    <3> QED BY <3>2, <3>4
  <2>22. Lists(q, S)
    BY <2>18, <2>20, <2>21 DEF Lists
  <2> QED BY <2>16, <2>22
<1> QED BY <1>3, <1>4

(* The packets with the lowest numbers are a start of the list.            *)
Lowest(T, S) == T \subseteq S /\ \A p \in T, x \in S : x.n <= p.n => x \in T

LEMMA StartOfList ==
  ASSUME NEW S, S \subseteq Packet, NEW T, NEW q, NEW r, Lists(q, S), Lists(r, T), Lowest(T, S)
  PROVE  Len(r) \in 0..Len(q) /\ r = SubSeq(q, 1, Len(r))
<1>1. /\ q \in Seq(S) /\ r \in Seq(T) /\ Len(q) \in Nat /\ Len(r) \in Nat
      /\ \A k \in 1..Len(q) : q[k] \in S /\ q[k].n \in Nat
      /\ \A k \in 1..Len(r) : r[k] \in T /\ r[k] \in S /\ r[k].n \in Nat
  BY PacketType DEF Lists, Lowest
<1>2. ASSUME NEW k \in 1..Len(r) PROVE k \in 1..Len(q) /\ r[k] = q[k]
  <2>1. 1 \in 1..Len(r) /\ r[1] \in S
    BY <1>1
  <2>2. PICK i \in 1..Len(q) : q[i] = r[1]
    BY <2>1 DEF Lists
  <2>3. 1 \in 1..Len(q) /\ q[1] \in S /\ r[1] \in T
    BY <1>1, <2>1
  <2>4. r[1].n = q[1].n + (i - 1) /\ q[1].n <= r[1].n
    <3>1. q[i].n = q[1].n + (i - 1) /\ q[1].n \in Nat
      BY <1>1, <2>3 DEF Lists
    <3>2. q[1].n <= q[1].n + (i - 1)
      BY <1>1, <3>1
    <3> QED BY <2>2, <3>1, <3>2
  <2>5. q[1] \in T
    BY <2>3, <2>4 DEF Lowest
  <2>6. PICK j \in 1..Len(r) : r[j] = q[1]
    BY <2>5 DEF Lists
  <2>7. q[1].n = r[1].n + (j - 1)
    BY <2>1, <2>6 DEF Lists
  <2>8. q[1].n = r[1].n
    BY <1>1, <2>1, <2>3, <2>4, <2>7
  <2>9. PICK e \in 1..Len(q) : q[e] = r[k]
    BY <1>1 DEF Lists
  <2>10. q[e].n = q[1].n + (e - 1) /\ r[k].n = r[1].n + (k - 1)
    BY <2>1, <2>3 DEF Lists
  <2>11. e = k
    BY <1>1, <2>1, <2>3, <2>8, <2>9, <2>10
  <2> QED BY <2>9, <2>11
<1>3. Len(r) <= Len(q)
  BY <1>1, <1>2
<1>4. /\ SubSeq(q, 1, Len(r)) \in Seq(S) /\ Len(SubSeq(q, 1, Len(r))) = Len(r)
      /\ \A k \in 1..Len(r) : SubSeq(q, 1, Len(r))[k] = q[k]
  BY <1>1, <1>3
<1>5. r \in Seq(S)
  BY <1>1
<1>6. r = SubSeq(q, 1, Len(r))
  BY <1>2, <1>4, <1>5
<1> QED BY <1>1, <1>3, <1>6

LEMMA OneList ==
  ASSUME NEW S, S \subseteq Packet, NEW q, NEW r, Lists(q, S), Lists(r, S)
  PROVE  q = r
<1>1. Lowest(S, S)
  BY DEF Lowest
<1>2. Len(r) \in 0..Len(q) /\ r = SubSeq(q, 1, Len(r))
  BY <1>1, StartOfList, Zenon
<1>3. Len(q) \in 0..Len(r) /\ q = SubSeq(r, 1, Len(q))
  BY <1>1, StartOfList, Zenon
<1>4. q \in Seq(S) /\ r \in Seq(S)
  BY DEF Lists
<1>5. Len(q) = Len(r)
  <2>1. Len(r) \in 0..Len(q) /\ Len(q) \in 0..Len(r)
    BY <1>2, <1>3, Zenon
  <2>2. Len(q) \in Nat /\ Len(r) \in Nat
    BY <1>4
  <2> QED BY <2>1, <2>2
<1>6. SubSeq(q, 1, Len(q)) = q
  BY <1>4
<1> QED BY <1>2, <1>5, <1>6

LEMMA ListAppended ==
  ASSUME NEW S \in SUBSET Packet, NEW p \in Packet, NEW q, Lists(q, S), Row(S \cup {p}),
         \A x \in S : x.n < p.n
  PROVE  Lists(Append(q, p), S \cup {p})
<1>1. /\ q \in Seq(S) /\ Len(q) \in Nat /\ p.n \in Nat
      /\ \A k \in 1..Len(q) : q[k] \in S /\ q[k].n \in Nat
  BY PacketType DEF Lists
<1>2. PICK r : r = Append(q, p)
  OBVIOUS
<1>3. /\ r \in Seq(S \cup {p}) /\ Len(r) = Len(q) + 1 /\ r[Len(q) + 1] = p
      /\ \A k \in 1..Len(q) : r[k] = q[k]
  BY <1>1, <1>2
<1>4. ASSUME NEW k \in 1..Len(q) PROVE p.n = q[k].n + (Len(q) + 1 - k)
  <2>1. Len(q) \in 1..Len(q) /\ q[Len(q)] \in S
    BY <1>1
  <2>2. PICK y \in Nat : y = q[Len(q)].n
    BY <1>1, <2>1
  <2>3. y < p.n /\ y = q[k].n + (Len(q) - k)
    BY <2>1, <2>2 DEF Lists
  <2>4. ASSUME y + 1 < p.n PROVE FALSE
    <3>1. PICK x \in S \cup {p} : x.n = y + 1
      BY <1>1, <2>1, <2>2, <2>4 DEF Row
    <3>2. x \in S
      BY <1>1, <2>2, <2>4, <3>1
    <3>3. PICK e \in 1..Len(q) : q[e] = x
      BY <3>2 DEF Lists
    <3>4. x.n = y + (e - Len(q))
      BY <2>1, <2>2, <3>3 DEF Lists
    <3> QED BY <1>1, <3>1, <3>4
  <2> QED BY <1>1, <2>2, <2>3, <2>4
<1>5. \A j, k \in 1..Len(r) : r[k].n = r[j].n + (k - j)
  <2> SUFFICES ASSUME NEW j \in 1..Len(r), NEW k \in 1..Len(r)
               PROVE  r[k].n = r[j].n + (k - j)
    OBVIOUS
  <2>1. (j \in 1..Len(q) \/ j = Len(q) + 1) /\ (k \in 1..Len(q) \/ k = Len(q) + 1)
    BY <1>1, <1>3
  <2>2. CASE j \in 1..Len(q) /\ k \in 1..Len(q)
    BY <1>3, <2>2 DEF Lists
  <2>3. CASE j \in 1..Len(q) /\ k = Len(q) + 1
    BY <1>3, <1>4, <2>3
  <2>4. CASE j = Len(q) + 1 /\ k \in 1..Len(q)
    <3>1. p.n = q[k].n + (Len(q) + 1 - k) /\ q[k].n \in Nat
      BY <1>1, <1>4, <2>4
    <3>2. r[j] = p /\ r[k] = q[k] /\ k \in Nat
      BY <1>3, <2>4
    <3>3. p.n + (k - (Len(q) + 1)) = q[k].n
      BY <1>1, <3>1, <3>2, SMTT(30), ZenonT(30)
    <3> QED BY <2>4, <3>2, <3>3
  <2>5. CASE j = Len(q) + 1 /\ k = Len(q) + 1
    BY <1>1, <1>3, <2>5
  <2> QED BY <2>1, <2>2, <2>3, <2>4, <2>5
<1>6. \A x \in S \cup {p} : \E k \in 1..Len(r) : r[k] = x
  <2>1. Len(q) + 1 \in 1..Len(r) /\ \A k \in 1..Len(q) : k \in 1..Len(r)
    BY <1>1, <1>3
  <2>2. \A x \in S : \E k \in 1..Len(q) : q[k] = x
    BY DEF Lists
  <2>3. \A x \in S : \E k \in 1..Len(r) : r[k] = x
    BY <1>3, <2>1, <2>2
  <2> QED BY <1>3, <2>1, <2>3
<1> QED BY <1>2, <1>3, <1>5, <1>6 DEF Lists

LEMMA ListTaken ==
  ASSUME NEW S \in SUBSET Packet, NEW e \in S, NEW q, Lists(q, S), \A x \in S \ {e} : e.n < x.n
  PROVE  q # <<>> /\ Head(q) = e /\ Lists(Tail(q), S \ {e})
<1>1. /\ q \in Seq(S) /\ Len(q) \in Nat /\ e.n \in Nat
      /\ \A k \in 1..Len(q) : q[k] \in S /\ q[k].n \in Nat
  <2>1. q \in Seq(S)
    BY DEF Lists
  <2>2. Len(q) \in Nat /\ \A k \in 1..Len(q) : q[k] \in S
    BY <2>1
  <2>3. \A x \in S : x.n \in Nat
    BY PacketType
  <2> QED BY <2>1, <2>2, <2>3
<1>2. PICK i \in 1..Len(q) : q[i] = e
  BY Zenon DEF Lists
<1>3. 1 \in 1..Len(q) /\ q # <<>> /\ Len(q) - 1 \in Nat
  BY <1>1, <1>2
<1>4. e.n = q[1].n + (i - 1)
  BY <1>2, <1>3 DEF Lists
<1>5. q[1] = e
  <2>1. q[1].n \in Nat /\ ~(e.n < q[1].n)
    BY <1>1, <1>3, <1>4
  <2> QED BY <1>1, <1>3, <2>1
<1>6. Head(q) = e
  BY <1>1, <1>3, <1>5
<1>7. PICK r : r = Tail(q)
  OBVIOUS
<1>8. /\ r \in Seq(S) /\ Len(r) = Len(q) - 1
      /\ \A k \in 1..Len(r) : r[k] = q[k + 1] /\ k + 1 \in 1..Len(q) /\ k \in Nat \ {0}
  BY <1>1, <1>3, <1>7
<1>9. \A k \in 1..Len(r) : r[k] \in S \ {e}
  <2> SUFFICES ASSUME NEW k \in 1..Len(r) PROVE r[k] \in S \ {e}
    OBVIOUS
  <2>1. k + 1 \in 1..Len(q) /\ r[k] = q[k + 1] /\ k \in Nat \ {0}
    BY <1>8
  <2>2. q[k + 1].n = q[1].n + ((k + 1) - 1) /\ q[k + 1] \in S /\ q[1].n \in Nat
    BY <1>1, <1>3, <2>1 DEF Lists
  <2>3. q[k + 1].n # q[1].n
    BY <2>1, <2>2
  <2> QED BY <1>5, <2>1, <2>2, <2>3
<1>10. r \in Seq(S \ {e})
  <2>1. Len(r) \in Nat
    BY <1>3, <1>8
  <2> QED BY <1>8, <1>9, <2>1
<1>11. \A j, k \in 1..Len(r) : r[k].n = r[j].n + (k - j)
  <2> SUFFICES ASSUME NEW j \in 1..Len(r), NEW k \in 1..Len(r)
               PROVE  r[k].n = r[j].n + (k - j)
    OBVIOUS
  <2>1. /\ r[k] = q[k + 1] /\ r[j] = q[j + 1] /\ k + 1 \in 1..Len(q) /\ j + 1 \in 1..Len(q)
        /\ (k + 1) - (j + 1) = k - j
    <3>1. k \in Nat /\ j \in Nat
      BY <1>8
    <3>2. (k + 1) - (j + 1) = k - j
      BY <3>1
    <3> QED BY <1>8, <3>2
  <2>2. q[k + 1].n = q[j + 1].n + ((k + 1) - (j + 1))
    BY <2>1 DEF Lists
  <2> QED BY <2>1, <2>2
<1>12. \A x \in S \ {e} : \E k \in 1..Len(r) : r[k] = x
  <2> SUFFICES ASSUME NEW x \in S \ {e} PROVE \E k \in 1..Len(r) : r[k] = x
    OBVIOUS
  <2>1. PICK k \in 1..Len(q) : q[k] = x
    BY DEF Lists
  <2>2. k # 1
    BY <1>5, <2>1
  <2>3. k - 1 \in 1..Len(r) /\ (k - 1) + 1 = k
    BY <1>1, <1>8, <2>2
  <2> QED BY <1>8, <2>1, <2>3
<1>13. Lists(r, S \ {e})
  BY <1>10, <1>11, <1>12 DEF Lists
<1> QED BY <1>3, <1>6, <1>7, <1>13
-----------------------------------------------------------------------------
(* The packets on their way follow each other, and what becomes of their   *)
(* list when bytes are taken, lost or sent.                                *)
ListOf(s) == InOrder(OnWay(s))

LEMMA RowOnWay ==
  ASSUME NEW m \in Nat, NEW s, Stream(s, m)
  PROVE  Row(OnWay(s)) /\ OnWay(s) \subseteq Packet
<1>1. \A i \in 1..Len(s) : s[i] \in Byte
  BY DEF Stream
<1>2. \A p \in OnWay(s) : \E i \in 1..Len(s) : p = s[i].of
  BY DEF OnWay
<1>3. OnWay(s) \subseteq Packet
  BY <1>1, <1>2 DEF Byte
<1>4. \A p, r \in OnWay(s) : p.n = r.n => p = r
  BY <1>2, StreamOrder
<1>5. \A p, r \in OnWay(s), k \in Nat : p.n < k /\ k < r.n => k \in NumbersOf(s)
  BY <1>2 DEF Stream
<1>6. \A k \in NumbersOf(s) : \E x \in OnWay(s) : x.n = k
  BY DEF NumbersOf
<1> QED BY <1>3, <1>4, <1>5, <1>6 DEF Row

LEMMA ListOfLists ==
  ASSUME NEW m \in Nat, NEW s, Stream(s, m)
  PROVE  Lists(ListOf(s), OnWay(s))
  BY RowOnWay, InOrderLists DEF ListOf

(* Bytes are taken from the start, the end of no packet's header or of one *)
(* among them.                                                             *)
LEMMA ListKept ==
  ASSUME NEW m \in Nat, NEW s, NEW t, NEW d, Stream(s, m), PartOf(t, s, d), d + Len(t) = Len(s),
         \A i \in 1..d : ~Ends(s, i)
  PROVE  ListOf(t) = ListOf(s)
  BY RestOnWay DEF ListOf

LEMMA ListHead ==
  ASSUME NEW m \in Nat, NEW s, NEW t, NEW d, Stream(s, m), PartOf(t, s, d), d + Len(t) = Len(s),
         NEW e \in 1..d, Ends(s, e), \A i \in 1..d : Ends(s, i) => i = e
  PROVE  /\ ListOf(s) # <<>> /\ Head(ListOf(s)) = s[e].of
         /\ ListOf(t) = Tail(ListOf(s))
<1>1. /\ s[e].of \in OnWay(s) /\ OnWay(t) = OnWay(s) \ {s[e].of}
      /\ \A p \in OnWay(t) : s[e].of.n < p.n
  BY RestOnWay
<1>2. Stream(t, m)
  BY PartStream
<1>3. Lists(ListOf(s), OnWay(s)) /\ Lists(ListOf(t), OnWay(t))
  BY <1>2, ListOfLists
<1>4. OnWay(s) \in SUBSET Packet /\ OnWay(t) \subseteq Packet
  BY <1>2, RowOnWay
<1>5. \A p \in OnWay(s) \ {s[e].of} : s[e].of.n < p.n
  BY <1>1
<1>6. /\ ListOf(s) # <<>> /\ Head(ListOf(s)) = s[e].of
      /\ Lists(Tail(ListOf(s)), OnWay(s) \ {s[e].of})
  BY <1>1, <1>3, <1>4, <1>5, ListTaken
<1>7. Lists(Tail(ListOf(s)), OnWay(t))
  BY <1>1, <1>6
<1>8. ListOf(t) = Tail(ListOf(s))
  BY <1>3, <1>4, <1>7, OneList
<1> QED BY <1>6, <1>8

(* Bytes are lost from the end.                                            *)
LEMMA ListCut ==
  ASSUME NEW m \in Nat, NEW s, NEW t, Stream(s, m), PartOf(t, s, 0)
  PROVE  \E k \in 0..Len(ListOf(s)) : ListOf(t) = SubSeq(ListOf(s), 1, k)
<1>1. Stream(t, m)
  BY PartStream
<1>2. Lists(ListOf(s), OnWay(s)) /\ Lists(ListOf(t), OnWay(t))
  BY <1>1, ListOfLists
<1>3. OnWay(s) \subseteq Packet
  BY RowOnWay
<1>4. Lowest(OnWay(t), OnWay(s))
  BY StartOnWay DEF Lowest
<1>5. Len(ListOf(t)) \in 0..Len(ListOf(s)) /\ ListOf(t) = SubSeq(ListOf(s), 1, Len(ListOf(t)))
  BY <1>2, <1>3, <1>4, StartOfList
<1> QED BY <1>5

LEMMA ListSent ==
  ASSUME NEW m \in Nat, NEW s, Stream(s, m), Whole(s, m), NEW p \in Packet, p.n = m + 1
  PROVE  ListOf(s \o Bytes(p)) = Append(ListOf(s), p)
<1>1. PICK t : t = s \o Bytes(p)
  OBVIOUS
<1>2. /\ Stream(t, m + 1) /\ OnWay(t) = OnWay(s) \cup {p}
      /\ \A q \in OnWay(s) : q.n < p.n
  BY <1>1, PacketAppended
<1>3. m + 1 \in Nat
  OBVIOUS
<1>4. Row(OnWay(s) \cup {p}) /\ OnWay(t) \subseteq Packet /\ OnWay(s) \subseteq Packet
  BY <1>2, <1>3, RowOnWay
<1>5. Lists(ListOf(s), OnWay(s)) /\ Lists(ListOf(t), OnWay(t))
  BY <1>2, <1>3, ListOfLists
<1>6. Lists(Append(ListOf(s), p), OnWay(s) \cup {p})
  BY <1>2, <1>4, <1>5, ListAppended
<1>7. Lists(Append(ListOf(s), p), OnWay(t))
  BY <1>2, <1>6
<1>8. ListOf(t) = Append(ListOf(s), p)
  BY <1>4, <1>5, <1>7, OneList
<1> QED BY <1>1, <1>8

LEMMA NothingListed ==
  ListOf(<<>>) = <<>> /\ \A m \in Nat : Stream(<<>>, m) /\ Whole(<<>>, m)
<1>1. <<>> \in Seq(Byte) /\ Len(<<>>) = 0 /\ 1..0 = {}
  OBVIOUS
<1>2. OnWay(<<>>) = {}
  BY <1>1 DEF OnWay
<1>3. \A m \in Nat : Stream(<<>>, m) /\ Whole(<<>>, m)
  BY <1>1 DEF Stream, Whole
<1>4. Stream(<<>>, 0) /\ 0 \in Nat
  BY <1>3
<1>5. Lists(ListOf(<<>>), {})
  BY <1>2, <1>4, ListOfLists
<1>6. ListOf(<<>>) \in Seq({})
  BY <1>5 DEF Lists
<1>7. ListOf(<<>>) = <<>>
  BY <1>6
<1> QED BY <1>3, <1>7
-----------------------------------------------------------------------------
LEMMA PacketBytes ==
  ASSUME NEW p \in Packet
  PROVE  Bytes(p) \in Seq(Byte) /\ 1 \in 1..Len(Bytes(p)) /\ Bytes(p)[1].at = 1
<1>1. Size(p) \in Nat /\ 1 <= Size(p)
  <2>1. PICK h \in Nat, b \in Nat : p.h = h /\ p.b = b
    BY PacketType
  <2> QED BY <2>1 DEF Size
<1>2. PICK z \in Nat : z = Size(p)
  BY <1>1
<1>3. \A k \in 1..z : [of |-> p, at |-> k] \in Byte
  BY DEF Byte
<1>4. Bytes(p) = [k \in 1..z |-> [of |-> p, at |-> k]]
  BY <1>2 DEF Bytes
<1>5. 1 \in 1..z
  BY <1>1, <1>2
<1> QED BY <1>3, <1>4, <1>5

LEMMA JoinedAgain ==
  ASSUME NEW x \in Seq(Byte), NEW y \in Seq(Byte), NEW z \in Seq(Byte)
  PROVE  (x \o y) \o z = x \o (y \o z)
  OBVIOUS

LEMMA Joined ==
  ASSUME NEW x \in Seq(Byte), NEW y \in Seq(Byte)
  PROVE  /\ x \o y \in Seq(Byte) /\ Len(x \o y) = Len(x) + Len(y)
         /\ \A i \in 1..Len(x) : i \in 1..Len(x \o y) /\ (x \o y)[i] = x[i]
         /\ PartOf(x, x \o y, 0) /\ PartOf(y, x \o y, Len(x))
<1>1. x \o y \in Seq(Byte) /\ Len(x \o y) = Len(x) + Len(y)
  OBVIOUS
<1>2. \A i \in 1..Len(x) : (x \o y)[i] = x[i]
  OBVIOUS
<1>3. ASSUME NEW j \in 1..Len(y) PROVE (x \o y)[Len(x) + j] = y[j]
  OBVIOUS
<1>4. Len(x) \in Nat /\ Len(y) \in Nat
  OBVIOUS
<1>5. \A i \in 1..Len(x) : i \in 1..Len(x \o y) /\ 0 + i = i
  BY <1>1, <1>4
<1>6. PartOf(x, x \o y, 0)
  BY <1>1, <1>2, <1>4, <1>5 DEF PartOf
<1>7. PartOf(y, x \o y, Len(x))
  BY <1>1, <1>3, <1>4 DEF PartOf
<1> QED BY <1>1, <1>2, <1>5, <1>6, <1>7

LEMMA PartsJoined ==
  ASSUME NEW r \in Seq(Byte), NEW k \in 0..Len(r)
  PROVE  /\ SubSeq(r, 1, k) \in Seq(Byte) /\ SubSeq(r, k + 1, Len(r)) \in Seq(Byte)
         /\ Len(SubSeq(r, 1, k)) = k
         /\ SubSeq(r, 1, k) \o SubSeq(r, k + 1, Len(r)) = r
<1>1. Len(r) \in Nat
  OBVIOUS
<1>2. k \in 1-1..Len(r) /\ 1 \in 1..Len(r)+1 /\ Len(r) \in k..Len(r)
  BY <1>1
<1>3. SubSeq(r, 1, k) \o SubSeq(r, k + 1, Len(r)) = SubSeq(r, 1, Len(r))
  BY <1>2, ConcatAdjacentSubSeq
<1>4. SubSeq(r, 1, Len(r)) = r
  BY SubSeqFull
<1>5. /\ SubSeq(r, 1, k) \in Seq(Byte) /\ SubSeq(r, k + 1, Len(r)) \in Seq(Byte)
      /\ Len(SubSeq(r, 1, k)) = k
  OBVIOUS
<1> QED BY <1>3, <1>4, <1>5

(* What has been read, what has arrived and what is still to arrive: k of  *)
(* the bytes that have arrived are read.                                   *)
ReadOff(g, r, c, k, all, rest) ==
  /\ all = g \o SubSeq(r, 1, k) /\ rest = SubSeq(r, k + 1, Len(r))
  /\ all \in Seq(Byte) /\ rest \in Seq(Byte) /\ Len(all) = Len(g) + k
  /\ (all \o rest) \o c = (g \o r) \o c
  /\ \A i \in 1..Len(all) : i \in 1..Len((g \o r) \o c) /\ all[i] = ((g \o r) \o c)[i]
  /\ PartOf((<<>> \o rest) \o c, (g \o r) \o c, Len(all))
  /\ Len(all) + Len((<<>> \o rest) \o c) = Len((g \o r) \o c)

LEMMA ReadAhead ==
  ASSUME NEW g \in Seq(Byte), NEW r \in Seq(Byte), NEW c \in Seq(Byte), NEW k \in 0..Len(r)
  PROVE  \E all, rest : ReadOff(g, r, c, k, all, rest)
<1>1. PICK s : s = (g \o r) \o c
  OBVIOUS
<1>2. PICK x, rest : /\ x = SubSeq(r, 1, k) /\ rest = SubSeq(r, k + 1, Len(r))
                     /\ x \in Seq(Byte) /\ rest \in Seq(Byte) /\ Len(x) = k /\ x \o rest = r
  <2>1. PICK x : x = SubSeq(r, 1, k)
    OBVIOUS
  <2>2. PICK rest : rest = SubSeq(r, k + 1, Len(r))
    OBVIOUS
  <2>3. x \in Seq(Byte) /\ rest \in Seq(Byte) /\ Len(x) = k /\ x \o rest = r
    BY <2>1, <2>2, PartsJoined
  <2> QED BY <2>1, <2>2, <2>3, Zenon
<1>3. PICK all : all = g \o x
  OBVIOUS
<1>4. all \in Seq(Byte) /\ Len(all) = Len(g) + k
  <2>1. g \o x \in Seq(Byte) /\ Len(g \o x) = Len(g) + Len(x)
    BY <1>2, Joined
  <2> QED BY <1>2, <1>3, <2>1
<1>5. (all \o rest) \o c = s
  <2>1. (g \o x) \o rest = g \o (x \o rest)
    BY <1>2, JoinedAgain, ZenonT(30)
  <2> QED BY <1>1, <1>2, <1>3, <2>1
<1>6. rest \o c \in Seq(Byte) /\ all \o (rest \o c) = s
  <2>1. rest \o c \in Seq(Byte)
    BY <1>2, Joined
  <2>2. (all \o rest) \o c = all \o (rest \o c)
    BY <1>2, <1>4, JoinedAgain
  <2> QED BY <1>5, <2>1, <2>2
<1>7. (<<>> \o rest) \o c = rest \o c
  BY <1>2, ConcatEmptySeq
<1>8. /\ Len(s) = Len(all) + Len(rest \o c)
      /\ \A i \in 1..Len(all) : i \in 1..Len(s) /\ s[i] = all[i]
      /\ PartOf(rest \o c, s, Len(all))
  <2>1. PICK y : y = rest \o c
    OBVIOUS
  <2>2. y \in Seq(Byte) /\ all \in Seq(Byte) /\ s = all \o y
    BY <1>4, <1>6, <2>1
  <2>3. /\ all \o y \in Seq(Byte) /\ Len(all \o y) = Len(all) + Len(y)
        /\ \A i \in 1..Len(all) : i \in 1..Len(all \o y) /\ (all \o y)[i] = all[i]
        /\ PartOf(y, all \o y, Len(all))
    BY <2>2, Joined
  <2> QED BY <2>1, <2>2, <2>3
<1>9. all = g \o SubSeq(r, 1, k) /\ rest = SubSeq(r, k + 1, Len(r))
  BY <1>2, <1>3
<1>10. rest \in Seq(Byte)
  BY <1>2
<1> QED BY <1>1, <1>4, <1>5, <1>7, <1>8, <1>9, <1>10, Zenon DEF ReadOff

(* What has been read is given up, or what has not been read is lost.      *)
LEMMA GivenUp ==
  ASSUME NEW g \in Seq(Byte), NEW r \in Seq(Byte), NEW c \in Seq(Byte)
  PROVE  /\ (g \o r) \o c \in Seq(Byte)
         /\ PartOf((<<>> \o r) \o c, (g \o r) \o c, Len(g))
         /\ Len(g) + Len((<<>> \o r) \o c) = Len((g \o r) \o c)
         /\ PartOf((g \o r) \o <<>>, (g \o r) \o c, 0)
         /\ PartOf((g \o <<>>) \o <<>>, (g \o r) \o c, 0)
<1>1. PICK s : s = (g \o r) \o c
  OBVIOUS
<1>2. s = g \o (r \o c) /\ r \o c \in Seq(Byte) /\ g \o r \in Seq(Byte)
  BY <1>1, JoinedAgain, Joined
<1>3. (<<>> \o r) \o c = r \o c /\ (g \o r) \o <<>> = g \o r /\ (g \o <<>>) \o <<>> = g
  BY <1>2, ConcatEmptySeq
<1>4. /\ PartOf(r \o c, s, Len(g)) /\ Len(g) + Len(r \o c) = Len(s) /\ s \in Seq(Byte)
      /\ PartOf(g, s, 0)
  BY <1>2, Joined
<1>5. PartOf(g \o r, s, 0)
  BY <1>1, <1>2, Joined
<1> QED BY <1>1, <1>3, <1>4, <1>5
-----------------------------------------------------------------------------
(* What the next bytes are, from the place in the packet of the first one. *)
LEMMA FirstByte ==
  ASSUME NEW m \in Nat, NEW s, Stream(s, m), s # <<>>
  PROVE  /\ Len(s) \in Nat /\ 1 \in 1..Len(s) /\ s[1] \in Byte
         /\ s[1].of \in Packet /\ s[1].at \in Nat \ {0}
         /\ s[1].of.h \in Nat \ {0} /\ s[1].of.b \in Nat
         /\ Size(s[1].of) = 3 + s[1].of.h + s[1].of.b /\ s[1].at <= Size(s[1].of)
         /\ Size(s[1].of) \in Nat
<1>1. s \in Seq(Byte) /\ Len(s) \in Nat /\ 1 \in 1..Len(s)
  BY DEF Stream
<1>2. s[1] \in Byte /\ s[1].at <= Size(s[1].of)
  BY <1>1 DEF Stream
<1> QED BY <1>1, <1>2, ByteType

LEMMA SamePacket ==
  ASSUME NEW m \in Nat, NEW s, Stream(s, m), NEW i \in 1..Len(s), s[1].at + (i - 1) <= Size(s[1].of)
  PROVE  s[i].of = s[1].of /\ s[i].at = s[1].at + (i - 1)
<1>1. s # <<>> /\ 1 \in 1..Len(s) /\ s[1].at \in Nat
  <2>1. s # <<>>
    OBVIOUS
  <2> QED BY <2>1, FirstByte
<1>2. CASE i = 1
  BY <1>1, <1>2
<1>3. CASE i # 1
  <2>1. 1 < i
    BY <1>3
  <2>2. Following(s[1], s[i], i - 1)
    BY <1>1, <2>1 DEF Stream
  <2>3. s[i] = [of |-> s[1].of, at |-> s[1].at + (i - 1)]
    BY <2>2 DEF Following
  <2> QED BY <2>3
<1> QED BY <1>2, <1>3

LEMMA NextPacket ==
  ASSUME NEW m \in Nat, NEW s, Stream(s, m), NEW i \in 1..Len(s), i # 1,
         s[1].at + (i - 1) = Size(s[1].of) + 1
  PROVE  s[i].at = 1
<1>1. s # <<>>
  OBVIOUS
<1>2. /\ Len(s) \in Nat /\ 1 \in 1..Len(s)
      /\ s[1].at \in Nat /\ Size(s[1].of) \in Nat
  BY <1>1, FirstByte
<1>3. 1 < i
  BY <1>2
<1>4. Following(s[1], s[i], i - 1)
  BY <1>2, <1>3 DEF Stream
<1>5. PICK a \in Nat, z \in Nat : s[1].at = a /\ Size(s[1].of) = z
  BY <1>2
<1>6. s[i].at <= (i - 1) - (z - a)
  <2>1. ~(a + (i - 1) <= z)
    BY <1>2, <1>5
  <2> QED BY <1>4, <1>5, <2>1 DEF Following
<1>7. s[i].at \in Nat \ {0}
  BY ByteType DEF Stream
<1>8. (i - 1) - (z - a) = 1
  BY <1>2, <1>5
<1> QED BY <1>6, <1>7, <1>8

LEMMA WholePacket ==
  ASSUME NEW m \in Nat, NEW s, Stream(s, m), Whole(s, m), s # <<>>
  PROVE  s[1].at + Len(s) > Size(s[1].of)
<1>1. Len(s) \in 1..Len(s) /\ s[1].at \in Nat /\ Size(s[1].of) \in Nat /\ Len(s) \in Nat
  BY FirstByte
<1>2. s[Len(s)].at = Size(s[Len(s)].of)
  BY DEF Whole
<1> SUFFICES ASSUME s[1].at + (Len(s) - 1) < Size(s[1].of) PROVE FALSE
  BY <1>1
<1>3. s[Len(s)].of = s[1].of /\ s[Len(s)].at = s[1].at + (Len(s) - 1)
  BY <1>1, SamePacket
<1> QED BY <1>1, <1>2, <1>3

(* The bytes before a header.                                              *)
LEMMA SyncBytes ==
  ASSUME NEW m \in Nat, NEW s, Stream(s, m), 3 <= Len(s), s[1].at = 1
  PROVE  /\ Reads(s[1]) = D /\ Reads(s[2]) = L /\ Reads(s[3]) = s[1].of.h
         /\ \A i \in 1..3 : ~Ends(s, i)
         /\ 4 <= Len(s) => s[4].of = s[1].of /\ s[4].at = 4
         /\ Whole(s, m) => 4 <= Len(s)
<1>1. s # <<>> /\ Len(s) \in Nat
  BY DEF Stream
<1>2. s[1].of.h \in Nat \ {0} /\ s[1].of.b \in Nat /\ Size(s[1].of) = 3 + s[1].of.h + s[1].of.b
  BY <1>1, FirstByte
<1>3. PICK h \in Nat \ {0}, b \in Nat : s[1].of.h = h /\ Size(s[1].of) = 3 + h + b
  BY <1>2
<1>4. ASSUME NEW i \in 1..4, i <= Len(s)
      PROVE  s[i].of = s[1].of /\ s[i].at = i
  <2>1. i \in 1..Len(s) /\ 1 + (i - 1) <= Size(s[1].of) /\ 1 + (i - 1) = i
    BY <1>1, <1>3, <1>4
  <2> QED BY <2>1, SamePacket
<1>5. /\ s[2].of = s[1].of /\ s[2].at = 2 /\ s[3].of = s[1].of /\ s[3].at = 3
      /\ 4 <= Len(s) => s[4].of = s[1].of /\ s[4].at = 4
  BY <1>1, <1>4
<1>6. Reads(s[1]) = D /\ Reads(s[2]) = L /\ Reads(s[3]) = s[1].of.h
  BY <1>5 DEF Reads
<1>7. \A i \in 1..3 : ~Ends(s, i)
  <2> SUFFICES ASSUME NEW i \in 1..3, Ends(s, i) PROVE FALSE
    OBVIOUS
  <2>1. i \in 1..4 /\ i <= Len(s)
    BY <1>1
  <2>2. s[i].of = s[1].of /\ s[i].at = i
    BY <1>4, <2>1
  <2>3. i = 3 + h
    BY <1>3, <2>2 DEF Ends
  <2> QED BY <1>3, <2>3
<1>8. Whole(s, m) => 4 <= Len(s)
  <2>1. Whole(s, m) => 1 + Len(s) > 3 + h + b
    BY <1>1, <1>3, WholePacket
  <2> QED BY <1>1, <1>3, <2>1
<1> QED BY <1>5, <1>6, <1>7, <1>8

LEMMA ReadsD ==
  ASSUME NEW x \in Byte, Reads(x) = D
  PROVE  x.at = 1
<1>1. x.of.h \in Nat \ {0}
  BY ByteType
<1>2. x.of.h # D /\ L # D /\ Other # D
  BY <1>1 DEF D, L, Other
<1> QED BY <1>2, Zenon DEF Reads

(* A header.                                                               *)
LEMMA HeaderBytes ==
  ASSUME NEW m \in Nat, NEW s, Stream(s, m), s # <<>>, s[1].at = 4, NEW h \in Nat, s[1].of.h = h,
         h <= Len(s), NEW b, s[1].of.b = b
  PROVE  /\ h \in 1..h /\ Ends(s, h) /\ s[h].of = s[1].of
         /\ \A i \in 1..h : Ends(s, i) => i = h
         /\ h + 1 <= Len(s) => IF b = 0 THEN s[h + 1].at = 1
                               ELSE s[h + 1].at = 4 + h /\ s[h + 1].of = s[1].of
         /\ Whole(s, m) /\ b > 0 => h + 1 <= Len(s)
<1>1. /\ Len(s) \in Nat /\ h \in Nat \ {0} /\ b \in Nat /\ Size(s[1].of) = 3 + h + b
  BY FirstByte
<1>2. ASSUME NEW i \in 1..h PROVE s[i].of = s[1].of /\ s[i].at = 3 + i
  <2>1. i \in 1..Len(s) /\ 4 + (i - 1) <= Size(s[1].of) /\ 4 + (i - 1) = 3 + i
    BY <1>1
  <2> QED BY <2>1, SamePacket
<1>3. \A i \in 1..h : Ends(s, i) <=> i = h
  <2> SUFFICES ASSUME NEW i \in 1..h PROVE Ends(s, i) <=> i = h
    OBVIOUS
  <2>1. s[i].of.h = h /\ s[i].at = 3 + i
    BY <1>2
  <2> QED BY <2>1 DEF Ends
<1>4. h \in 1..h
  BY <1>1
<1>5. ASSUME h + 1 <= Len(s)
      PROVE  IF b = 0 THEN s[h + 1].at = 1 ELSE s[h + 1].at = 4 + h /\ s[h + 1].of = s[1].of
  <2>1. h + 1 \in 1..Len(s) /\ h + 1 # 1 /\ 4 + ((h + 1) - 1) = 4 + h
    BY <1>1, <1>5
  <2>2. CASE b = 0
    <3>1. 4 + ((h + 1) - 1) = Size(s[1].of) + 1
      BY <1>1, <2>2
    <3> QED BY <2>1, <2>2, <3>1, NextPacket
  <2>3. CASE b # 0
    <3>1. 4 + ((h + 1) - 1) <= Size(s[1].of)
      <4>1. 4 + ((h + 1) - 1) <= 3 + h + b
        BY <1>1, <2>3
      <4> QED BY <1>1, <4>1
    <3>2. s[h + 1].of = s[1].of /\ s[h + 1].at = 4 + ((h + 1) - 1)
      BY <2>1, <3>1, SamePacket
    <3> QED BY <2>1, <2>3, <3>2
  <2> QED BY <2>2, <2>3
<1>6. Whole(s, m) /\ b > 0 => h + 1 <= Len(s)
  <2>1. Whole(s, m) => 4 + Len(s) > 3 + h + b
    BY <1>1, WholePacket
  <2> QED BY <1>1, <2>1
<1> QED BY <1>2, <1>3, <1>4, <1>5, <1>6

(* A body.                                                                 *)
LEMMA BodyBytes ==
  ASSUME NEW m \in Nat, NEW s, Stream(s, m), s # <<>>, s[1].at = 4 + s[1].of.h,
         NEW b \in Nat \ {0}, s[1].of.b = b, b <= Len(s)
  PROVE  /\ \A i \in 1..b : ~Ends(s, i)
         /\ b + 1 <= Len(s) => s[b + 1].at = 1
<1>1. PICK h \in Nat \ {0} : s[1].of.h = h /\ Size(s[1].of) = 3 + h + b /\ Len(s) \in Nat
  BY FirstByte
<1>2. Len(s) \in Nat
  BY <1>1
<1>3. \A i \in 1..b : ~Ends(s, i)
  <2> SUFFICES ASSUME NEW i \in 1..b, Ends(s, i) PROVE FALSE
    OBVIOUS
  <2>1. i \in 1..Len(s) /\ 4 + h + (i - 1) <= Size(s[1].of)
    <3>1. i \in 1..Len(s) /\ 4 + h + (i - 1) <= 3 + h + b
      BY <1>2
    <3> QED BY <1>1, <3>1
  <2>2. s[i].of = s[1].of /\ s[i].at = 4 + h + (i - 1)
    BY <1>1, <2>1, SamePacket
  <2>3. 4 + h + (i - 1) = 3 + h
    BY <1>1, <2>2 DEF Ends
  <2> QED BY <1>1, <2>3
<1>4. ASSUME b + 1 <= Len(s) PROVE s[b + 1].at = 1
  <2>1. /\ b + 1 \in 1..Len(s) /\ b + 1 # 1
        /\ 4 + h + ((b + 1) - 1) = Size(s[1].of) + 1
    <3>1. b + 1 \in 1..Len(s) /\ b + 1 # 1
      BY <1>2, <1>4
    <3>2. 4 + h + ((b + 1) - 1) = (3 + h + b) + 1
      OBVIOUS
    <3> QED BY <1>1, <3>1, <3>2
  <2> QED BY <1>1, <2>1, NextPacket
<1> QED BY <1>3, <1>4
-----------------------------------------------------------------------------
(* The steps of PacketIO, by what they are for NetIO.                      *)
Up == peer = "up" /\ Open(link)

PacketStep == [PIO!Next]_(PIO!vars)

LEMMA StepStays ==
  ASSUME UNCHANGED <<taken, inSync>>, Queue' = Queue, Up' <=> Up, iotimeout' # 0 <=> iotimeout # 0
  PROVE  PacketStep
<1>1. (peer = "up" /\ Open(link))' = (peer = "up" /\ Open(link)) /\ (iotimeout # 0)' = (iotimeout # 0)
  BY DEF Up
<1> QED BY <1>1 DEF PacketStep, PIO!vars

LEMMA StepConnected ==
  ASSUME inSync' = TRUE, Up', Queue' = <<>>, UNCHANGED taken, iotimeout' # 0 <=> iotimeout # 0
  PROVE  PacketStep
<1>1. (peer = "up" /\ Open(link))' = TRUE /\ UNCHANGED (iotimeout # 0)
  BY DEF Up
<1>2. PIO!Connected
  BY <1>1 DEF PIO!Connected
<1> QED BY <1>2 DEF PacketStep, PIO!Next

LEMMA StepArrives ==
  ASSUME inSync, Up, Up', NEW p \in Packet, Queue' = Append(Queue, p),
         UNCHANGED <<taken, inSync, iotimeout>>
  PROVE  PacketStep
<1>1. (peer = "up" /\ Open(link))' = (peer = "up" /\ Open(link)) /\ UNCHANGED (iotimeout # 0)
  BY DEF Up
<1>2. PIO!Arrives
  BY <1>1 DEF PIO!Arrives, Up
<1> QED BY <1>2 DEF PacketStep, PIO!Next

LEMMA StepTake ==
  ASSUME inSync, Queue # <<>>, taken' = <<Head(Queue)>>, Queue' = Tail(Queue),
         Up' <=> Up, UNCHANGED <<inSync, iotimeout>>
  PROVE  PacketStep
<1>1. (peer = "up" /\ Open(link))' = (peer = "up" /\ Open(link)) /\ UNCHANGED (iotimeout # 0)
  BY DEF Up
<1>2. PIO!Take
  BY <1>1 DEF PIO!Take
<1> QED BY <1>2 DEF PacketStep, PIO!Next

LEMMA StepGone ==
  ASSUME Up, ~Up', NEW k \in 0..Len(Queue), Queue' = SubSeq(Queue, 1, k),
         UNCHANGED <<taken, inSync, iotimeout>>
  PROVE  PacketStep
<1>1. (peer = "up" /\ Open(link))' = FALSE /\ UNCHANGED (iotimeout # 0)
  BY DEF Up
<1>2. PIO!Gone
  BY <1>1 DEF PIO!Gone, Up
<1> QED BY <1>2 DEF PacketStep, PIO!Next

LEMMA StepClosed ==
  ASSUME ~Up', inSync' = FALSE, UNCHANGED taken, iotimeout' # 0 <=> iotimeout # 0
  PROVE  PacketStep
<1>1. (peer = "up" /\ Open(link))' = FALSE /\ UNCHANGED (iotimeout # 0)
  BY DEF Up
<1>2. Queue' = <<>>
  BY DEF Queue
<1>3. PIO!Closed
  BY <1>1, <1>2 DEF PIO!Closed
<1> QED BY <1>3 DEF PacketStep, PIO!Next

LEMMA StepFails ==
  ASSUME Up => iotimeout # 0, inSync' = FALSE, Up' <=> Up, UNCHANGED <<taken, iotimeout>>
  PROVE  PacketStep
<1>1. (peer = "up" /\ Open(link))' = (peer = "up" /\ Open(link)) /\ UNCHANGED (iotimeout # 0)
  BY DEF Up
<1>2. Queue' = <<>>
  BY DEF Queue
<1>3. PIO!Fails
  BY <1>1, <1>2 DEF PIO!Fails, Up
<1> QED BY <1>3 DEF PacketStep, PIO!Next
-----------------------------------------------------------------------------
(* The bytes of a connection: they are those of the packets the server has *)
(* sent, without a gap from the one to be read next; while the connection  *)
(* is up the last packet is whole.                                         *)
FlowType ==
  /\ stage \in {"sync", "header", "data"} /\ want \in Nat /\ got \in Seq(Byte)
  /\ resp \in {"none", "reply", "message"} /\ ret \in {"none", "got", "data", "sent", "failed"}
  /\ addr \in 0..MaxAddr /\ rx \in Seq(Byte) /\ coming \in Seq(Byte)
  /\ peer \in {"up", "fin", "reset"} /\ made \in Nat
  /\ hasHandler \in BOOLEAN /\ inSync \in BOOLEAN /\ sendFailed \in BOOLEAN
  /\ owed \in Nat /\ taken \in {<<>>} \cup {<<p>> : p \in Packet}

Flow == Stream(Ahead, made) /\ (peer = "up" => Whole(Ahead, made))

(* What a receive has read, and still has to.                              *)
Waiting ==
  /\ pc # "recv" /\ fn # "dead" => stage = "sync" /\ got = <<>> /\ want = 0
  /\ pc = "recv" /\ stage = "sync" => Len(got) + want = 3
  /\ pc = "recv" /\ stage # "sync" => blockflag /\ sock[link].blocking

(* In sync, the next byte is the one that dl_recvdata() takes it for.      *)
Begins(s, st, ow, all) ==
  s # <<>> => IF st = "header" THEN s[1].at = 4 /\ s[1].of.h = all
              ELSE IF ow = 0 THEN s[1].at = 1
              ELSE s[1].at = 4 + s[1].of.h /\ s[1].of.b = ow

Place ==
  /\ pc # "socket" /\ (pc = "send" => owed = 0)
  /\ Begins(Ahead, stage, owed, Len(got) + want)
  /\ pc = "recv" => (stage = "data" <=> owed > 0) /\ (stage = "data" => Len(got) + want = owed)
  /\ peer = "up" /\ (stage = "header" \/ owed > 0) => Ahead # <<>>

(* A call can fail for a timeout only if one is set.                       *)
Timed == Open(link) /\ (sock[link].state = "connecting" \/ sock[link].timeo) => iotimeout # 0
Excused == resp = "message" => peer # "up" \/ iotimeout # 0

FlowInv ==
  SocketsInv /\ FlowType /\ Flow /\ Waiting /\ Timed /\ (inSync => Place /\ Excused)

(* What a step has to keep.                                                *)
FlowKept == FlowType' /\ Flow' /\ Waiting' /\ Timed' /\ (inSync => Place /\ Excused)'
-----------------------------------------------------------------------------
LEMMA FlowNow ==
  ASSUME FlowInv
  PROVE  /\ Ahead = (got \o rx) \o coming /\ Ahead \in Seq(Byte)
         /\ got \in Seq(Byte) /\ rx \in Seq(Byte) /\ coming \in Seq(Byte)
         /\ made \in Nat /\ Stream(Ahead, made) /\ want \in Nat /\ owed \in Nat
         /\ inSync \in BOOLEAN /\ Len(got) \in Nat
  BY DEF FlowInv, FlowType, Flow, Stream, Ahead

(* The sockets stay what they are, but for their mode.                     *)
SameSocket ==
  UNCHANGED <<link, iotimeout>> /\ (Open(link)' <=> Open(link))
  /\ (Open(link) => sock'[link].state = sock[link].state /\ sock'[link].timeo = sock[link].timeo)

LEMMA TimedKept ==
  ASSUME FlowInv, SameSocket
  PROVE  Timed'
  BY DEF FlowInv, SameSocket, Timed

(* A step that reads nothing, and by which no byte comes or goes.          *)
LEMMA AheadFlows ==
  ASSUME FlowInv, Timed', Open(link)' <=> Open(link),
         UNCHANGED <<iotimeout, stage, want, got, peer, made, owed, taken, inSync, hasHandler>>,
         Ahead' = Ahead, rx' \in Seq(Byte), coming' \in Seq(Byte),
         resp' \in {"none", "reply", "message"}, addr' \in 0..MaxAddr,
         ret' \in {"none", "got", "data", "sent", "failed"}, sendFailed' \in BOOLEAN,
         Waiting', inSync => pc' # "socket" /\ (pc' = "send" => owed = 0)
           /\ (pc' = "recv" => (stage = "data" <=> owed > 0) /\ (stage = "data" => Len(got) + want = owed)),
         inSync => Excused'
  PROVE  FlowKept /\ PacketStep
<1>1. FlowType'
  BY DEF FlowInv, FlowType
<1>2. Flow'
  BY DEF FlowInv, Flow
<1>3. (inSync => Place /\ Excused)'
  BY DEF FlowInv, Place
<1>4. Queue' = Queue
  BY DEF Queue
<1>5. (Up' <=> Up) /\ (iotimeout' # 0 <=> iotimeout # 0)
  BY DEF Up
<1>6. PacketStep
  BY <1>4, <1>5, StepStays
<1> QED BY <1>1, <1>2, <1>3, <1>6 DEF FlowKept

LEMMA ElsewhereFlows ==
  ASSUME FlowInv, SameSocket,
         UNCHANGED <<stage, want, got, rx, coming, peer, made, owed, taken, inSync, hasHandler>>,
         resp' \in {"none", "reply", "message"}, addr' \in 0..MaxAddr,
         ret' \in {"none", "got", "data", "sent", "failed"}, sendFailed' \in BOOLEAN,
         Waiting', inSync => pc' # "socket" /\ (pc' = "send" => owed = 0)
           /\ (pc' = "recv" => (stage = "data" <=> owed > 0) /\ (stage = "data" => Len(got) + want = owed)),
         inSync => Excused'
  PROVE  FlowKept /\ PacketStep
<1>1. Ahead' = Ahead
  BY DEF Ahead
<1>2. rx' \in Seq(Byte) /\ coming' \in Seq(Byte)
  BY DEF FlowInv, FlowType
<1>3. (Open(link)' <=> Open(link)) /\ UNCHANGED iotimeout
  BY DEF SameSocket
<1>4. Timed'
  BY TimedKept
<1> QED BY <1>1, <1>2, <1>3, <1>4, AheadFlows

(* A call returns, and the bytes after it are t.                           *)
LEMMA ReturnFlows ==
  ASSUME FlowInv, Open(link), NEW r \in {"none", "got", "data", "sent", "failed"},
         NEW mode \in BOOLEAN, Return(r, mode),
         UNCHANGED <<link, iotimeout, hasHandler, addr, coming, peer, made>>, rx' \in Seq(Byte),
         sendFailed' \in BOOLEAN, owed' \in Nat, taken' \in {<<>>} \cup {<<p>> : p \in Packet},
         Stream(Ahead', made), peer = "up" => Whole(Ahead', made),
         inSync /\ r # "failed" => /\ Begins(Ahead', "sync", owed', 0)
                                   /\ peer = "up" /\ owed' > 0 => Ahead' # <<>>
  PROVE  /\ FlowKept
         /\ inSync' = (inSync /\ r # "failed")
         /\ Open(link)' <=> ~(fn = "connect" /\ r = "failed")
<1>1. /\ fn' = "idle" /\ pc' = "idle" /\ ret' = r /\ stage' = "sync" /\ want' = 0 /\ got' = <<>>
      /\ blockflag' = FALSE /\ resp' = "none" /\ inSync' = (inSync /\ r # "failed")
  BY DEF Return
<1>2. inSync \in BOOLEAN /\ inSync' \in BOOLEAN
  BY <1>1 DEF FlowInv, FlowType
<1>3. FlowType'
  <2>1. <<>> \in Seq(Byte) /\ 0 \in Nat
    OBVIOUS
  <2>2. want' \in Nat /\ got' \in Seq(Byte)
    BY <1>1, <2>1
  <2> QED BY <1>1, <1>2, <2>2 DEF FlowInv, FlowType
<1>4. Flow'
  BY DEF Flow
<1>5. Waiting'
  BY <1>1 DEF Waiting
<1>6. /\ Timed' /\ (Open(link)' <=> ~(fn = "connect" /\ r = "failed"))
  <2>1. link \in 1..MaxSockets /\ sock[link] \in Socket /\ sock \in [1..MaxSockets -> Socket] /\ link # 0
    BY LinkOpen DEF FlowInv, SocketsInv, SocketType, Open
  <2>2. CASE fn = "connect" /\ r = "failed"
    <3>1. sock' = [sock EXCEPT ![link] = Closed]
      BY <2>2 DEF Return
    <3>2. sock'[link].state = "closed"
      BY <2>1, <3>1 DEF Closed
    <3> QED BY <2>2, <3>2 DEF Open, Timed
  <2>3. CASE ~(fn = "connect" /\ r = "failed")
    <3>1. sock' = [sock EXCEPT ![link].blocking = mode]
      BY <2>3 DEF Return
    <3>2. sock'[link].state = sock[link].state /\ sock'[link].timeo = sock[link].timeo
      BY <2>1, <3>1
    <3> QED BY <2>3, <3>2 DEF Open, Timed, FlowInv
  <2> QED BY <2>2, <2>3
<1>7. ASSUME inSync' PROVE Place' /\ Excused'
  <2>1. inSync /\ r # "failed"
    BY <1>1, <1>7
  <2>2. Begins(Ahead', "sync", owed', 0) /\ (peer = "up" /\ owed' > 0 => Ahead' # <<>>)
    BY <2>1
  <2>3. Begins(Ahead', stage', owed', Len(got') + want')
    BY <1>1, <2>2 DEF Begins
  <2> QED BY <1>1, <2>2, <2>3 DEF Place, Excused
<1> QED BY <1>1, <1>3, <1>4, <1>5, <1>6, <1>7 DEF FlowKept

(* A call fails, with bytes read that are given up.                        *)
LEMMA FailureFlows ==
  ASSUME FlowInv, Open(link), NEW mode \in BOOLEAN, Return("failed", mode),
         UNCHANGED <<link, iotimeout, hasHandler, addr, coming, peer, made, taken>>, rx' \in Seq(Byte),
         sendFailed' \in BOOLEAN, owed' \in Nat,
         Stream(Ahead', made), peer = "up" => Whole(Ahead', made),
         inSync /\ fn # "connect" /\ peer = "up" => iotimeout # 0
  PROVE  FlowKept /\ PacketStep
<1>1. taken' \in {<<>>} \cup {<<p>> : p \in Packet}
  BY DEF FlowInv, FlowType
<1>2. /\ FlowKept /\ inSync' = FALSE /\ (Open(link)' <=> fn # "connect")
  <2>1. /\ FlowKept
        /\ inSync' = (inSync /\ "failed" # "failed")
        /\ Open(link)' <=> ~(fn = "connect" /\ "failed" = "failed")
    BY <1>1, ReturnFlows
  <2> QED BY <2>1
<1>3. CASE fn = "connect"
  <2>1. ~Up'
    BY <1>2, <1>3 DEF Up
  <2> QED BY <1>2, <2>1, StepClosed
<1>4. CASE fn # "connect" /\ inSync
  <2>1. (Up' <=> Up) /\ (Up => iotimeout # 0)
    BY <1>2, <1>4 DEF Up
  <2> QED BY <1>2, <2>1, StepFails
<1>5. CASE fn # "connect" /\ ~inSync
  <2>1. (Up' <=> Up) /\ inSync' = inSync /\ Queue' = <<>> /\ Queue = <<>>
    BY <1>2, <1>5 DEF Up, Queue, FlowInv, FlowType
  <2> QED BY <1>2, <2>1, StepStays
<1> QED BY <1>2, <1>3, <1>4, <1>5
-----------------------------------------------------------------------------
(* A receive fails or finds nothing.                                       *)
LEMMA GivenUpFlows ==
  ASSUME FlowInv, got' = <<>>, UNCHANGED <<rx, coming, made>>
  PROVE  /\ Stream(Ahead', made) /\ (peer = "up" => Whole(Ahead', made))
         /\ got = <<>> => Ahead' = Ahead
<1>1. PICK t : t = Ahead'
  OBVIOUS
<1>2. t = (<<>> \o rx) \o coming
  BY <1>1 DEF Ahead
<1>3. PartOf(t, Ahead, Len(got)) /\ Len(got) + Len(t) = Len(Ahead)
  <2>1. /\ Ahead = (got \o rx) \o coming
        /\ got \in Seq(Byte) /\ rx \in Seq(Byte) /\ coming \in Seq(Byte)
    BY FlowNow
  <2>2. /\ (got \o rx) \o coming \in Seq(Byte)
        /\ PartOf((<<>> \o rx) \o coming, (got \o rx) \o coming, Len(got))
        /\ Len(got) + Len((<<>> \o rx) \o coming) = Len((got \o rx) \o coming)
        /\ PartOf((got \o rx) \o <<>>, (got \o rx) \o coming, 0)
        /\ PartOf((got \o <<>>) \o <<>>, (got \o rx) \o coming, 0)
    BY <2>1, GivenUp, Zenon
  <2> QED BY <1>2, <2>1, <2>2
<1>4. Stream(t, made) /\ (peer = "up" => Whole(t, made))
  BY <1>3, FlowNow, PartStream, RestWhole DEF FlowInv, Flow
<1>5. got = <<>> => t = Ahead
  BY <1>2 DEF Ahead
<1> QED BY <1>1, <1>4, <1>5

LEMMA RecvFailsFlows ==
  ASSUME FlowInv, pc = "recv", RecvFails, UNCHANGED stream, peer = "up" => iotimeout # 0
  PROVE  FlowKept /\ PacketStep
<1>1. Open(link) /\ AfterRecv \in BOOLEAN
  BY AfterReceiving DEF FlowInv, SocketsInv, Standing
<1>2. /\ Return("failed", AfterRecv) /\ owed' = 0
      /\ UNCHANGED <<link, iotimeout, hasHandler, addr, coming, peer, made, taken, rx, sendFailed>>
  BY DEF RecvFails, stream, config
<1>3. got' = <<>>
  BY <1>2 DEF Return
<1>4. Stream(Ahead', made) /\ (peer = "up" => Whole(Ahead', made))
  BY <1>2, <1>3, GivenUpFlows
<1>5. rx' \in Seq(Byte) /\ sendFailed' \in BOOLEAN /\ owed' \in Nat
  BY <1>2 DEF FlowInv, FlowType
<1> QED BY <1>1, <1>2, <1>4, <1>5, FailureFlows

LEMMA RecvNothingFlows ==
  ASSUME FlowInv, pc = "recv", peer = "up", got = <<>>, ~blockflag \/ ~sock[link].blocking,
         RecvNothing, UNCHANGED stream
  PROVE  FlowKept /\ PacketStep
<1>1. Open(link) /\ AfterRecv \in BOOLEAN /\ stage = "sync"
  BY AfterReceiving DEF FlowInv, SocketsInv, Standing, Waiting
<1>2. /\ Return(IF resp = "message" THEN "failed" ELSE "none", AfterRecv)
      /\ UNCHANGED <<link, iotimeout, hasHandler, addr, coming, peer, made, taken, rx, owed, sendFailed>>
  BY DEF RecvNothing, stream, config
<1>3. got' = <<>> /\ UNCHANGED <<rx, coming, made, peer, iotimeout>>
  BY <1>2 DEF Return
<1>4. Stream(Ahead', made) /\ (peer = "up" => Whole(Ahead', made)) /\ Ahead' = Ahead
  BY <1>3, GivenUpFlows
<1>5. rx' \in Seq(Byte) /\ sendFailed' \in BOOLEAN /\ owed' \in Nat
  BY <1>2 DEF FlowInv, FlowType
<1>6. CASE resp = "message"
  <2>1. Return("failed", AfterRecv)
    BY <1>2, <1>6
  <2>2. inSync => iotimeout # 0
    BY <1>6 DEF FlowInv, Excused
  <2> QED BY <1>1, <1>2, <1>4, <1>5, <2>1, <2>2, FailureFlows
<1>7. CASE resp # "message"
  <2>1. Return("none", AfterRecv)
    BY <1>2, <1>7
  <2>2. taken' \in {<<>>} \cup {<<p>> : p \in Packet}
    BY <1>2 DEF FlowInv, FlowType
  <2>3. inSync => Begins(Ahead', "sync", owed', 0) /\ (peer = "up" /\ owed' > 0 => Ahead' # <<>>)
    BY <1>1, <1>2, <1>4 DEF FlowInv, Place, Begins
  <2>4. /\ FlowKept
        /\ inSync' = (inSync /\ "none" # "failed")
        /\ Open(link)' <=> ~(fn = "connect" /\ "none" = "failed")
    BY <1>1, <1>2, <1>4, <1>5, <2>1, <2>2, <2>3, ReturnFlows
  <2>5. inSync' = inSync
    BY <2>4 DEF FlowInv, FlowType
  <2>6. Queue' = Queue /\ (Up' <=> Up)
    BY <1>1, <1>2, <1>4, <2>4, <2>5 DEF Queue, Up
  <2> QED BY <1>2, <2>4, <2>5, <2>6, StepStays
<1> QED BY <1>6, <1>7

(* Where a timeout has expired, it was set.                                *)
LEMMA AlarmForTimeout ==
  ASSUME FlowInv
  PROVE  /\ alarm => iotimeout # 0
         /\ Open(link) /\ (sock[link].state = "connecting" \/ sock[link].timeo) => iotimeout # 0
<1>1. alarm => iotimeout > 0
  BY DEF FlowInv, SocketsInv, Alarms
<1> QED BY <1>1 DEF FlowInv, Timed

LEMMA NoDataFlows ==
  ASSUME FlowInv, RecvWouldBlock \/ RecvTimesOut \/ RecvShutdown
  PROVE  FlowKept /\ PacketStep
<1>1. CASE RecvWouldBlock
  BY <1>1, RecvNothingFlows DEF RecvWouldBlock, Empty
<1>2. CASE RecvTimesOut
  <2>1. pc = "recv" /\ peer = "up" /\ Open(link) /\ sock[link].timeo /\ UNCHANGED stream
    BY <1>2 DEF RecvTimesOut, Sleeping, Empty, FlowInv, SocketsInv, Standing
  <2>2. iotimeout # 0
    BY <2>1, AlarmForTimeout
  <2>3. CASE RecvFails
    BY <2>1, <2>2, <2>3, RecvFailsFlows
  <2>4. CASE ~blockflag /\ got = <<>> /\ RecvNothing
    BY <2>1, <2>4, RecvNothingFlows
  <2> QED BY <1>2, <2>3, <2>4 DEF RecvTimesOut
<1>3. CASE RecvShutdown
  BY <1>3, RecvFailsFlows DEF RecvShutdown
<1> QED BY <1>1, <1>2, <1>3
-----------------------------------------------------------------------------
(* send().                                                                 *)
LEMMA AtRest ==
  ASSUME FlowInv, pc # "recv", fn # "dead"
  PROVE  stage = "sync" /\ got = <<>> /\ want = 0 /\ Len(got) + want = 0
<1>1. stage = "sync" /\ got = <<>> /\ want = 0
  BY DEF FlowInv, Waiting
<1>2. Len(<<>>) + 0 = 0
  OBVIOUS
<1> QED BY <1>1, <1>2

(* A reply, or a message, is waited for: dl_recvdata() begins.             *)
LEMMA BeginsFlows ==
  ASSUME FlowInv, Open(link), pc # "recv", fn # "dead", SameSocket, NEW n \in Nat,
         pc' = "recv", want' = n, got' = <<>>, UNCHANGED <<rx, coming, peer, made, owed, taken, inSync>>,
         UNCHANGED <<hasHandler, addr, ret>>, resp' \in {"none", "reply", "message"},
         sendFailed' \in BOOLEAN,
         \/ stage' = "sync" /\ n = 3 /\ (inSync => owed = 0)
         \/ stage' = "data" /\ n = owed /\ owed > 0 /\ blockflag' /\ sock'[link'].blocking,
         inSync => Excused'
  PROVE  FlowKept /\ PacketStep
<1>1. stage = "sync" /\ got = <<>> /\ want = 0
  BY AtRest
<1>2. Ahead' = Ahead
  BY <1>1 DEF Ahead
<1>3. Len(<<>>) = 0 /\ Len(got') + want' = n /\ owed \in Nat
  <2>1. Len(<<>>) = 0
    OBVIOUS
  <2>2. 0 + n = n
    OBVIOUS
  <2> QED BY <2>1, <2>2, FlowNow
<1>4. FlowType'
  <2>1. <<>> \in Seq(Byte)
    OBVIOUS
  <2>2. stage' \in {"sync", "header", "data"} /\ want' \in Nat /\ got' \in Seq(Byte)
    BY <2>1
  <2> QED BY <2>2 DEF FlowInv, FlowType
<1>5. Flow'
  BY <1>2 DEF FlowInv, Flow
<1>6. Waiting'
  BY <1>3 DEF Waiting
<1>7. ASSUME inSync PROVE Place'
  <2>1. Begins(Ahead, "sync", owed, Len(got) + want) /\ (peer = "up" /\ owed > 0 => Ahead # <<>>)
    BY <1>1, <1>7 DEF FlowInv, Place
  <2>2. Begins(Ahead', stage', owed', Len(got') + want')
    BY <1>2, <2>1 DEF Begins
  <2>3. peer' = "up" /\ (stage' = "header" \/ owed' > 0) => Ahead' # <<>>
    BY <1>2, <2>1
  <2>4. (stage' = "data" <=> owed' > 0) /\ (stage' = "data" => Len(got') + want' = owed')
    BY <1>3, <1>7
  <2> QED BY <2>2, <2>3, <2>4 DEF Place
<1>8. (inSync => Place /\ Excused)'
  BY <1>7
<1>9. Queue' = Queue
  BY <1>2 DEF Queue
<1>10. (Up' <=> Up) /\ (iotimeout' # 0 <=> iotimeout # 0)
  BY DEF SameSocket, Up
<1>11. PacketStep
  BY <1>9, <1>10, StepStays
<1> QED BY <1>4, <1>5, <1>6, <1>8, <1>11, TimedKept DEF FlowKept

LEMMA SameIfSwitched ==
  ASSUME FlowInv, Open(link), NEW mode \in BOOLEAN, UNCHANGED <<link, iotimeout>>,
         sock' = [sock EXCEPT ![link].blocking = mode]
  PROVE  SameSocket /\ sock'[link'].blocking = mode
<1>1. /\ link \in 1..MaxSockets /\ sock[link] \in Socket /\ sock \in [1..MaxSockets -> Socket]
      /\ link # 0
  BY LinkOpen DEF FlowInv, SocketsInv, SocketType, Open
<1>2. /\ sock'[link].state = sock[link].state /\ sock'[link].timeo = sock[link].timeo
      /\ sock'[link].blocking = mode
  BY <1>1
<1> QED BY <1>1, <1>2 DEF SameSocket, Open

LEMMA SendFailedFlows ==
  ASSUME FlowInv, pc = "send", NEW still \in BOOLEAN, SendFailed(still),
         inSync => peer # "up" \/ iotimeout # 0
  PROVE  FlowKept /\ PacketStep
<1>1. /\ Open(link) /\ fn # "dead" /\ sendFailed' = TRUE
      /\ UNCHANGED <<link, iotimeout, hasHandler, addr, rx, coming, peer, made, taken>>
  BY DEF FlowInv, SocketsInv, Standing, SendFailed, config, stream
<1>2. stage = "sync" /\ got = <<>> /\ want = 0
  BY <1>1, AtRest
<1>3. CASE resp = "none"
  <2>1. Return("failed", TRUE) /\ owed' = 0
    BY <1>3 DEF SendFailed
  <2>2. got' = <<>>
    BY <2>1 DEF Return
  <2>3. Stream(Ahead', made) /\ (peer = "up" => Whole(Ahead', made))
    BY <1>1, <2>2, GivenUpFlows
  <2>4. rx' \in Seq(Byte) /\ sendFailed' \in BOOLEAN /\ owed' \in Nat
    BY <1>1, <2>1 DEF FlowInv, FlowType
  <2> QED BY <1>1, <2>1, <2>3, <2>4, FailureFlows
<1>4. CASE resp # "none"
  <2>1. /\ pc' = "recv" /\ stage' = "sync" /\ want' = 3 /\ got' = <<>> /\ resp' = "message"
        /\ UNCHANGED <<fn, ret, sock, inSync, owed>>
    BY <1>4 DEF SendFailed
  <2>2. SameSocket
    BY <1>1, <2>1 DEF SameSocket, Open
  <2>3. inSync => Excused'
    BY <1>1 DEF Excused
  <2>4. inSync => owed = 0
    BY DEF FlowInv, Place
  <2>5. 3 \in Nat /\ pc # "recv" /\ resp' \in {"none", "reply", "message"} /\ sendFailed' \in BOOLEAN
    BY <1>1, <2>1
  <2> QED BY <1>1, <2>1, <2>2, <2>3, <2>4, <2>5, BeginsFlows
<1> QED BY <1>3, <1>4

LEMMA SendFlows ==
  ASSUME FlowInv, SendDone \/ SendError \/ SendTimesOut
  PROVE  FlowKept /\ PacketStep
<1>1. pc = "send" /\ Open(link) /\ fn # "dead" /\ alarm \in BOOLEAN
  BY DEF SendDone, Answered, SendError, SendTimesOut, FlowInv, SocketsInv, SocketType, Standing
<1>2. CASE SendError
  <2>1. peer # "up" \/ iotimeout # 0
    BY <1>1, <1>2, AlarmForTimeout DEF SendError
  <2>2. SendFailed(alarm)
    BY <1>2 DEF SendError
  <2> QED BY <1>1, <2>1, <2>2, SendFailedFlows
<1>3. CASE SendTimesOut
  <2>1. iotimeout # 0
    BY <1>1, <1>3, AlarmForTimeout DEF SendTimesOut
  <2>2. SendFailed(alarm)
    BY <1>3 DEF SendTimesOut
  <2> QED BY <1>1, <2>1, <2>2, SendFailedFlows
<1>4. CASE SendDone
  <2>1. /\ UNCHANGED <<link, iotimeout, hasHandler, addr, rx, coming, peer, made, sendFailed>>
    BY <1>4 DEF SendDone, Answered, config, stream
  <2>2. stage = "sync" /\ got = <<>> /\ want = 0
    BY <1>1, AtRest
  <2>3. CASE resp = "none"
    <3>1. Return("sent", FALSE) /\ UNCHANGED <<owed, taken>>
      BY <1>4, <2>3 DEF SendDone, Answered
    <3>2. got' = <<>>
      BY <3>1 DEF Return
    <3>3. Stream(Ahead', made) /\ (peer = "up" => Whole(Ahead', made)) /\ Ahead' = Ahead
      BY <2>1, <2>2, <3>2, GivenUpFlows
    <3>4. /\ rx' \in Seq(Byte) /\ sendFailed' \in BOOLEAN /\ owed' \in Nat
          /\ taken' \in {<<>>} \cup {<<p>> : p \in Packet}
      BY <2>1, <3>1 DEF FlowInv, FlowType
    <3>5. inSync => Begins(Ahead', "sync", owed', 0) /\ (peer = "up" /\ owed' > 0 => Ahead' # <<>>)
      BY <2>2, <3>1, <3>3 DEF FlowInv, Place, Begins
    <3>6. /\ FlowKept
          /\ inSync' = (inSync /\ "sent" # "failed")
          /\ Open(link)' <=> ~(fn = "connect" /\ "sent" = "failed")
      BY <1>1, <2>1, <3>1, <3>3, <3>4, <3>5, ReturnFlows
    <3>7. inSync' = inSync
      BY <3>6 DEF FlowInv, FlowType
    <3>8. Queue' = Queue /\ (Up' <=> Up)
      BY <1>1, <2>1, <3>3, <3>6, <3>7 DEF Queue, Up
    <3> QED BY <2>1, <3>1, <3>6, <3>7, <3>8, StepStays
  <2>4. CASE resp # "none"
    <3>1. /\ pc' = "recv" /\ stage' = "sync" /\ want' = 3 /\ got' = <<>>
          /\ UNCHANGED <<fn, resp, ret, sock, inSync, owed, taken>>
      BY <1>4, <2>4 DEF SendDone, Answered
    <3>2. SameSocket
      BY <2>1, <3>1 DEF SameSocket, Open
    <3>3. inSync => Excused'
      BY <2>1, <3>1 DEF FlowInv, Excused
    <3>4. inSync => owed = 0
      BY <1>1 DEF FlowInv, Place
    <3>5. 3 \in Nat /\ pc # "recv" /\ resp' \in {"none", "reply", "message"} /\ sendFailed' \in BOOLEAN
      BY <1>1, <2>1, <3>1 DEF FlowInv, FlowType
    <3> QED BY <1>1, <2>1, <3>1, <3>2, <3>3, <3>4, <3>5, BeginsFlows
  <2> QED BY <2>3, <2>4
<1> QED BY <1>2, <1>3, <1>4
-----------------------------------------------------------------------------
(* recv().                                                                 *)

LEMMA UsedFlow ==
  ASSUME NEW m \in Nat, NEW s, NEW t, NEW d, Stream(s, m), PartOf(t, s, d), d + Len(t) = Len(s)
  PROVE  /\ Stream(t, m) /\ (Whole(s, m) => Whole(t, m))
         /\ d \in Nat /\ Len(s) \in Nat /\ d <= Len(s)
         /\ t # <<>> <=> d + 1 <= Len(s)
         /\ t # <<>> => d + 1 \in 1..Len(s) /\ t[1] = s[d + 1]
<1>1. s \in Seq(Byte) /\ t \in Seq(Byte) /\ d \in Nat /\ Len(s) \in Nat /\ Len(t) \in Nat
  BY DEF Stream, PartOf
<1>2. Stream(t, m) /\ (Whole(s, m) => Whole(t, m))
  BY PartStream, RestWhole
<1>3. d <= Len(s) /\ (t # <<>> <=> d + 1 <= Len(s))
  <2>1. t # <<>> <=> Len(t) # 0
    BY <1>1
  <2> QED BY <1>1, <2>1
<1>4. t # <<>> => d + 1 \in 1..Len(s) /\ t[1] = s[d + 1]
  <2>1. t # <<>> => 1 \in 1..Len(t)
    BY <1>1
  <2> QED BY <1>1, <1>3, <2>1 DEF PartOf
<1> QED BY <1>1, <1>2, <1>3, <1>4

(* Three bytes: the header follows, if they are "DL" and its length.       *)
LEMMA SyncUsed ==
  ASSUME NEW m \in Nat, NEW s, NEW t, Stream(s, m), PartOf(t, s, 3), 3 + Len(t) = Len(s),
         s[1].at = 1
  PROVE  /\ Reads(s[1]) = D /\ Reads(s[2]) = L /\ Reads(s[3]) = s[1].of.h
         /\ ListOf(t) = ListOf(s)
         /\ Begins(t, "header", 0, Reads(s[3])) /\ (Whole(s, m) => t # <<>>)
<1>1. /\ Len(s) \in Nat /\ 3 <= Len(s) /\ (t # <<>> <=> 3 + 1 <= Len(s))
      /\ t # <<>> => t[1] = s[3 + 1]
  BY UsedFlow
<1>2. /\ Reads(s[1]) = D /\ Reads(s[2]) = L /\ Reads(s[3]) = s[1].of.h
      /\ \A i \in 1..3 : ~Ends(s, i)
      /\ 4 <= Len(s) => s[4].of = s[1].of /\ s[4].at = 4
      /\ Whole(s, m) => 4 <= Len(s)
  BY <1>1, SyncBytes
<1>3. ListOf(t) = ListOf(s)
  BY <1>2, ListKept
<1>4. Begins(t, "header", 0, Reads(s[3])) /\ (Whole(s, m) => t # <<>>)
  BY <1>1, <1>2 DEF Begins
<1> QED BY <1>2, <1>3, <1>4

LEMMA HeaderUsed ==
  ASSUME NEW m \in Nat, NEW s, NEW t, NEW h \in Nat \ {0}, Stream(s, m), PartOf(t, s, h), h + Len(t) = Len(s)
  PROVE  s[1].at = 4 /\ s[1].of.h = h =>
         /\ ListOf(s) # <<>> /\ Head(ListOf(s)) = s[1].of /\ ListOf(t) = Tail(ListOf(s))
         /\ Begins(t, "sync", s[1].of.b, 0)
         /\ Whole(s, m) /\ s[1].of.b > 0 => t # <<>>
<1>1. /\ Stream(t, m) /\ (Whole(s, m) => Whole(t, m))
      /\ h \in Nat /\ Len(s) \in Nat /\ h <= Len(s)
      /\ t # <<>> <=> h + 1 <= Len(s)
      /\ t # <<>> => h + 1 \in 1..Len(s) /\ t[1] = s[h + 1]
  BY UsedFlow
<1>2. s # <<>>
  BY <1>1
<1> HAVE s[1].at = 4 /\ s[1].of.h = h
<1>3. PICK b \in Nat : s[1].of.b = b
  BY <1>2, FirstByte
<1>4. /\ h \in 1..h /\ Ends(s, h) /\ s[h].of = s[1].of
      /\ \A i \in 1..h : Ends(s, i) => i = h
      /\ h + 1 <= Len(s) => IF b = 0 THEN s[h + 1].at = 1
                            ELSE s[h + 1].at = 4 + h /\ s[h + 1].of = s[1].of
      /\ Whole(s, m) /\ b > 0 => h + 1 <= Len(s)
  <2>1. h \in Nat /\ h <= Len(s) /\ s[1].of.b = b
    BY <1>1, <1>3
  <2> QED BY <1>2, <2>1, HeaderBytes
<1>5. ListOf(s) # <<>> /\ Head(ListOf(s)) = s[h].of /\ ListOf(t) = Tail(ListOf(s))
  BY <1>4, ListHead, SMTT(30), ZenonT(30)
<1>6. Begins(t, "sync", b, 0)
  BY <1>1, <1>3, <1>4 DEF Begins
<1> QED BY <1>1, <1>3, <1>4, <1>5, <1>6

LEMMA BodyUsed ==
  ASSUME NEW m \in Nat, NEW s, NEW t, NEW b \in Nat \ {0}, Stream(s, m), PartOf(t, s, b), b + Len(t) = Len(s),
         s[1].at = 4 + s[1].of.h, s[1].of.b = b
  PROVE  ListOf(t) = ListOf(s) /\ Begins(t, "sync", 0, 0)
<1>1. /\ Len(s) \in Nat /\ b <= Len(s) /\ (t # <<>> <=> b + 1 <= Len(s))
      /\ t # <<>> => t[1] = s[b + 1]
  BY UsedFlow
<1>2. s # <<>>
  BY <1>1
<1>3. /\ \A i \in 1..b : ~Ends(s, i)
      /\ b + 1 <= Len(s) => s[b + 1].at = 1
  BY <1>1, <1>2, BodyBytes
<1>4. ListOf(t) = ListOf(s)
  BY <1>3, ListKept
<1> QED BY <1>1, <1>3, <1>4 DEF Begins

(* What a receive has to do with the bytes that it takes.                  *)
Receiving(k, all, rest, t) ==
  /\ k \in Nat \ {0} /\ k <= want /\ Open(link) /\ pc = "recv"
  /\ UNCHANGED <<link, iotimeout, hasHandler, addr, coming, peer, made, sendFailed>> /\ rx' = rest
  /\ all \in Seq(Byte) /\ rest \in Seq(Byte) /\ Len(all) = Len(got) + k /\ Ahead # <<>>
  /\ (all \o rest) \o coming = Ahead
  /\ \A i \in 1..Len(all) : i \in 1..Len(Ahead) /\ all[i] = Ahead[i]
  /\ PartOf(t, Ahead, Len(all)) /\ Len(all) + Len(t) = Len(Ahead)
  /\ Stream(t, made) /\ (peer = "up" => Whole(t, made))
  /\ got' = <<>> => Ahead' = t

LEMMA ReceivingNow ==
  ASSUME FlowInv, pc = "recv", NEW k \in 1..Len(rx), k <= want, rx' = SubSeq(rx, k + 1, Len(rx)),
         UNCHANGED <<link, iotimeout, config, addr, coming, peer, made, sendFailed>>
  PROVE  \E all, rest, t : all = got \o SubSeq(rx, 1, k) /\ Receiving(k, all, rest, t)
<1>1. /\ Ahead = (got \o rx) \o coming /\ Stream(Ahead, made) /\ made \in Nat
      /\ got \in Seq(Byte) /\ rx \in Seq(Byte) /\ coming \in Seq(Byte) /\ Len(got) \in Nat
  BY FlowNow
<1>2. k \in 0..Len(rx)
  OBVIOUS
<1>3. PICK all, rest : ReadOff(got, rx, coming, k, all, rest)
  BY <1>1, <1>2, ReadAhead
<1>4. /\ all = got \o SubSeq(rx, 1, k) /\ rest = SubSeq(rx, k + 1, Len(rx))
      /\ all \in Seq(Byte) /\ rest \in Seq(Byte) /\ Len(all) = Len(got) + k
      /\ (all \o rest) \o coming = (got \o rx) \o coming
      /\ \A i \in 1..Len(all) : i \in 1..Len((got \o rx) \o coming) /\ all[i] = ((got \o rx) \o coming)[i]
      /\ PartOf((<<>> \o rest) \o coming, (got \o rx) \o coming, Len(all))
      /\ Len(all) + Len((<<>> \o rest) \o coming) = Len((got \o rx) \o coming)
  BY <1>3 DEF ReadOff
<1>5. PICK t : t = (<<>> \o rest) \o coming
  OBVIOUS
<1>6. rx' = rest
  BY <1>4
<1>7. /\ (all \o rest) \o coming = Ahead
      /\ \A i \in 1..Len(all) : i \in 1..Len(Ahead) /\ all[i] = Ahead[i]
      /\ PartOf(t, Ahead, Len(all)) /\ Len(all) + Len(t) = Len(Ahead)
  BY <1>1, <1>4, <1>5, Zenon
<1>8. Ahead # <<>>
  <2>1. 1 \in 1..Len(all)
    BY <1>1, <1>4
  <2>2. 1 \in 1..Len(Ahead)
    BY <1>7, <2>1
  <2> QED BY <2>2
<1>9. Stream(t, made) /\ (peer = "up" => Whole(t, made))
  BY <1>1, <1>7, PartStream, RestWhole DEF FlowInv, Flow
<1>10. got' = <<>> => Ahead' = t
  BY <1>5, <1>6 DEF Ahead
<1>11. Open(link) /\ UNCHANGED hasHandler /\ k \in Nat \ {0}
  BY DEF FlowInv, SocketsInv, Standing, config
<1>12. all \in Seq(Byte) /\ rest \in Seq(Byte) /\ rest \in Seq(Byte) /\ Len(all) = Len(got) + k
  BY <1>4
<1>13. Receiving(k, all, rest, t)
  BY <1>6, <1>7, <1>8, <1>9, <1>10, <1>11, <1>12 DEF Receiving
<1> QED BY <1>4, <1>13

(* Not all that was asked for is there yet.                                *)
LEMMA PartRead ==
  ASSUME FlowInv, NEW k, NEW all, NEW rest, NEW t, Receiving(k, all, rest, t),
         k < want, got' = all, want' = want - k,
         UNCHANGED <<fn, pc, stage, blockflag, resp, ret, sock, alarm, inSync, owed, taken>>
  PROVE  FlowKept /\ PacketStep
<1>1. /\ want \in Nat /\ Len(got) \in Nat /\ k \in Nat /\ UNCHANGED <<link, iotimeout, coming, peer, made>>
  BY FlowNow DEF Receiving
<1>2. want' \in Nat /\ Len(got') + want' = Len(got) + want
  <2>1. Len(got') = Len(got) + k
    BY DEF Receiving
  <2> QED BY <1>1, <2>1
<1>3. Ahead' = Ahead
  BY DEF Receiving, Ahead
<1>4. FlowType'
  BY <1>2 DEF FlowInv, FlowType, Receiving
<1>5. Flow'
  BY <1>1, <1>3 DEF FlowInv, Flow
<1>6. Waiting'
  <2>1. pc = "recv" /\ link' = link
    BY DEF Receiving
  <2> QED BY <1>2, <2>1 DEF FlowInv, Waiting
<1>7. SameSocket
  BY <1>1 DEF SameSocket, Open
<1>8. (inSync => Place /\ Excused)'
  BY <1>1, <1>2, <1>3 DEF FlowInv, Place, Excused
<1>9. Queue' = Queue /\ (Up' <=> Up)
  BY <1>1, <1>3 DEF Queue, Up, Open
<1>10. PacketStep
  BY <1>1, <1>9, StepStays
<1> QED BY <1>4, <1>5, <1>6, <1>7, <1>8, <1>10, TimedKept DEF FlowKept

(* The bytes before a header.                                              *)
LEMMA SyncFlows ==
  ASSUME FlowInv, NEW k, NEW all, NEW rest, NEW t, Receiving(k, all, rest, t),
         k = want, stage = "sync", SyncRead(all)
  PROVE  FlowKept /\ PacketStep
<1>1. /\ Open(link) /\ pc = "recv" /\ Len(all) = Len(got) + k
      /\ UNCHANGED <<link, iotimeout, hasHandler, addr, coming, peer, made, sendFailed>>
      /\ \A i \in 1..Len(all) : i \in 1..Len(Ahead) /\ all[i] = Ahead[i]
      /\ PartOf(t, Ahead, Len(all)) /\ Len(all) + Len(t) = Len(Ahead)
      /\ Stream(t, made) /\ (peer = "up" => Whole(t, made))
      /\ got' = <<>> => Ahead' = t
      /\ rx' \in Seq(Byte)
  BY DEF Receiving
<1>2. Stream(Ahead, made) /\ made \in Nat /\ Len(got) \in Nat /\ Ahead # <<>> /\ owed \in Nat
  BY FlowNow DEF Receiving
<1>3. Len(all) = 3
  BY <1>1 DEF FlowInv, Waiting
<1>4. all[1] = Ahead[1] /\ all[2] = Ahead[2] /\ all[3] = Ahead[3]
  <2>1. 1 \in 1..Len(all) /\ 2 \in 1..Len(all) /\ 3 \in 1..Len(all)
    BY <1>3
  <2> QED BY <1>1, <2>1
<1>5. Ahead[1] \in Byte
  BY <1>2, FirstByte
<1>6. PartOf(t, Ahead, 3) /\ 3 + Len(t) = Len(Ahead)
  BY <1>1, <1>3
<1>7. inSync => Ahead[1].at = 1 /\ owed = 0
  BY <1>1, <1>2 DEF FlowInv, Place, Begins
<1>8. CASE Reads(all[1]) = D /\ Reads(all[2]) = L
  <2>1. Ahead[1].at = 1
    BY <1>4, <1>5, <1>8, ReadsD
  <2>2. /\ Reads(Ahead[3]) = Ahead[1].of.h /\ ListOf(t) = ListOf(Ahead)
        /\ Begins(t, "header", 0, Reads(Ahead[3])) /\ (Whole(Ahead, made) => t # <<>>)
    BY <1>2, <1>6, <2>1, SyncUsed
  <2>3. PICK n \in Nat : Reads(Ahead[3]) = n
    BY <1>2, <2>2, FirstByte
  <2>4. /\ RecvData(n, TRUE, "header") /\ UNCHANGED <<fn, resp, ret, inSync, owed, taken>>
    BY <1>4, <1>8, <2>3 DEF SyncRead
  <2>5. /\ pc' = "recv" /\ stage' = "header" /\ want' = n /\ got' = <<>> /\ blockflag' = TRUE
        /\ sock' = [sock EXCEPT ![link].blocking = @ \/ TRUE]
    BY <2>4 DEF RecvData
  <2>6. sock' = [sock EXCEPT ![link].blocking = TRUE]
    BY <2>5
  <2>7. SameSocket /\ sock'[link'].blocking = TRUE
    BY <1>1, <2>6, SameIfSwitched
  <2>8. FlowType'
    <3>1. <<>> \in Seq(Byte)
      OBVIOUS
    <3> QED BY <1>1, <2>4, <2>5, <3>1 DEF FlowInv, FlowType
  <2>9. Ahead' = t
    BY <1>1, <2>5
  <2>10. Flow'
    BY <1>1, <2>9 DEF Flow
  <2>11. Waiting'
    BY <2>5, <2>7 DEF Waiting
  <2>12. ASSUME inSync PROVE Place' /\ Excused'
    <3>1. Len(got') + want' = n /\ owed = 0
      <4>1. Len(<<>>) = 0 /\ 0 + n = n
        OBVIOUS
      <4> QED BY <1>7, <2>5, <2>12, <4>1
    <3>2. Begins(Ahead', stage', owed', Len(got') + want')
      BY <2>2, <2>3, <2>5, <2>9, <3>1 DEF Begins
    <3>3. peer' = "up" => Ahead' # <<>>
      BY <1>1, <2>2, <2>9 DEF FlowInv, Flow
    <3>4. Excused'
      BY <1>1, <2>4, <2>12 DEF FlowInv, Excused
    <3> QED BY <2>4, <2>5, <3>1, <3>2, <3>3, <3>4 DEF Place
  <2>13. Queue' = Queue
    BY <2>2, <2>4, <2>9 DEF Queue, ListOf
  <2>14. (Up' <=> Up) /\ (iotimeout' # 0 <=> iotimeout # 0)
    BY <1>1, <2>7 DEF SameSocket, Up
  <2>15. PacketStep
    BY <2>4, <2>13, <2>14, StepStays
  <2>16. (inSync => Place /\ Excused)'
    BY <2>4, <2>12
  <2> QED BY <2>7, <2>8, <2>10, <2>11, <2>15, <2>16, TimedKept DEF FlowKept
<1>9. CASE ~(Reads(all[1]) = D /\ Reads(all[2]) = L)
  <2>1. /\ Return("failed", AfterRecv) /\ owed' = 0 /\ UNCHANGED taken
    BY <1>9 DEF SyncRead
  <2>2. ~inSync
    <3>1. Ahead[1].at = 1 => Reads(Ahead[1]) = D /\ Reads(Ahead[2]) = L
      BY <1>2, <1>6, SyncUsed
    <3> QED BY <1>4, <1>7, <1>9, <3>1
  <2>3. got' = <<>>
    BY <2>1 DEF Return
  <2>4. Stream(Ahead', made) /\ (peer = "up" => Whole(Ahead', made))
    BY <1>1, <2>3
  <2>5. AfterRecv \in BOOLEAN /\ sendFailed' \in BOOLEAN /\ owed' \in Nat
    BY <1>1, <2>1, AfterReceiving DEF FlowInv, FlowType
  <2> QED BY <1>1, <2>1, <2>2, <2>4, <2>5, FailureFlows
<1> QED BY <1>8, <1>9

(* The header.                                                             *)
LEMMA HeaderFlows ==
  ASSUME FlowInv, NEW k, NEW all, NEW rest, NEW t, Receiving(k, all, rest, t),
         k = want, stage = "header", HeaderRead(all)
  PROVE  FlowKept /\ PacketStep
<1>1. /\ Open(link) /\ pc = "recv" /\ Len(all) = Len(got) + want /\ want \in Nat \ {0}
      /\ UNCHANGED <<link, iotimeout, hasHandler, addr, coming, peer, made, sendFailed>>
      /\ \A i \in 1..Len(all) : i \in 1..Len(Ahead) /\ all[i] = Ahead[i]
      /\ PartOf(t, Ahead, Len(all)) /\ Len(all) + Len(t) = Len(Ahead)
      /\ Stream(t, made) /\ (peer = "up" => Whole(t, made))
      /\ got' = <<>> => Ahead' = t
      /\ rx' \in Seq(Byte)
  BY DEF Receiving
<1>2. Stream(Ahead, made) /\ made \in Nat /\ Len(got) \in Nat /\ Ahead # <<>> /\ owed \in Nat
  BY FlowNow DEF Receiving
<1>3. PICK n \in Nat \ {0} : Len(all) = n /\ Len(got) + want = n
  <2>1. Len(got) + want \in Nat \ {0}
    BY <1>1, <1>2
  <2> QED BY <1>1, <2>1
<1>4. all[1] = Ahead[1]
  BY <1>1, <1>3
<1>5. Ahead[1].of \in Packet /\ Ahead[1].of.b \in Nat
  BY <1>2, FirstByte
<1>6. PartOf(t, Ahead, n) /\ n + Len(t) = Len(Ahead)
  BY <1>1, <1>3
<1>7. sendFailed' \in BOOLEAN
  BY <1>1 DEF FlowInv, FlowType
<1>8. CASE \/ resp = "message" /\ Return("failed", FALSE) /\ owed' = 0 /\ UNCHANGED taken
           \/ fn = "connect" /\ Return("failed", FALSE) /\ owed' = 0 /\ UNCHANGED taken
  <2>1. Return("failed", FALSE) /\ UNCHANGED taken /\ owed' \in Nat
    <3>1. Return("failed", FALSE) /\ UNCHANGED taken /\ owed' = 0
      BY <1>8, Zenon
    <3>2. owed' \in Nat
      BY <3>1
    <3> QED BY <3>1, <3>2
  <2>2. got' = <<>>
    BY <2>1 DEF Return
  <2>3. Stream(Ahead', made) /\ (peer = "up" => Whole(Ahead', made))
    BY <1>1, <2>2
  <2>4. inSync /\ fn # "connect" /\ peer = "up" => iotimeout # 0
    BY <1>8 DEF FlowInv, Excused
  <2> QED BY <1>1, <1>7, <2>1, <2>3, <2>4, FailureFlows
<1>9. CASE /\ Return("got", FALSE) /\ owed' = all[1].of.b
           /\ taken' = IF inSync THEN <<all[1].of>> ELSE taken
  <2>1. got' = <<>> /\ Ahead' = t
    BY <1>1, <1>9 DEF Return
  <2>2. owed' = Ahead[1].of.b /\ taken' = IF inSync THEN <<Ahead[1].of>> ELSE taken
    BY <1>4, <1>9
  <2>3. owed' \in Nat /\ taken' \in {<<>>} \cup {<<p>> : p \in Packet}
    BY <1>5, <2>2 DEF FlowInv, FlowType
  <2>4. ASSUME inSync
        PROVE  /\ ListOf(Ahead) # <<>> /\ Head(ListOf(Ahead)) = Ahead[1].of
               /\ ListOf(t) = Tail(ListOf(Ahead)) /\ Begins(t, "sync", Ahead[1].of.b, 0)
               /\ Whole(Ahead, made) /\ Ahead[1].of.b > 0 => t # <<>>
    <3>1. Ahead[1].at = 4 /\ Ahead[1].of.h = n
      BY <1>2, <1>3, <2>4 DEF FlowInv, Place, Begins
    <3> QED BY <1>2, <1>6, <3>1, HeaderUsed
  <2>5. inSync => Begins(Ahead', "sync", owed', 0) /\ (peer = "up" /\ owed' > 0 => Ahead' # <<>>)
    BY <2>1, <2>2, <2>4 DEF FlowInv, Flow
  <2>6. Stream(Ahead', made) /\ (peer = "up" => Whole(Ahead', made))
    BY <1>1, <2>1
  <2>7. /\ FlowKept
        /\ inSync' = (inSync /\ "got" # "failed")
        /\ Open(link)' <=> ~(fn = "connect" /\ "got" = "failed")
    BY <1>1, <1>7, <1>9, <2>3, <2>5, <2>6, ReturnFlows
  <2>8. inSync' = inSync /\ (Up' <=> Up)
    BY <1>1, <2>7 DEF FlowInv, FlowType, Up
  <2>9. CASE inSync
    <3>1. Queue = ListOf(Ahead) /\ Queue' = ListOf(t)
      BY <2>1, <2>8, <2>9 DEF Queue, ListOf
    <3>2. Queue # <<>> /\ taken' = <<Head(Queue)>> /\ Queue' = Tail(Queue)
      BY <2>2, <2>4, <2>9, <3>1
    <3> QED BY <1>1, <2>7, <2>8, <2>9, <3>2, StepTake
  <2>10. CASE ~inSync
    <3>1. Queue' = Queue /\ taken' = taken
      BY <2>2, <2>8, <2>10 DEF Queue
    <3> QED BY <1>1, <2>7, <2>8, <3>1, StepStays
  <2> QED BY <2>9, <2>10
<1>10. \/ resp = "message" /\ Return("failed", FALSE) /\ owed' = 0 /\ UNCHANGED taken
       \/ fn = "connect" /\ Return("failed", FALSE) /\ owed' = 0 /\ UNCHANGED taken
       \/ /\ Return("got", FALSE) /\ owed' = all[1].of.b
          /\ taken' = IF inSync THEN <<all[1].of>> ELSE taken
  BY Zenon DEF HeaderRead
<1> QED BY <1>8, <1>9, <1>10

(* The body.                                                               *)
LEMMA BodyFlows ==
  ASSUME FlowInv, NEW k, NEW all, NEW rest, NEW t, Receiving(k, all, rest, t),
         k = want, stage = "data", Return("data", FALSE), owed' = 0, UNCHANGED taken
  PROVE  FlowKept /\ PacketStep
<1>1. /\ Open(link) /\ pc = "recv" /\ Len(all) = Len(got) + want /\ want \in Nat \ {0}
      /\ UNCHANGED <<link, iotimeout, hasHandler, addr, coming, peer, made, sendFailed>>
      /\ PartOf(t, Ahead, Len(all)) /\ Len(all) + Len(t) = Len(Ahead)
      /\ Stream(t, made) /\ (peer = "up" => Whole(t, made))
      /\ got' = <<>> => Ahead' = t
      /\ rx' \in Seq(Byte)
  BY DEF Receiving
<1>2. Stream(Ahead, made) /\ made \in Nat /\ Len(got) \in Nat /\ Ahead # <<>>
  BY FlowNow DEF Receiving
<1>3. PICK n \in Nat \ {0} : Len(all) = n /\ Len(got) + want = n
  <2>1. Len(got) + want \in Nat \ {0}
    BY <1>1, <1>2
  <2> QED BY <1>1, <2>1
<1>4. PartOf(t, Ahead, n) /\ n + Len(t) = Len(Ahead)
  BY <1>1, <1>3
<1>5. got' = <<>> /\ Ahead' = t
  BY <1>1 DEF Return
<1>6. ASSUME inSync PROVE ListOf(t) = ListOf(Ahead) /\ Begins(t, "sync", 0, 0)
  <2>1. owed = n
    BY <1>1, <1>3, <1>6 DEF FlowInv, Place
  <2>2. Ahead[1].at = 4 + Ahead[1].of.h /\ Ahead[1].of.b = n
    BY <1>2, <1>6, <2>1 DEF FlowInv, Place, Begins
  <2> QED BY <1>2, <1>4, <2>2, BodyUsed
<1>7. Stream(Ahead', made) /\ (peer = "up" => Whole(Ahead', made))
  BY <1>1, <1>5
<1>8. /\ sendFailed' \in BOOLEAN /\ owed' \in Nat /\ taken' \in {<<>>} \cup {<<p>> : p \in Packet}
  BY <1>1 DEF FlowInv, FlowType
<1>9. inSync => Begins(Ahead', "sync", owed', 0) /\ (peer = "up" /\ owed' > 0 => Ahead' # <<>>)
  BY <1>5, <1>6
<1>10. /\ FlowKept
       /\ inSync' = (inSync /\ "data" # "failed")
       /\ Open(link)' <=> ~(fn = "connect" /\ "data" = "failed")
  BY <1>1, <1>7, <1>8, <1>9, ReturnFlows
<1>11. inSync' = inSync /\ (Up' <=> Up)
  BY <1>1, <1>10 DEF FlowInv, FlowType, Up
<1>12. Queue' = Queue
  BY <1>5, <1>6, <1>11 DEF Queue, ListOf
<1> QED BY <1>1, <1>10, <1>11, <1>12, StepStays

LEMMA RecvBytesFlows ==
  ASSUME FlowInv, RecvBytes
  PROVE  FlowKept /\ PacketStep
<1>1. /\ pc = "recv"
      /\ UNCHANGED <<link, iotimeout, config, addr, coming, peer, made, sendFailed>>
  BY DEF RecvBytes
<1>2. PICK k \in 1..Len(rx) :
        /\ k <= want /\ rx' = SubSeq(rx, k + 1, Len(rx))
        /\ \/ /\ k < want /\ got' = got \o SubSeq(rx, 1, k) /\ want' = want - k
              /\ UNCHANGED <<fn, pc, stage, blockflag, resp, ret, sock, alarm, inSync, owed, taken>>
           \/ k = want /\ stage = "sync" /\ SyncRead(got \o SubSeq(rx, 1, k))
           \/ k = want /\ stage = "header" /\ HeaderRead(got \o SubSeq(rx, 1, k)) /\ alarm' = AlarmUnset
           \/ /\ k = want /\ stage = "data" /\ Return("data", FALSE) /\ alarm' = AlarmUnset
              /\ owed' = 0 /\ UNCHANGED taken
  BY Zenon DEF RecvBytes
<1>3. rx' = SubSeq(rx, k + 1, Len(rx)) /\ k <= want
  BY <1>2
<1>4. PICK all, rest, t : all = got \o SubSeq(rx, 1, k) /\ Receiving(k, all, rest, t)
  BY <1>1, <1>3, ReceivingNow
<1>5. CASE /\ k < want /\ got' = all /\ want' = want - k
           /\ UNCHANGED <<fn, pc, stage, blockflag, resp, ret, sock, alarm, inSync, owed, taken>>
  BY <1>4, <1>5, PartRead
<1>6. CASE k = want /\ stage = "sync" /\ SyncRead(all)
  BY <1>4, <1>6, SyncFlows
<1>7. CASE k = want /\ stage = "header" /\ HeaderRead(all)
  BY <1>4, <1>7, HeaderFlows
<1>8. CASE k = want /\ stage = "data" /\ Return("data", FALSE) /\ owed' = 0 /\ UNCHANGED taken
  BY <1>4, <1>8, BodyFlows
<1> QED BY <1>2, <1>4, <1>5, <1>6, <1>7, <1>8
-----------------------------------------------------------------------------
(* The calls of an application that begin no receive.                      *)
LEMMA StaleFlows ==
  ASSUME FlowInv, StaleCall
  PROVE  FlowKept /\ PacketStep
<1>1. /\ UNCHANGED <<sock, link, iotimeout, hasHandler, fn, pc, stage, want, got, blockflag, resp, addr,
                     rx, coming, peer, made, owed, taken, inSync, sendFailed>>
      /\ ret' = "failed" /\ pc = "idle"
  BY DEF StaleCall, Free, config, netio, stream, history
<1>2. SameSocket
  BY <1>1 DEF SameSocket, Open
<1>3. Waiting'
  BY <1>1 DEF FlowInv, Waiting
<1>4. inSync => Excused'
  BY <1>1 DEF FlowInv, Excused
<1>5. /\ resp' \in {"none", "reply", "message"} /\ addr' \in 0..MaxAddr
      /\ ret' \in {"none", "got", "data", "sent", "failed"} /\ sendFailed' \in BOOLEAN
  BY <1>1 DEF FlowInv, FlowType
<1> QED BY <1>1, <1>2, <1>3, <1>4, <1>5, ElsewhereFlows

LEMMA SendPacketFlows ==
  ASSUME FlowInv, NEW r \in {"none", "reply"}, SendPacket(r)
  PROVE  FlowKept /\ PacketStep
<1>1. /\ UNCHANGED <<link, iotimeout, hasHandler, stage, want, got, blockflag, ret, addr,
                     rx, coming, peer, made, owed, taken, inSync, sendFailed>>
      /\ pc = "idle" /\ fn = "idle" /\ fn' = "sendpacket" /\ Open(link) /\ owed = 0
      /\ resp' = r /\ pc' = "send" /\ sock' = [sock EXCEPT ![link].blocking = TRUE]
  BY DEF SendPacket, SendBegins, Free, config, stream, history
<1>2. SameSocket
  BY <1>1, SameIfSwitched
<1>3. Waiting'
  BY <1>1, AtRest DEF Waiting
<1>4. inSync => Excused'
  BY <1>1 DEF Excused
<1>5. /\ resp' \in {"none", "reply", "message"} /\ addr' \in 0..MaxAddr
      /\ ret' \in {"none", "got", "data", "sent", "failed"} /\ sendFailed' \in BOOLEAN
  BY <1>1 DEF FlowInv, FlowType
<1> QED BY <1>1, <1>2, <1>3, <1>4, <1>5, ElsewhereFlows

LEMMA RecvHeaderFlows ==
  ASSUME FlowInv, NEW block \in BOOLEAN, RecvHeader(block)
  PROVE  FlowKept /\ PacketStep
<1>1. /\ UNCHANGED <<link, iotimeout, hasHandler, resp, ret, addr,
                     rx, coming, peer, made, owed, taken, inSync, sendFailed>>
      /\ pc = "idle" /\ fn = "idle" /\ Open(link) /\ owed = 0 /\ sock[link].blocking \in BOOLEAN
      /\ pc' = "recv" /\ stage' = "sync" /\ want' = 3 /\ got' = <<>>
      /\ sock' = [sock EXCEPT ![link].blocking = @ \/ block]
  <2>1. sock[link].blocking \in BOOLEAN
    BY LinkOpen DEF RecvHeader, FlowInv, SocketsInv, Socket
  <2> QED BY <2>1 DEF RecvHeader, RecvData, Free, config, stream, history
<1>2. SameSocket
  <2>1. PICK mode \in BOOLEAN : sock' = [sock EXCEPT ![link].blocking = mode]
    <3>1. (sock[link].blocking \/ block) \in BOOLEAN
      OBVIOUS
    <3>2. sock' = [sock EXCEPT ![link].blocking = (sock[link].blocking \/ block)]
      BY <1>1
    <3> QED BY <3>1, <3>2
  <2> QED BY <1>1, <2>1, SameIfSwitched
<1>3. inSync => Excused'
  BY <1>1 DEF FlowInv, Excused
<1>4. 3 \in Nat /\ resp' \in {"none", "reply", "message"} /\ sendFailed' \in BOOLEAN
  BY <1>1 DEF FlowInv, FlowType
<1>5. pc # "recv" /\ fn # "dead"
  BY <1>1
<1> QED BY <1>1, <1>2, <1>3, <1>4, <1>5, BeginsFlows

LEMMA RecvBodyFlows ==
  ASSUME FlowInv, RecvBody
  PROVE  FlowKept /\ PacketStep
<1>1. /\ UNCHANGED <<link, iotimeout, hasHandler, resp, ret, addr,
                     rx, coming, peer, made, owed, taken, inSync, sendFailed>>
      /\ pc = "idle" /\ fn = "idle" /\ Open(link) /\ owed > 0
      /\ pc' = "recv" /\ stage' = "data" /\ want' = owed /\ got' = <<>> /\ blockflag' = TRUE
      /\ sock' = [sock EXCEPT ![link].blocking = @ \/ TRUE]
  BY DEF RecvBody, RecvData, Free, config, stream, history
<1>2. sock' = [sock EXCEPT ![link].blocking = TRUE]
  BY <1>1
<1>3. SameSocket /\ sock'[link'].blocking = TRUE
  BY <1>1, <1>2, SameIfSwitched
<1>4. inSync => Excused'
  BY <1>1 DEF FlowInv, Excused
<1>5. owed \in Nat /\ resp' \in {"none", "reply", "message"} /\ sendFailed' \in BOOLEAN
  BY <1>1 DEF FlowInv, FlowType
<1>6. pc # "recv" /\ fn # "dead" /\ blockflag' /\ sock'[link'].blocking
  BY <1>1, <1>3
<1> QED BY <1>1, <1>3, <1>4, <1>5, <1>6, BeginsFlows
-----------------------------------------------------------------------------
(* A connection is given up, or there is none.                             *)
LEMMA ClosedFlows ==
  ASSUME FlowInv, inSync' = FALSE, ~Open(link)', UNCHANGED <<hasHandler, rx, coming, peer, made, taken>>,
         iotimeout' # 0 <=> iotimeout # 0, UNCHANGED <<sendFailed, stage, want, resp>>,
         ret' \in {"none", "got", "data", "sent", "failed"},
         got' \in {got, <<>>}, addr' \in 0..MaxAddr, owed' \in Nat, Waiting'
  PROVE  FlowKept /\ PacketStep
<1>1. got' \in Seq(Byte)
  <2>1. <<>> \in Seq(Byte)
    OBVIOUS
  <2> QED BY <2>1 DEF FlowInv, FlowType
<1>2. FlowType'
  BY <1>1 DEF FlowInv, FlowType
<1>3. Flow'
  <2>1. CASE got' = got
    <3>1. Ahead' = Ahead
      BY <2>1 DEF Ahead
    <3> QED BY <3>1 DEF FlowInv, Flow
  <2>2. CASE got' = <<>>
    BY <2>2, GivenUpFlows DEF Flow
  <2> QED BY <2>1, <2>2
<1>4. Timed'
  BY DEF Timed
<1>5. PacketStep
  BY StepClosed DEF Up
<1> QED BY <1>2, <1>3, <1>4, <1>5 DEF FlowKept

LEMMA DisconnectFlows ==
  ASSUME FlowInv, Disconnect
  PROVE  FlowKept /\ PacketStep
<1>1. /\ UNCHANGED <<hasHandler, rx, coming, peer, made, taken, iotimeout, sendFailed, stage, want, resp,
                     ret, got, addr, fn, pc>>
      /\ inSync' = FALSE /\ link' = 0 /\ owed' = 0 /\ pc = "idle"
  BY DEF Disconnect, Free, config, stream, netio
<1>2. ~Open(link)'
  BY <1>1 DEF Open
<1>3. Waiting'
  BY <1>1 DEF FlowInv, Waiting
<1>4. addr' \in 0..MaxAddr /\ ret' \in {"none", "got", "data", "sent", "failed"} /\ owed' \in Nat
  BY <1>1 DEF FlowInv, FlowType
<1> QED BY <1>1, <1>2, <1>3, <1>4, ClosedFlows

LEMMA ConnectFlows ==
  ASSUME FlowInv, Connect
  PROVE  FlowKept /\ PacketStep
<1>1. /\ UNCHANGED <<hasHandler, rx, coming, peer, made, taken, iotimeout, sendFailed, stage, want, resp,
                     ret, got, link, sock, owed>>
      /\ inSync' = FALSE /\ fn = "idle" /\ pc = "idle" /\ pc' = "socket" /\ fn' = "connect" /\ ~Open(link)
  BY DEF Connect, Free, config, stream, netio
<1>2. ~Open(link)'
  BY <1>1 DEF Open
<1>3. Waiting'
  BY <1>1, AtRest DEF Waiting
<1>4. addr' \in 0..MaxAddr
  <2>1. MaxAddr \in Nat /\ addr' \in 1..MaxAddr
    BY NetAssumption DEF Connect
  <2> QED BY <2>1
<1>5. ret' \in {"none", "got", "data", "sent", "failed"} /\ owed' \in Nat
  BY <1>1 DEF FlowInv, FlowType
<1> QED BY <1>1, <1>2, <1>3, <1>4, <1>5, ClosedFlows

LEMMA KillFlows ==
  ASSUME FlowInv, AlarmKills
  PROVE  FlowKept /\ PacketStep
<1>1. /\ UNCHANGED <<hasHandler, rx, coming, peer, made, taken, iotimeout, sendFailed, stage, want, resp,
                     ret, addr, link, owed>>
      /\ inSync' = FALSE /\ got' = <<>> /\ pc' = "idle" /\ fn' = "dead"
      /\ sock' = [s \in 1..MaxSockets |-> IF Open(s) THEN Closed ELSE sock[s]]
  BY DEF AlarmKills, config, stream
<1>2. ~Open(link)'
  <2>1. CASE link = 0
    BY <1>1, <2>1 DEF Open
  <2>2. CASE link # 0
    <3>1. link \in 1..MaxSockets
      BY <2>2 DEF FlowInv, SocketsInv, SocketType
    <3>2. sock'[link] = IF Open(link) THEN Closed ELSE sock[link]
      BY <1>1, <3>1
    <3>3. CASE Open(link)
      BY <1>1, <3>2, <3>3 DEF Open, Closed
    <3>4. CASE ~Open(link)
      BY <1>1, <2>2, <3>2, <3>4 DEF Open
    <3> QED BY <3>3, <3>4
  <2> QED BY <2>1, <2>2
<1>3. Waiting'
  BY <1>1 DEF Waiting
<1>4. /\ addr' \in 0..MaxAddr /\ ret' \in {"none", "got", "data", "sent", "failed"} /\ owed' \in Nat
  BY <1>1 DEF FlowInv, FlowType
<1> QED BY <1>1, <1>2, <1>3, <1>4, ClosedFlows

(* An address that is not connected to.                                    *)
LEMMA AddressFlows ==
  ASSUME FlowInv, AddressFails \/ NoSocket \/ ConnectFails
  PROVE  FlowKept /\ PacketStep
<1>1. /\ UNCHANGED <<hasHandler, rx, coming, peer, made, taken, sendFailed, stage, want, resp,
                     got, link, owed, inSync>>
      /\ pc = "socket" /\ pc' \in {"socket", "idle"} /\ ret' \in {ret, "failed"}
  BY DEF AddressFails, NoSocket, ConnectFails, config, stream, netio, history
<1>2. ~Open(link) /\ inSync' = FALSE /\ fn # "dead"
  BY <1>1 DEF FlowInv, FlowType, SocketsInv, Standing, Place
<1>3. ~Open(link)'
  <2>1. CASE sock' = sock
    BY <1>1, <1>2, <2>1 DEF Open
  <2>2. CASE sock' = [sock EXCEPT ![New] = Closed]
    <3>1. CASE link = 0
      BY <1>1, <3>1 DEF Open
    <3>2. CASE link # 0
      <4>1. link \in 1..MaxSockets /\ sock \in [1..MaxSockets -> Socket]
        BY <3>2 DEF FlowInv, SocketsInv, SocketType
      <4>2. sock'[link] = IF link = New THEN Closed ELSE sock[link]
        BY <2>2, <4>1
      <4> QED BY <1>1, <1>2, <3>2, <4>2 DEF Open, Closed
    <3> QED BY <3>1, <3>2
  <2> QED BY <2>1, <2>2 DEF AddressFails, NoSocket, ConnectFails
<1>4. iotimeout' # 0 <=> iotimeout # 0
  BY TimeoutUsed DEF AddressFails, NoSocket, ConnectFails, FlowInv, SocketsInv
<1>5. addr' \in 0..MaxAddr
  <2>1. MaxAddr \in Nat /\ addr \in 0..MaxAddr
    BY NetAssumption DEF FlowInv, FlowType
  <2>2. (addr > 0 /\ addr' = addr - 1) \/ addr' = 0
    BY DEF AddressFails, NoSocket, ConnectFails
  <2> QED BY <2>1, <2>2
<1>6. Waiting'
  BY <1>1, <1>2, AtRest DEF Waiting
<1>7. /\ ret' \in {"none", "got", "data", "sent", "failed"} /\ owed' \in Nat
  BY <1>1 DEF FlowInv, FlowType
<1> QED BY <1>1, <1>2, <1>3, <1>4, <1>5, <1>6, <1>7, ClosedFlows
-----------------------------------------------------------------------------
(* The alarm.                                                              *)
LEMMA AlarmFlows ==
  ASSUME FlowInv, AlarmInterrupts \/ AlarmLost
  PROVE  FlowKept /\ PacketStep
<1>1. alarm /\ iotimeout # 0
  BY AlarmForTimeout DEF AlarmInterrupts, AlarmLost
<1>2. CASE pc = "send" /\ SendFailed(FALSE)
  BY <1>1, <1>2, SendFailedFlows
<1>3. CASE Sleeping /\ RecvFails /\ UNCHANGED stream
  BY <1>1, <1>3, RecvFailsFlows DEF Sleeping, Empty
<1>4. CASE AlarmLost
  <2>1. /\ UNCHANGED <<sock, link, iotimeout, hasHandler, fn, pc, stage, want, got, blockflag, resp, ret,
                       addr, rx, coming, peer, made, owed, taken, inSync, sendFailed>>
    BY <1>4 DEF AlarmLost, config, netio, stream, history
  <2>2. SameSocket
    BY <2>1 DEF SameSocket, Open
  <2>3. Waiting'
    BY <2>1 DEF FlowInv, Waiting
  <2>4. /\ inSync => Excused'
        /\ inSync => pc' # "socket" /\ (pc' = "send" => owed = 0)
             /\ (pc' = "recv" => (stage = "data" <=> owed > 0) /\ (stage = "data" => Len(got) + want = owed))
    BY <2>1 DEF FlowInv, Excused, Place
  <2>5. /\ resp' \in {"none", "reply", "message"} /\ addr' \in 0..MaxAddr
        /\ ret' \in {"none", "got", "data", "sent", "failed"} /\ sendFailed' \in BOOLEAN
    BY <2>1 DEF FlowInv, FlowType
  <2> QED BY <2>1, <2>2, <2>3, <2>4, <2>5, ElsewhereFlows
<1> QED BY <1>2, <1>3, <1>4 DEF AlarmInterrupts
-----------------------------------------------------------------------------
(* An address that is connected to, or seems to be.                        *)
LEMMA OpensFlows ==
  ASSUME FlowInv, AddressOpens
  PROVE  FlowKept /\ PacketStep
<1>1. /\ UNCHANGED <<hasHandler, fn, stage, want, got, ret, addr, made, taken>>
      /\ pc = "socket" /\ pc' = "send" /\ resp' = "reply" /\ link' = New /\ New <= MaxSockets
      /\ iotimeout' = TimeoutNow /\ rx' = <<>> /\ coming' = <<>> /\ peer' = "up"
      /\ inSync' = TRUE /\ sendFailed' = FALSE /\ owed' = 0
  BY DEF AddressOpens, config
<1>2. PICK st \in {"connected", "connecting"} :
        /\ st = "connecting" => Timeo
        /\ sock' = [sock EXCEPT ![New] = [state |-> st, blocking |-> TRUE, timeo |-> Timeo]]
  BY DEF AddressOpens
<1>3. /\ sock'[link'].state = st /\ sock'[link'].timeo = Timeo /\ link' # 0
  <2>1. SocketType /\ InTurn
    BY DEF FlowInv, SocketsInv
  <2>2. New \in 1..MaxSockets /\ sock \in [1..MaxSockets -> Socket]
    BY <1>1, <2>1, NewSocket, NetAssumption DEF SocketType
  <2> QED BY <1>1, <1>2, <2>2
<1>4. Timeo => iotimeout # 0
  BY TimeoutUsed DEF FlowInv, SocketsInv
<1>5. iotimeout' # 0 <=> iotimeout # 0
  BY <1>1, TimeoutUsed DEF FlowInv, SocketsInv
<1>6. Timed'
  BY <1>2, <1>3, <1>4, <1>5 DEF Timed
<1>7. stage = "sync" /\ got = <<>> /\ want = 0
  BY <1>1, AtRest DEF FlowInv, SocketsInv, Standing
<1>8. Ahead' = <<>>
  <2>1. (<<>> \o <<>>) \o <<>> = <<>>
    OBVIOUS
  <2> QED BY <1>1, <1>7, <2>1 DEF Ahead
<1>9. FlowType'
  <2>1. <<>> \in Seq(Byte) /\ 0 \in Nat
    OBVIOUS
  <2> QED BY <1>1, <1>7, <2>1 DEF FlowInv, FlowType
<1>10. Flow'
  <2>1. Stream(<<>>, made) /\ Whole(<<>>, made)
    BY NothingListed, FlowNow
  <2> QED BY <1>1, <1>8, <2>1 DEF Flow
<1>11. Waiting'
  BY <1>1, <1>7 DEF Waiting
<1>12. Place' /\ Excused'
  BY <1>1, <1>7, <1>8 DEF Place, Excused, Begins
<1>13. Queue' = <<>>
  BY <1>8, NothingListed DEF Queue, ListOf
<1>14. Up'
  BY <1>1, <1>2, <1>3 DEF Up, Open
<1>15. PacketStep
  BY <1>1, <1>5, <1>13, <1>14, StepConnected
<1> QED BY <1>6, <1>9, <1>10, <1>11, <1>12, <1>15 DEF FlowKept
-----------------------------------------------------------------------------
(* The other side.                                                         *)
LEMMA LateFlows ==
  ASSUME FlowInv, LateConnect
  PROVE  FlowKept /\ PacketStep
<1>1. /\ UNCHANGED <<link, iotimeout, hasHandler, fn, pc, stage, want, got, blockflag, resp, ret,
                     addr, rx, coming, peer, made, owed, taken, inSync, sendFailed>>
      /\ Open(link) /\ sock[link].state = "connecting" /\ sock' = [sock EXCEPT ![link].state = "connected"]
  BY DEF LateConnect, config, netio, stream, history
<1>2. link \in 1..MaxSockets /\ sock[link] \in Socket /\ sock \in [1..MaxSockets -> Socket] /\ link # 0
  BY <1>1, LinkOpen DEF FlowInv, SocketsInv, SocketType, Open
<1>3. sock'[link].state = "connected" /\ sock'[link].blocking = sock[link].blocking
  BY <1>1, <1>2
<1>4. Open(link)'
  BY <1>1, <1>2, <1>3 DEF Open
<1>5. iotimeout # 0
  BY <1>1, AlarmForTimeout
<1>6. Timed'
  BY <1>1, <1>5 DEF Timed
<1>7. Waiting'
  BY <1>1, <1>3 DEF FlowInv, Waiting
<1>8. /\ inSync => Excused'
      /\ inSync => pc' # "socket" /\ (pc' = "send" => owed = 0)
           /\ (pc' = "recv" => (stage = "data" <=> owed > 0) /\ (stage = "data" => Len(got) + want = owed))
  BY <1>1 DEF FlowInv, Excused, Place
<1>9. /\ resp' \in {"none", "reply", "message"} /\ addr' \in 0..MaxAddr
      /\ ret' \in {"none", "got", "data", "sent", "failed"} /\ sendFailed' \in BOOLEAN
      /\ rx' \in Seq(Byte) /\ coming' \in Seq(Byte)
  BY <1>1 DEF FlowInv, FlowType
<1>10. Ahead' = Ahead
  BY <1>1 DEF Ahead
<1>11. Open(link)' <=> Open(link)
  BY <1>1, <1>4
<1> QED BY <1>1, <1>6, <1>7, <1>8, <1>9, <1>10, <1>11, AheadFlows

LEMMA OnWireUp ==
  ASSUME FlowInv, OnWire
  PROVE  Open(link) /\ Up /\ peer = "up"
  BY DEF OnWire, Open, Up

LEMMA ArriveFlows ==
  ASSUME FlowInv, Arrive
  PROVE  FlowKept /\ PacketStep
<1>1. /\ UNCHANGED <<sock, link, iotimeout, hasHandler, fn, pc, stage, want, got, blockflag, resp, ret,
                     addr, peer, made, owed, taken, inSync, sendFailed>>
  BY DEF Arrive, config, netio, history
<1>2. PICK k \in 1..Len(coming) :
        rx' = rx \o SubSeq(coming, 1, k) /\ coming' = SubSeq(coming, k + 1, Len(coming))
  BY DEF Arrive
<1>3. got \in Seq(Byte) /\ rx \in Seq(Byte) /\ coming \in Seq(Byte) /\ k \in 0..Len(coming)
  BY FlowNow
<1>4. PICK a, b : /\ a = SubSeq(coming, 1, k) /\ b = SubSeq(coming, k + 1, Len(coming))
                  /\ a \in Seq(Byte) /\ b \in Seq(Byte) /\ a \o b = coming
  <2>1. PICK a : a = SubSeq(coming, 1, k)
    OBVIOUS
  <2>2. PICK b : b = SubSeq(coming, k + 1, Len(coming))
    OBVIOUS
  <2>3. a \in Seq(Byte) /\ b \in Seq(Byte) /\ a \o b = coming
    BY <1>3, <2>1, <2>2, PartsJoined
  <2> QED BY <2>1, <2>2, <2>3, Zenon
<1>5. rx' = rx \o a /\ coming' = b /\ rx \o a \in Seq(Byte) /\ got \o rx \in Seq(Byte)
  BY <1>2, <1>3, <1>4, Joined
<1>6. Ahead' = Ahead
  <2>1. got \o (rx \o a) = (got \o rx) \o a
    BY <1>3, <1>4, JoinedAgain, ZenonT(30)
  <2>2. ((got \o rx) \o a) \o b = (got \o rx) \o (a \o b)
    BY <1>4, <1>5, JoinedAgain, ZenonT(30)
  <2>3. Ahead' = (got \o (rx \o a)) \o b
    BY <1>1, <1>5 DEF Ahead
  <2> QED BY <1>4, <2>1, <2>2, <2>3 DEF Ahead
<1>7. (Open(link)' <=> Open(link)) /\ SameSocket
  BY <1>1 DEF Open, SameSocket
<1>8. Timed'
  BY <1>7, TimedKept
<1>9. Waiting'
  BY <1>1 DEF FlowInv, Waiting
<1>10. /\ inSync => Excused'
       /\ inSync => pc' # "socket" /\ (pc' = "send" => owed = 0)
            /\ (pc' = "recv" => (stage = "data" <=> owed > 0) /\ (stage = "data" => Len(got) + want = owed))
  BY <1>1 DEF FlowInv, Excused, Place
<1>11. /\ resp' \in {"none", "reply", "message"} /\ addr' \in 0..MaxAddr
       /\ ret' \in {"none", "got", "data", "sent", "failed"} /\ sendFailed' \in BOOLEAN
       /\ rx' \in Seq(Byte) /\ coming' \in Seq(Byte)
  BY <1>1, <1>4, <1>5 DEF FlowInv, FlowType
<1> QED BY <1>1, <1>6, <1>7, <1>8, <1>9, <1>10, <1>11, AheadFlows

LEMMA ServerClosesFlows ==
  ASSUME FlowInv, ServerCloses
  PROVE  FlowKept /\ PacketStep
<1>1. /\ UNCHANGED <<sock, link, iotimeout, hasHandler, fn, pc, stage, want, got, blockflag, resp, ret,
                     addr, made, owed, taken, inSync, sendFailed>>
      /\ coming' = <<>> /\ peer' \in {"fin", "reset"} /\ rx' \in {rx, <<>>}
      /\ OnWire
  BY DEF ServerCloses, config, netio, history
<1>2. Up /\ Open(link)
  BY <1>1, OnWireUp
<1>3. PICK t : t = Ahead'
  OBVIOUS
<1>4. PartOf(t, Ahead, 0)
  <2>1. /\ Ahead = (got \o rx) \o coming
        /\ got \in Seq(Byte) /\ rx \in Seq(Byte) /\ coming \in Seq(Byte)
    BY FlowNow
  <2>2. /\ (got \o rx) \o coming \in Seq(Byte)
        /\ PartOf((<<>> \o rx) \o coming, (got \o rx) \o coming, Len(got))
        /\ Len(got) + Len((<<>> \o rx) \o coming) = Len((got \o rx) \o coming)
        /\ PartOf((got \o rx) \o <<>>, (got \o rx) \o coming, 0)
        /\ PartOf((got \o <<>>) \o <<>>, (got \o rx) \o coming, 0)
    BY <2>1, GivenUp, Zenon
  <2>3. t = (got \o rx) \o <<>> \/ t = (got \o <<>>) \o <<>>
    BY <1>1, <1>3 DEF Ahead
  <2> QED BY <2>1, <2>2, <2>3
<1>5. Stream(Ahead, made) /\ made \in Nat
  BY FlowNow
<1>6. Stream(t, made)
  BY <1>4, <1>5, PartStream
<1>7. Flow'
  BY <1>1, <1>3, <1>6 DEF Flow
<1>8. FlowType'
  <2>1. <<>> \in Seq(Byte)
    OBVIOUS
  <2>2. rx' \in Seq(Byte) /\ coming' \in Seq(Byte)
    BY <1>1, <2>1 DEF FlowInv, FlowType
  <2> QED BY <1>1, <2>2 DEF FlowInv, FlowType
<1>9. Waiting'
  BY <1>1 DEF FlowInv, Waiting
<1>10. Timed'
  BY <1>1, TimedKept DEF SameSocket, Open
<1>11. (inSync => Place /\ Excused)'
  <2>1. SUFFICES ASSUME inSync PROVE Place' /\ Excused'
    BY <1>1
  <2>2. t # <<>> => Ahead # <<>> /\ t[1] = Ahead[1]
    <3>1. SUFFICES ASSUME t # <<>> PROVE Ahead # <<>> /\ t[1] = Ahead[1]
      OBVIOUS
    <3>2. t \in Seq(Byte) /\ Ahead \in Seq(Byte)
      BY <1>5, <1>6 DEF Stream
    <3>3. 1 \in 1..Len(t) /\ 0 + 1 = 1
      BY <3>1, <3>2
    <3>4. t[0 + 1 - 0] = Ahead[0 + 1] /\ 0 + Len(t) <= Len(Ahead)
      BY <1>4, <3>3 DEF PartOf
    <3>5. Ahead # <<>>
      BY <3>2, <3>3, <3>4
    <3> QED BY <3>3, <3>4, <3>5
  <2>3. Begins(Ahead, stage, owed, Len(got) + want)
    BY <2>1 DEF FlowInv, Place
  <2>4. Begins(Ahead', stage', owed', Len(got') + want')
    BY <1>1, <1>3, <2>2, <2>3 DEF Begins
  <2>5. Place'
    BY <1>1, <2>1, <2>4 DEF FlowInv, Place
  <2> QED BY <1>1, <2>5 DEF Excused
<1>12. ~Up'
  BY <1>1 DEF Up
<1>13. PacketStep
  <2>1. CASE inSync
    <3>1. PICK k \in 0..Len(ListOf(Ahead)) : ListOf(t) = SubSeq(ListOf(Ahead), 1, k)
      BY <1>4, <1>5, ListCut
    <3>2. Queue = ListOf(Ahead) /\ Queue' = ListOf(t)
      BY <1>1, <1>3, <2>1 DEF Queue, ListOf
    <3>3. k \in 0..Len(Queue) /\ Queue' = SubSeq(Queue, 1, k)
      BY <3>1, <3>2
    <3> QED BY <1>1, <1>2, <1>12, <3>3, StepGone
  <2>2. CASE ~inSync
    <3>1. Queue = <<>> /\ Queue' = <<>>
      BY <1>1, <2>2 DEF Queue
    <3>2. 0 \in 0..Len(Queue) /\ Queue' = SubSeq(Queue, 1, 0)
      BY <3>1
    <3> QED BY <1>1, <1>2, <1>12, <3>2, StepGone
  <2> QED BY <2>1, <2>2
<1> QED BY <1>7, <1>8, <1>9, <1>10, <1>11, <1>13 DEF FlowKept

LEMMA ServerSendsFlows ==
  ASSUME FlowInv, ServerSends
  PROVE  FlowKept /\ PacketStep
<1>1. /\ UNCHANGED <<sock, link, iotimeout, hasHandler, fn, pc, stage, want, got, blockflag, resp, ret,
                     addr, rx, peer, owed, taken, inSync, sendFailed>>
      /\ OnWire /\ coming = <<>> /\ made < MaxPackets /\ made' = made + 1
  BY DEF ServerSends, config, netio, history
<1>2. Up /\ Open(link) /\ peer = "up"
  BY <1>1, OnWireUp
<1>3. Stream(Ahead, made) /\ made \in Nat /\ Whole(Ahead, made) /\ owed \in Nat
  BY <1>2, FlowNow DEF FlowInv, Flow
<1>4. PICK p \in Packet : p.n = made + 1 /\ coming' = Bytes(p)
  <2>1. PICK h \in Headers, b \in Bodies : coming' = Bytes([n |-> made + 1, h |-> h, b |-> b])
    BY DEF ServerSends
  <2>2. made + 1 \in 1..MaxPackets
    BY <1>1, <1>3, NetAssumption
  <2>3. [n |-> made + 1, h |-> h, b |-> b] \in Packet
    BY <2>2 DEF Packet
  <2> QED BY <2>1, <2>3
<1>5. PICK t : t = Ahead \o Bytes(p)
  OBVIOUS
<1>6. Ahead' = t
  <2>1. got \in Seq(Byte) /\ rx \in Seq(Byte)
    BY FlowNow
  <2>2. got \o rx \in Seq(Byte)
    BY <2>1, Joined
  <2>3. Ahead = got \o rx
    BY <1>1, <2>2, ConcatEmptySeq DEF Ahead
  <2> QED BY <1>1, <1>4, <1>5, <2>3 DEF Ahead
<1>7. Stream(t, made + 1) /\ Whole(t, made + 1)
  BY <1>3, <1>4, <1>5, PacketAppended
<1>8. Flow'
  BY <1>1, <1>6, <1>7 DEF Flow
<1>9. Bytes(p) \in Seq(Byte) /\ 1 \in 1..Len(Bytes(p)) /\ Bytes(p)[1].at = 1
  BY PacketBytes
<1>10. FlowType'
  <2>1. made' \in Nat
    BY <1>1, <1>3
  <2> QED BY <1>1, <1>4, <1>9, <2>1 DEF FlowInv, FlowType
<1>11. Waiting'
  BY <1>1 DEF FlowInv, Waiting
<1>12. Timed'
  BY <1>1, TimedKept DEF SameSocket, Open
<1>13. /\ t # <<>>
       /\ Ahead # <<>> => t[1] = Ahead[1]
       /\ Ahead = <<>> => t[1].at = 1
  <2>1. Ahead \in Seq(Byte)
    BY <1>3 DEF Stream
  <2>2. Ahead # <<>> => t[1] = Ahead[1]
    <3>1. Ahead # <<>> => 1 \in 1..Len(Ahead)
      BY <2>1
    <3> QED BY <1>5, <1>9, <2>1, <3>1, Joined
  <2>3. Ahead = <<>> => t = Bytes(p)
    BY <1>5, <1>9, ConcatEmptySeq
  <2>4. t # <<>>
    <3>1. Len(t) = Len(Ahead) + Len(Bytes(p))
      BY <1>5, <1>9, <2>1, Joined
    <3>2. Len(t) > 0
      BY <1>9, <2>1, <3>1
    <3> QED BY <3>2
  <2> QED BY <1>9, <2>2, <2>3, <2>4
<1>14. (inSync => Place /\ Excused)'
  <2>1. SUFFICES ASSUME inSync PROVE Place' /\ Excused'
    BY <1>1
  <2>2. /\ Begins(Ahead, stage, owed, Len(got) + want)
        /\ stage = "header" \/ owed > 0 => Ahead # <<>>
    BY <1>2, <2>1 DEF FlowInv, Place
  <2>3. Ahead = <<>> => stage # "header" /\ owed = 0
    BY <1>3, <2>2
  <2>4. Begins(t, stage, owed, Len(got) + want)
    BY <1>13, <2>2, <2>3 DEF Begins
  <2>5. Begins(Ahead', stage', owed', Len(got') + want')
    BY <1>1, <1>6, <2>4
  <2>6. Place'
    BY <1>1, <1>6, <1>13, <2>1, <2>5 DEF FlowInv, Place
  <2> QED BY <1>1, <2>1, <2>6 DEF FlowInv, Excused
<1>15. Up'
  BY <1>1, <1>2 DEF Up, Open
<1>16. PacketStep
  <2>1. CASE inSync
    <3>1. ListOf(t) = Append(ListOf(Ahead), p)
      BY <1>3, <1>4, <1>5, ListSent
    <3>2. Queue' = Append(Queue, p)
      BY <1>1, <1>6, <2>1, <3>1 DEF Queue, ListOf
    <3> QED BY <1>1, <1>2, <1>15, <2>1, <3>2, StepArrives
  <2>2. CASE ~inSync
    <3>1. Queue' = Queue
      BY <1>1, <2>2 DEF Queue
    <3> QED BY <1>1, <1>2, <1>15, <3>1, StepStays
  <2> QED BY <2>1, <2>2
<1> QED BY <1>8, <1>10, <1>11, <1>12, <1>14, <1>16 DEF FlowKept
-----------------------------------------------------------------------------
LEMMA StutterFlows ==
  ASSUME FlowInv, UNCHANGED vars
  PROVE  FlowKept /\ PacketStep
<1>1. /\ UNCHANGED <<sock, link, iotimeout, hasHandler, fn, pc, stage, want, got, blockflag, resp, ret,
                     addr, rx, coming, peer, made, owed, taken, inSync, sendFailed>>
  BY DEF vars, config, netio, stream, history
<1>2. SameSocket
  BY <1>1 DEF SameSocket, Open
<1>3. Waiting'
  BY <1>1 DEF FlowInv, Waiting
<1>4. /\ inSync => Excused'
      /\ inSync => pc' # "socket" /\ (pc' = "send" => owed = 0)
           /\ (pc' = "recv" => (stage = "data" <=> owed > 0) /\ (stage = "data" => Len(got) + want = owed))
  BY <1>1 DEF FlowInv, Excused, Place
<1>5. /\ resp' \in {"none", "reply", "message"} /\ addr' \in 0..MaxAddr
      /\ ret' \in {"none", "got", "data", "sent", "failed"} /\ sendFailed' \in BOOLEAN
  BY <1>1 DEF FlowInv, FlowType
<1> QED BY <1>1, <1>2, <1>3, <1>4, <1>5, ElsewhereFlows

LEMMA NextFlows ==
  ASSUME FlowInv, [Next]_vars
  PROVE  FlowInv' /\ PacketStep
<1>1. SocketsInv'
  BY NextKeepsSockets DEF FlowInv
<1>2. FlowKept /\ PacketStep
  <2>1. CASE UNCHANGED vars
    BY <2>1, StutterFlows
  <2>2. CASE \/ Connect \/ Disconnect \/ StaleCall \/ RecvBody
             \/ \E block \in BOOLEAN : RecvHeader(block)
             \/ \E r \in {"none", "reply"} : SendPacket(r)
    BY <2>2, ConnectFlows, DisconnectFlows, StaleFlows, RecvBodyFlows, RecvHeaderFlows, SendPacketFlows,
       Zenon
  <2>3. CASE CallStep
    BY <2>3, SendFlows, RecvBytesFlows, NoDataFlows, AddressFlows, OpensFlows, Zenon DEF CallStep
  <2>4. CASE AlarmInterrupts \/ AlarmLost \/ AlarmKills
    BY <2>4, AlarmFlows, KillFlows
  <2>5. CASE LateConnect \/ ServerSends \/ Arrive \/ ServerCloses
    BY <2>5, LateFlows, ServerSendsFlows, ArriveFlows, ServerClosesFlows
  <2> QED BY <2>1, <2>2, <2>3, <2>4, <2>5, Zenon DEF Next
<1> QED BY <1>1, <1>2, Zenon DEF FlowInv, FlowKept

LEMMA InitFlows ==
  ASSUME Init, SocketsInv
  PROVE  FlowInv /\ PIO!Init
<1>1. MaxAddr \in Nat
  BY NetAssumption
<1>2. FlowType
  <2>1. <<>> \in Seq(Byte) /\ 0 \in Nat /\ addr \in 0..MaxAddr
    BY <1>1 DEF Init
  <2> QED BY <2>1 DEF Init, FlowType
<1>3. Ahead = <<>>
  <2>1. (<<>> \o <<>>) \o <<>> = <<>>
    OBVIOUS
  <2> QED BY <2>1 DEF Init, Ahead
<1>4. Flow
  <2>1. Stream(<<>>, 0)
    BY NothingListed
  <2> QED BY <1>3, <2>1 DEF Init, Flow
<1>5. Waiting /\ Timed /\ ~inSync /\ ~Open(link)
  BY DEF Init, Waiting, Timed, Open
<1>6. Queue = <<>>
  BY <1>5 DEF Queue
<1> QED BY <1>2, <1>4, <1>5, <1>6 DEF FlowInv, PIO!Init, Init

(* FlowInv holds of every state: the bytes that are read, have arrived and *)
(* are to arrive are those of the packets sent, without a gap, and a call  *)
(* in sync takes the next of them for what it is.                          *)
THEOREM FlowInvariance == Spec => []FlowInv
<1>1. Init => FlowInv
  BY SocketsInit, InitFlows
<1>2. FlowInv /\ [Next]_vars => FlowInv'
  BY NextFlows
<1> QED BY <1>1, <1>2, PTL DEF Spec

(* Type correctness: what dl_recvdata() counts never becomes negative, and *)
(* the length of a header or a body is taken from the bytes that hold it.  *)
THEOREM NetTypeCorrect == Spec => []NetTypeOK
<1>1. FlowInv => NetTypeOK
  BY DEF FlowInv, FlowType, SocketsInv, SocketType, Standing, Socket, NetTypeOK
<1> QED BY <1>1, FlowInvariance, PTL

(* NetIO implements PacketIO: until a call has failed, dl_recvheader()     *)
(* returns each packet's header whole, once and in the order of the        *)
(* server, however its bytes arrive and are read; and while both sides     *)
(* hold the connection and no timeout is set, no call fails.               *)
THEOREM PacketsInOrder == Spec => ImplementsPacketIO
<1>1. Init => PIO!Init
  BY SocketsInit, InitFlows
<1>2. FlowInv /\ [Next]_vars => [PIO!Next]_(PIO!vars)
  BY NextFlows DEF PacketStep
<1> QED BY <1>1, <1>2, FlowInvariance, PTL DEF Spec, ImplementsPacketIO, PIO!Spec
=============================================================================
