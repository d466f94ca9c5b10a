------------------------------ MODULE Dalitool ------------------------------
(***************************************************************************)
(* dalitool as a program that is started, stopped, killed and started      *)
(* again with the same state file and output file: main() and the options  *)
(* of src/src/dalitool.c that decide its course, packet_handler() of       *)
(* common.c, the state file (StateFile), and a DataLink server as main()   *)
(* relies on it (external).                                                *)
(*                                                                         *)
(* The calls of libdali are taken at the level of what they return, which  *)
(* is what main() looks at; how they come to it is the matter of DaliConn. *)
(* A packet is its ID and its time.  The server numbers packets as they    *)
(* arrive, keeps the last RingSize of them, and starts again from ID 1     *)
(* when it loses its ring; times only grow, so a time names a packet.  As  *)
(* with times in microseconds, a time pieced together from the digits of   *)
(* two others is no packet's (TimeStep).                                   *)
(***************************************************************************)
EXTENDS StateFile, Integers

CONSTANTS
  Address,      \* the server's address, a sequence of cells
  Texts,        \* what the state file may hold before the first session
  Modes,        \* what the program is asked to do: "collect", "info", "console"
  Repeats,      \* the values of repeatint
  Second,       \* DLTMODULUS: ticks of the clock in a second
  IntMax,       \* the largest value of an int
  FirstID, FirstTime,   \* the first packet
  TimeStep,     \* from the time of a packet to that of the next
  RingSize,     \* the packets a server keeps
  MaxPackets,   \* bound: packets the server receives
  MaxRestarts,  \* bound: times the server loses its ring
  MaxSessions,  \* bound: times the program is started
  MaxClock,     \* bound: ticks of the clock in a session
  MaxPolls,     \* bound: INFO requests in a session
  MaxFaults     \* bound: crashes, short writes and failed writes

(* A text is a sequence of cells, and the address one of neither spaces    *)
(* nor newlines.                                                           *)
ASSUME TextAssumption ==
  /\ \A t \in Texts \cup {Address} : t \in Seq(Cells(t))
  /\ Address # <<>> /\ {SP, NL} \cap Cells(Address) = {}

ASSUME DalitoolAssumption ==
  /\ Modes \subseteq {"collect", "info", "console"} /\ Modes # {}
  /\ Repeats \subseteq Nat /\ 0 \in Repeats /\ Second \in Nat \ {0} /\ IntMax \in Nat \ {0}
  /\ {FirstID, FirstTime, TimeStep} \subseteq Nat \ {0} /\ RingSize \in Nat \ {0}
  /\ {MaxPackets, MaxRestarts, MaxSessions, MaxClock, MaxPolls, MaxFaults} \subseteq Nat

VARIABLES
  ring,      \* server: the packets it keeps, oldest first
  made,      \* server: packets it has received
  serial,    \* server: the ID of the last of them
  restarts,  \* server: times it has lost its ring
  reader,    \* the read position of this connection: the time of the last
             \* packet it is past; Broken when the connection is lost
  pc,        \* where main() stands; "off" between two sessions
  mode, repeatint,
  pktid, pkttime, terminate,   \* fields of the DLCP
  pkt,       \* dlpacket: the packet whose data is being received
  clock, next, polls,  \* INFO: the time, the time of the next request, requests made
  file,      \* the state file
  kept,      \* history: the position last saved with its line complete
  last,      \* history: the last packet handled, by its time
  sent,      \* history: all that were handled, or shown by the console
  resumed,   \* history: this session has a packet to go on from, by its
             \* position or because it has handled one
  browsed,   \* history: a READ of the console has moved the position
  sessions, faults

server  == <<ring, made, serial, restarts>>
dlconn  == <<pktid, pkttime, terminate>>
info    == <<clock, next, polls>>
options == <<mode, repeatint>>
history == <<kept, last, sent, resumed, browsed>>
bounds  == <<sessions, faults>>
vars    == <<server, reader, pc, options, dlconn, pkt, info, file, history, bounds>>

Broken   == -1
NoPacket == [id |-> 0, time |-> 0]
Times(r) == {r[i].time : i \in 1..Len(r)}
TimeOf(n) == FirstTime + (n - 1) * TimeStep
Packets  == [id : Nat, time : Nat]

DalitoolTypeOK ==
  /\ ring \in Seq(Packets) /\ made \in 0..MaxPackets /\ serial \in Nat
  /\ Len(ring) <= RingSize /\ reader \in Int
  /\ pc \in {"off", "recover", "connect", "position", "match", "reject", "mode",
             "info", "console", "collect", "body", "handle", "shutdown", "save"}
  /\ mode \in Modes /\ repeatint \in Repeats
  /\ pktid \in Nat /\ pkttime \in Nat /\ terminate \in BOOLEAN
  /\ pkt \in Packets /\ clock \in 0..MaxClock /\ next \in Int /\ polls \in Nat
  /\ file.exists \in BOOLEAN /\ last \in Nat
  /\ {resumed, browsed} \subseteq BOOLEAN

(* No process runs: what it would keep is as at its start.                 *)
Off ==
  /\ pc = "off" /\ reader = Broken /\ mode = (CHOOSE m \in Modes : TRUE) /\ repeatint = 0
  /\ pktid = 0 /\ pkttime = 0 /\ terminate = FALSE /\ pkt = NoPacket
  /\ clock = 0 /\ next = 0 /\ polls = 0 /\ resumed = FALSE

Init ==
  /\ Off
  /\ ring = <<>> /\ made = 0 /\ serial = FirstID - 1 /\ restarts = 0
  /\ file \in {NoFile} \cup {FileOf(t) : t \in Texts}
  /\ kept = NoPacket /\ last = 0 /\ sent = {} /\ browsed = FALSE
  /\ sessions = 0 /\ faults = 0

\* The process ends, with everything it kept.
Ends ==
  /\ pc' = "off" /\ reader' = Broken /\ mode' = (CHOOSE m \in Modes : TRUE) /\ repeatint' = 0
  /\ pktid' = 0 /\ pkttime' = 0 /\ terminate' = FALSE /\ pkt' = NoPacket
  /\ clock' = 0 /\ next' = 0 /\ polls' = 0 /\ resumed' = FALSE

Goto(from, to) == pc = from /\ pc' = to

-----------------------------------------------------------------------------
(* The server.  A packet beyond RingSize drives out the oldest.            *)
NewPacket ==
  /\ made < MaxPackets
  /\ LET all == Append(ring, [id |-> serial + 1, time |-> TimeOf(made + 1)])
     IN  ring' = IF Len(all) > RingSize THEN Tail(all) ELSE all
  /\ made' = made + 1 /\ serial' = serial + 1
  /\ UNCHANGED <<restarts, reader, pc, options, dlconn, pkt, info, file, history, bounds>>

(* Its ring is lost, IDs start again, and the connection with it.          *)
ServerRestart ==
  /\ restarts < MaxRestarts /\ ring # <<>>
  /\ ring' = <<>> /\ serial' = 0 /\ restarts' = restarts + 1 /\ reader' = Broken
  /\ UNCHANGED <<made, pc, options, dlconn, pkt, info, file, history, bounds>>

-----------------------------------------------------------------------------
(* Starting.  parameter_proc() makes a new DLCP and reads the state file,  *)
(* which may not exist; main() exits if it cannot be read.  The clock is   *)
(* that of the INFO loop, where next starts as the present time.           *)
Start ==
  /\ sessions < MaxSessions /\ Goto("off", "recover") /\ sessions' = sessions + 1
  /\ mode' \in Modes /\ repeatint' \in IF mode' = "info" THEN Repeats ELSE {0}
  /\ UNCHANGED <<server, reader, dlconn, pkt, info, file, history, faults>>

(* Mutant of RecoverState: without a line the packet ID is set to -1.      *)
RecoverState_ResetsID ==
  /\ Goto("recover", "connect")
  /\ LET lines == Recovered(file.text, Address)
     IN  IF lines = {} THEN pktid' = -1 /\ pkttime' = 0
         ELSE \E l \in lines : pktid' = l.id /\ pkttime' = l.time
  /\ UNCHANGED <<server, reader, options, terminate, pkt, info, file, history, bounds>>

RecoverState ==
  /\ Goto("recover", "connect")
  /\ LET lines == Recovered(file.text, Address)
     IN  IF lines = {} THEN UNCHANGED <<pktid, pkttime>>
         ELSE \E l \in lines : pktid' = l.id /\ pkttime' = l.time
  /\ UNCHANGED <<server, reader, options, terminate, pkt, info, file, history, bounds>>

(* main() returns -1 before the collection, and leaves the state file as   *)
(* it is: a file that cannot be read, no connection, a request that fails. *)
GivesUp ==
  /\ pc \in {"recover", "connect", "position", "match", "reject"} /\ Ends
  /\ UNCHANGED <<server, file, kept, last, sent, browsed, bounds>>

(* A connection reads from the latest packet unless it is positioned.      *)
Connect ==
  /\ Goto("connect", "position") /\ reader' = TimeOf(made)
  /\ UNCHANGED <<server, options, dlconn, pkt, info, file, history, bounds>>

(* Mutant of OnServer: the command names the ID alone.                     *)
OnServer_ByID(id, time) == \E i \in 1..Len(ring) : ring[i].id = id

(* "POSITION SET id time": the server has a packet with both.  Whether it  *)
(* sends that packet or the one after it first is its choice.              *)
OnServer(id, time) == [id |-> id, time |-> time] \in {ring[i] : i \in 1..Len(ring)}

(* main() sends POSITION if a packet ID was recovered.  A packet that is   *)
(* not found is a reply with the value 0, which is no error to main().     *)
PositionSet ==
  /\ Goto("position", "match") /\ reader # Broken /\ pktid > 0
  /\ IF OnServer(pktid, pkttime)
     THEN \E i \in 1..Len(ring) :
            /\ ring[i].id = pktid
            /\ reader' \in {ring[i].time - 1, ring[i].time} /\ resumed' = TRUE
     ELSE UNCHANGED <<reader, resumed>>
  /\ UNCHANGED <<server, options, dlconn, pkt, info, file, kept, last, sent, browsed, bounds>>

NoPosition ==
  /\ Goto("position", "match") /\ pktid <= 0
  /\ UNCHANGED <<server, reader, options, dlconn, pkt, info, file, history, bounds>>

(* MATCH and REJECT are sent if there is a pattern.                        *)
Subscribe ==
  /\ Goto("match", "reject") \/ Goto("reject", mode)
  /\ UNCHANGED <<server, reader, options, dlconn, pkt, info, file, history, bounds>>

-----------------------------------------------------------------------------
(* INFO polling.  The product of two ints wraps.                           *)
Wrap(n)  == ((n + IntMax + 1) % (2 * IntMax + 2)) - IntMax - 1
Interval == Wrap(repeatint * Second)

(* Mutant of NextRequest: a late request does not delay the ones after it  *)
(* and is followed at once by another.                                     *)
NextRequest_Hurries(due) == IF due < clock THEN clock ELSE due - 1

NextRequest(due) == IF due < clock THEN clock + Interval ELSE due

InfoRequest ==
  /\ pc = "info" /\ ~terminate /\ reader # Broken /\ clock >= next /\ polls < MaxPolls
  /\ polls' = polls + 1 /\ next' = NextRequest(next + Interval)
  /\ pc' = IF repeatint = 0 THEN "shutdown" ELSE "info"
  /\ UNCHANGED <<server, reader, options, dlconn, pkt, clock, file, history, bounds>>

InfoFails ==
  /\ pc = "info" /\ ~terminate /\ clock >= next /\ Ends
  /\ UNCHANGED <<server, file, kept, last, sent, browsed, bounds>>

InfoTerminated ==
  /\ Goto("info", "shutdown") /\ terminate
  /\ UNCHANGED <<server, reader, options, dlconn, pkt, info, file, history, bounds>>

(* Time passes, in the sleep of 1/10 second or in a request.               *)
Tick ==
  /\ pc = "info" /\ clock < MaxClock /\ clock' = clock + 1
  /\ UNCHANGED <<server, reader, pc, options, dlconn, pkt, next, polls, file, history, bounds>>

-----------------------------------------------------------------------------
(* Collection.  dl_collect() reads the header of a packet, then its data,  *)
(* and only then takes its position into the DLCP.                         *)
NextUp == {i \in 1..Len(ring) : ring[i].time > reader}

(* Mutant of CollectHeader: the position is taken with the header.         *)
CollectHeader_TakesPosition ==
  /\ Goto("collect", "body") /\ ~terminate /\ reader # Broken /\ NextUp # {}
  /\ LET i == CHOOSE i \in NextUp : \A j \in NextUp : i <= j
     IN  pkt' = ring[i] /\ reader' = ring[i].time /\ pktid' = ring[i].id /\ pkttime' = ring[i].time
  /\ UNCHANGED <<server, options, terminate, info, file, history, bounds>>

CollectHeader ==
  /\ Goto("collect", "body") /\ ~terminate /\ reader # Broken /\ NextUp # {}
  /\ LET i == CHOOSE i \in NextUp : \A j \in NextUp : i <= j
     IN  pkt' = ring[i] /\ reader' = ring[i].time
  /\ UNCHANGED <<server, options, dlconn, info, file, history, bounds>>

CollectBody ==
  /\ Goto("body", "handle") /\ pktid' = pkt.id /\ pkttime' = pkt.time
  /\ UNCHANGED <<server, reader, options, terminate, pkt, info, file, history, bounds>>

(* dl_collect() returns DLENDED or DLERROR: it was told to terminate, or   *)
(* the connection failed, maybe in the data of a packet.                   *)
CollectEnds ==
  /\ pc \in {"collect", "body"} /\ pc' = "shutdown"
  /\ UNCHANGED <<server, reader, options, dlconn, pkt, info, file, history, bounds>>

(* packet_handler() prints the packet and writes it, unbuffered, to the    *)
(* output file.  That a write failed is logged and not looked at.          *)
Handle ==
  /\ Goto("handle", "collect") /\ last' = pkt.time
  /\ sent' = sent \cup {pkt.time} /\ resumed' = TRUE /\ browsed' = FALSE
  /\ UNCHANGED <<server, reader, options, dlconn, pkt, info, file, kept, bounds>>

(* The console: a READ returns any packet the server has, and moves the    *)
(* position of the DLCP; so does its STREAM.                               *)
ConsoleRead ==
  /\ pc = "console" /\ reader # Broken
  /\ \E i \in 1..Len(ring) :
       /\ pktid' = ring[i].id /\ pkttime' = ring[i].time
       /\ sent' = sent \cup {ring[i].time}
  /\ browsed' = TRUE
  /\ UNCHANGED <<server, reader, pc, options, terminate, pkt, info, file, kept, last, resumed, bounds>>

ConsoleExit ==
  /\ Goto("console", "shutdown")
  /\ UNCHANGED <<server, reader, options, dlconn, pkt, info, file, history, bounds>>

-----------------------------------------------------------------------------
(* The end.  main() disconnects, closes the output file and saves.         *)
Shutdown ==
  /\ Goto("shutdown", "save") /\ reader' = Broken
  /\ UNCHANGED <<server, options, dlconn, pkt, info, file, history, bounds>>

Saves(k) ==
  LET line == StateLine(Address, pktid, pkttime)
  IN  /\ file' = FileOf(Overwrite(file.text, line, k))
      /\ kept' = IF k = Len(line) THEN [id |-> pktid, time |-> pkttime] ELSE NoPacket

SaveState ==
  /\ pc = "save" /\ Ends /\ Saves(Len(StateLine(Address, pktid, pkttime)))
  /\ UNCHANGED <<server, last, sent, browsed, bounds>>

(* write() is cut short, by a full disk or the end of the machine; main()  *)
(* does not look at what dl_savestate() returns.                           *)
SaveTorn ==
  /\ pc = "save" /\ Ends /\ faults < MaxFaults /\ faults' = faults + 1
  /\ \E k \in 0..(Len(StateLine(Address, pktid, pkttime)) - 1) : Saves(k)
  /\ UNCHANGED <<server, last, sent, browsed, sessions>>

(* The process is killed, or the state file cannot be opened.              *)
Crash ==
  /\ pc # "off" /\ Ends /\ faults < MaxFaults /\ faults' = faults + 1
  /\ UNCHANGED <<server, file, kept, last, sent, browsed, sessions>>

(* SIGINT, SIGQUIT or SIGTERM: term_handler().                             *)
Signal ==
  /\ pc # "off" /\ ~terminate /\ terminate' = TRUE
  /\ UNCHANGED <<server, reader, pc, options, pktid, pkttime, pkt, info, file, history, bounds>>

-----------------------------------------------------------------------------
ServerStep == NewPacket \/ ServerRestart
Main ==
  \/ RecoverState \/ GivesUp \/ Connect \/ PositionSet \/ NoPosition \/ Subscribe
  \/ InfoRequest \/ InfoFails \/ InfoTerminated
  \/ CollectHeader \/ CollectBody \/ CollectEnds \/ Handle
  \/ Shutdown \/ SaveState \/ SaveTorn

Next ==
  \/ ServerStep \/ Start \/ Main \/ Tick \/ ConsoleRead \/ ConsoleExit \/ Crash \/ Signal

Spec == Init /\ [][Next]_vars

-----------------------------------------------------------------------------
(* The position of the last complete save is what the next session reads   *)
(* back, to the digit, whatever the file held before that save, longer     *)
(* lines, lines of other servers or the rests of torn ones, and whatever   *)
(* sessions in between came to nothing.                                    *)
RecoversSaved ==
  pc = "connect" /\ kept # NoPacket => [id |-> pktid, time |-> pkttime] = kept

(* A session is positioned only at a packet that was handed to the user,   *)
(* never ahead of one that was not: not by a line torn between two saves,  *)
(* not by the line of another server, and not when IDs have started again. *)
PositionWasHandled ==
  [][pc = "position" /\ ~resumed /\ resumed' => pkttime \in sent]_vars

(* Once a session has a packet to go on from, no packet that the server    *)
(* still has is passed over: between two packets that follow each other in *)
(* what is handled, in one session or across stops, kills and restarts, lie     *)
(* only packets that were handled or that the server has dropped.  A READ  *)
(* in a console session moves the position, and is left out.               *)
Passed(m, n) == {TimeOf(i) : i \in 1..made} \cap (m + 1)..(n - 1)
Misses(m, n) == \E t \in Passed(m, n) : t \notin sent /\ t \in Times(ring)

NoLoss == [][last # 0 /\ resumed /\ ~browsed => ~Misses(last, last')]_vars

(* INFO requests are never made faster than the interval allows, however   *)
(* late one of them is, if the interval in microseconds fits in an int.    *)
InfoRate ==
  (mode = "info" /\ polls > 1 /\ repeatint * Second <= IntMax)
    => (polls - 1) * repeatint * Second <= clock

(* "In this way the client can be stopped and started without data loss,   *)
(* assuming the data are still available on the server" (doc/dalitool.md,  *)
(* option -x): after a stop that saved its position, no packet the server  *)
(* still has is passed over, whether or not it still has the one saved.    *)
StoppedAndStarted ==
  [][last # 0 /\ kept.time = last /\ ~browsed => ~Misses(last, last')]_vars
=============================================================================
