------------------------------- MODULE Console -------------------------------
(***************************************************************************)
(* The interactive console of dalitool (src/src/dlconsole.c, runconsole()) *)
(* and what main() does around it (src/src/dalitool.c): a user's commands  *)
(* over one libdali connection.  The calls are those of DaliConn, begun    *)
(* here and carried on by its steps; parsing of the command line, the line *)
(* editor and what is printed are left out.                                *)
(***************************************************************************)
EXTENDS DaliConn

CONSTANT Cmds  \* the commands the user types

AllCmds == {"EXIT", "HELP", "ID", "PSET", "PAFTER", "MATCH", "REJECT", "INFO",
            "READ", "STREAM", "CONNECT"}

ASSUME CmdsAssumption == Cmds \subseteq AllCmds

VARIABLES
  cpc,      \* where the console stands
  cmd,      \* the command being executed
  endflag,  \* endflag of the STREAM loop
  tried     \* history: this command has tried to connect

console == <<cpc, cmd, endflag, tried>>
cvars   == <<vars, console>>

ConsoleTypeOK ==
  /\ cpc \in {"startup", "starting", "prompt", "check", "reconnect", "reconnecting",
              "dispatch", "connect", "running", "collect", "collecting", "select", "exited"}
  /\ cmd \in AllCmds
  /\ endflag \in {0, 1}
  /\ tried \in BOOLEAN

ConsoleInit ==
  /\ Init
  /\ cpc = "startup" /\ cmd = "HELP" /\ endflag = 0 /\ tried = FALSE

At(place, next) == cpc = place /\ pc = "idle" /\ cpc' = next /\ UNCHANGED <<cmd, endflag, tried>>
Local           == UNCHANGED vars

(* main() connects before it starts the console, or gives up.              *)
Startup == At("startup", "starting") /\ (ConnectFails \/ ConnectOpens)
Started == At("starting", IF ret = -1 THEN "exited" ELSE "prompt") /\ Local

-----------------------------------------------------------------------------
(* linenoise() returns a command; an empty line repeats the previous one.  *)
Prompt ==
  /\ cpc = "prompt" /\ pc = "idle"
  /\ cmd' \in Cmds /\ cpc' = "check" /\ tried' = FALSE
  /\ UNCHANGED endflag /\ Local

(* No link, or recv(MSG_PEEK) returns 0: everything was read and the       *)
(* server has shut down.  On a descriptor that is closed it returns -1.    *)
LinkDown == link = NoLink \/ (sock = "open" /\ s2c = <<>> /\ peer = "fin")

LinkUp   == At("check", "dispatch") /\ ~LinkDown /\ Local
DropLink == At("check", "reconnect") /\ LinkDown /\ link # NoLink /\ Disconnect
NoneLeft == At("check", "reconnect") /\ link = NoLink /\ Local

Reconnect ==
  /\ cpc = "reconnect" /\ (ConnectFails \/ ConnectOpens)
  /\ cpc' = "reconnecting" /\ tried' = TRUE
  /\ UNCHANGED <<cmd, endflag>>
Reconnected == At("reconnecting", "dispatch") /\ Local

-----------------------------------------------------------------------------
(* The recognised commands.  A command with the wrong arguments prints its *)
(* usage.                                                                  *)
Run(c)      == cmd = c /\ At("dispatch", "running")
Without(cs) == cmd \in cs /\ At("dispatch", "prompt") /\ Local

HelpOrUsage == Without({"HELP", "PSET", "PAFTER", "READ"})
DoID        == Run("ID") /\ RawID
DoPset      == Run("PSET") /\ Position
DoPafter    == Run("PAFTER") /\ PositionAfter
DoMatch     == Run("MATCH") /\ Match
DoReject    == Run("REJECT") /\ Reject
DoInfo      == Run("INFO") /\ GetInfo      \* fetchinfo(): STATUS, STREAMS, CONNECTIONS
DoRead      == Run("READ") /\ (Read \/ ReadNext)
Finished    == At("running", "prompt") /\ Local

(* CONNECT closes the connection there is and makes another.               *)
ConnectClose ==
  /\ cmd = "CONNECT" /\ At("dispatch", "connect")
  /\ IF link # NoLink THEN Disconnect ELSE Local
ConnectAnew ==
  /\ cpc = "connect" /\ (ConnectFails \/ ConnectOpens)
  /\ cpc' = "running" /\ tried' = TRUE
  /\ UNCHANGED <<cmd, endflag>>

(* EXIT leaves the loop, and main() disconnects.                           *)
Exit ==
  /\ cmd = "EXIT" /\ At("dispatch", "exited")
  /\ IF link # NoLink THEN Disconnect ELSE Local

(* linenoise() returns no line: the end of the input, or Ctrl-C.           *)
EndOfInput ==
  /\ At("prompt", "exited")
  /\ IF link # NoLink THEN Disconnect ELSE Local

-----------------------------------------------------------------------------
(* STREAM: collect, then look for Enter for at most 1/10 second.           *)
StreamStart ==
  /\ cmd = "STREAM" /\ cpc = "dispatch" /\ cpc' = "collect" /\ endflag' = 0
  /\ UNCHANGED <<cmd, tried>> /\ Local

(* Mutant of StreamCollect: Enter is read but ENDSTREAM never requested.   *)
StreamCollect_NeverEnds == At("collect", "collecting") /\ CollectStart("collect_nb", FALSE)

StreamCollect == At("collect", "collecting") /\ CollectStart("collect_nb", endflag = 1)

(* Mutant of StreamResult: the loop is left on Enter, the ending is not    *)
(* waited for.                                                             *)
StreamResult_LeavesOnEnter ==
  /\ cpc = "collecting" /\ pc = "idle"
  /\ cpc' = (IF ret \in {DLPACKET, DLNOPACKET} /\ endflag = 0 THEN "select" ELSE "prompt")
  /\ endflag' = 0
  /\ UNCHANGED <<cmd, tried>> /\ Local

StreamResult ==
  /\ cpc = "collecting" /\ pc = "idle"
  /\ IF ret \in {DLPACKET, DLNOPACKET} THEN cpc' = "select" /\ UNCHANGED endflag
                                       ELSE cpc' = "prompt" /\ endflag' = 0
  /\ UNCHANGED <<cmd, tried>> /\ Local

SelectNothing == At("select", "collect") /\ Local

(* Mutant of SelectEnter: the presses of Enter are counted.                *)
SelectEnter_Counts ==
  /\ cpc = "select" /\ cpc' = "collect" /\ endflag' = endflag + 1
  /\ UNCHANGED <<cmd, tried>> /\ Local

SelectEnter ==
  /\ cpc = "select" /\ cpc' = "collect" /\ endflag' = 1
  /\ UNCHANGED <<cmd, tried>> /\ Local

(* select() fails with EINTR: term_handler() has just run.                 *)
SelectSignal ==
  /\ cpc = "select" /\ terminate = 1
  /\ cpc' = "prompt" /\ endflag' = 0
  /\ UNCHANGED <<cmd, tried>> /\ Local

-----------------------------------------------------------------------------
StreamStep == StreamCollect \/ StreamResult \/ SelectNothing \/ SelectEnter \/ SelectSignal

CommandStep ==
  \/ LinkUp \/ DropLink \/ NoneLeft \/ Reconnect \/ Reconnected
  \/ HelpOrUsage \/ DoID \/ DoPset \/ DoPafter \/ DoMatch \/ DoReject \/ DoInfo \/ DoRead
  \/ Finished \/ ConnectClose \/ ConnectAnew \/ Exit
  \/ StreamStart \/ StreamStep

ConsoleNext ==
  \/ Startup \/ Started \/ Prompt \/ EndOfInput \/ CommandStep
  \/ (CallStep \/ Terminate \/ ServerStep) /\ UNCHANGED console

ConsoleSpec == ConsoleInit /\ [][ConsoleNext]_cvars

(* The user may stay at the prompt; a command that has begun goes on, as   *)
(* does the call it has made, and the server reads what it is sent.        *)
ConsoleLive ==
  /\ ConsoleSpec
  /\ WF_cvars(CommandStep)
  /\ WF_cvars(CallStep /\ UNCHANGED console)
  /\ WF_cvars(ServerCommand /\ UNCHANGED console)

-----------------------------------------------------------------------------
(* Properties.                                                             *)

(* Back at the prompt the connection is in query mode with nothing owed    *)
(* either way, whatever the commands, unless an exchange failed half-way   *)
(* or a signal has asked to terminate.                                     *)
PromptIsQueryMode ==
  cpc = "prompt" /\ clean /\ terminate = 0 =>
    streaming = 0 /\ s2c = <<>> /\ (peer = "up" => c2s = <<>>)

(* "press Enter to stop": on a stream in step, once Enter has been read    *)
(* the STREAM command comes back to the prompt.                            *)
EnterStopsStream == clean /\ endflag = 1 ~> cpc = "prompt"

(* A command other than STREAM that begins with the connection in step     *)
(* comes to its end: the prompt, or the exit of EXIT; only a READ without  *)
(* a packet ID may wait for a packet.  (After a signal to terminate the    *)
(* console may be left streaming, which the bound MaxS2C would stop.)      *)
CommandReturns ==
  clean /\ terminate = 0 /\ cpc = "check" /\ cmd # "STREAM" ~>
    cpc \in {"prompt", "exited"} \/ fn = "read_next"

(* "Check for closed connection and re-connect if needed": no command is   *)
(* dispatched on a closed socket without having tried to connect.          *)
ReconnectsBrokenLink == cpc = "dispatch" /\ sock = "closed" => tried

(* "The stream ending sequence must be completed if the connection is to   *)
(* be used after streaming mode" (dl_collect()): no request is dispatched  *)
(* on a connection that is still streaming.                                *)
StreamEndedBeforeReuse ==
  cpc = "dispatch" /\ sock = "open" /\ cmd \in {"PSET", "PAFTER", "MATCH", "REJECT", "INFO"} =>
    streaming = 0
=============================================================================
