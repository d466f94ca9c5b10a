# A TLA+ model of dalitool, libdali and libmseed

dalitool is a client of DataLink servers: it connects, asks for information,
positions itself in a server's stream of packets and collects them, from the
command line or from an interactive console.  libdali keeps the connection,
libmseed reads and writes the miniSEED records the packets carry.  This
directory holds a model of what is hard in them:

* one TCP connection in one of two modes, on which commands and replies are
  paired only by their order, used by calls that may fail at any point;
* the bytes below it, read and sent through sockets whose blocking mode,
  timeouts and alarms the calls switch on the way;
* a program that is stopped, killed and started again with a state file;
* the libraries' data structures (the list of continuous traces, the buffer of a
  reader, a document that is kept in two forms, the history of an editor) and
  their conversions, each with its many cases.

## 1. The system

| component | state it keeps | operations | how it meets the others |
|---|---|---|---|
| DataLink connection, `libdali/connection.c` | the DLCP: `link`, `streaming`, `keepalive_trig`, `terminate`, `pktid`, `pkttime` | ID exchange, `dl_position`, `dl_position_after`, `dl_match`, `dl_reject`, `dl_write`, `dl_read`, `dl_getinfo`, `dl_collect`, `dl_collect_nb`, `dl_handlereply`, `dl_terminate` | called by the programs; sends and receives through the network layer |
| network layer, `libdali/network.c`, and portability layer, `libdali/portable.c` | the sockets, their blocking mode, their timeouts, the I/O alarm | `dl_connect`, `dl_disconnect`, `dl_senddata`, `dl_sendpacket`, `dl_recvdata`, `dl_recvheader` | reads and writes the TCP stream; `dl_connect` calls back `dl_exchangeIDs` |
| console, `src/dlconsole.c` | the last command, `endflag` of a stream, the DLCP it shares | a command per line; the STREAM loop | API calls of libdali; keyboard; its check of the link |
| dalitool, `src/dalitool.c`, `src/common.c` | options, the state file's name, the INFO timer | connect, position, match, reject, then INFO polling, console or collection | calls everything; its signal handler sets `terminate` |
| state file, `libdali/statefile.c` | one line: address, packet ID, time | `dl_savestate`, `dl_recoverstate` | called by dalitool at its ends |
| line editor, `src/linenoise.c` | the line, the position in it, the history | a key per call of the loop | feeds the console |
| names, lists, configuration: `libdali/config.c`, `strutils.c`, `genutils.c`, addresses of `network.c` | none | splitting and joining of text | called by dalitool, console and `dl_connect` |
| times: `libdali/timeutils.c`, `gmtime64.c`; `libmseed/genutils.c`, `gmtime64.c` | leap seconds | calendar dates, strings and times since the epoch | called everywhere |
| loggers: `logging.c` of both libraries | levels, prefixes, libmseed's registry of messages | log, emit, free | called everywhere |
| identifiers and selections: `libmseed/genutils.c`, `selection.c` | lists of selections | codes and identifiers, globs, matching | readers ask them for each record |
| records: `pack.c`, `packdata.c`, `unpack.c`, `unpackdata.c`, `parseutils.c`, `lookup.c`, `msrutils.c` | none beyond a record | headers, blockettes, encodings, detection, parsing | the trace list packs, the readers parse |
| trace list, `tracelist.c` | traces of continuous segments with their samples and records | add, join, unpack, convert, pack | fed by the readers |
| files and URLs, `fileutils.c`, `msio.c` | the read buffer, offsets, the position in the stream | open, read, write | parses records, fills a trace list |
| extra headers, `extraheaders.c`, over `yyjson.c` | the record's JSON and a parse state of two documents | get, set, merge, append, serialize | unpacking builds them, packing reads them |

What is hard:

* **Order.** Replies carry no request number: the next header on the wire is the
  reply.  A reply left unread, a packet of a stream left unread, or an ENDSTREAM
  read by the wrong call shifts every later reply by one.  Records arrive in any
  order and have to end in the same segments.
* **Mode.** `streaming` says what the client believes; the server follows with
  the delay of the wire, and with packets in the air after ENDSTREAM.  A socket
  is switched to blocking and back, its timeouts are set once per socket from a
  field that changes its sign when that is done.
* **Failure.** A receive may stop in the middle of a packet; a send may leave a
  part of a command; the server may shut down with bytes on the way; the
  descriptor in the DLCP may be that of a closed socket; a save may be torn; a
  file may end in the middle of a record.
* **Signals and clock.** `terminate` may be set at any step; the keepalive timer
  may elapse at any iteration; an alarm may ring before the call it is to stop.
* **State kept twice.** The line and its history entry, a document and its
  mutable copy, the buffer and the position in the stream have to be changed
  together.
* **Edges.** Times before the epoch, windows that straddle, differences one bit
  too wide, text of exactly the buffer's size.

PROJECT.json lists each hazard at its line, with the properties that cover it or
the reason why none does.

What makes each component correct: for the connection, no command is sent that
the server's mode refuses, each call reads its own reply, the client is back in
query mode only after the server, DLENDED means that the stream is over, and
calls come back.  For the network layer, headers come out whole, each once, in
order, and sockets are left as they should be.  For the console, the prompt finds
the connection ready for the next command, Enter stops a stream, a command comes
back, and a broken connection is made again.  For dalitool with its state file,
what was saved is recovered and no packet is passed over that the server still
has.  For the libraries, what is written is read back, segments are joined
exactly where they meet, nothing is read twice or skipped, and what is kept
twice agrees.

## 2. Modules

| module | what it is |
|---|---|
| `DaliConn` | the connection: DLCP, the calls of `connection.c`, `network.c`, the two directions of the stream, the server (external); its properties |
| `DLSession` | the abstract session: the mode the client acts in, and the server's |
| `DaliConnSession` | the refinement mapping from `DaliConn` to `DLSession` |
| `DaliConnInv` | the inductive invariant `IInv` |
| `DaliConnProofs` | what the operations of the wire keep; type correctness, `IInv`, `QueryModeQuiet`, `CommandsFitMode`; `DaliConn` implements `DLSession`; each call reads its own reply: `ReplyInSync`, `OwnReply`, `EndedMeansOver`; the connection under the console, and the prompt |
| `Console` | `runconsole()` and `main()` around it, over the variables and steps of `DaliConn` |
| `NetIO` | sockets and bytes: the calls of `network.c` and `portable.c` step by step |
| `PacketIO` | what the network layer promises: packets whole and in order; `NetIO` implements it |
| `NetIOProofs` | the sockets: mode, alarm, timeouts, leaks; the bytes: types, `NetIO` implements `PacketIO` |
| `Numbers` | induction and recursion on sets of numbers, for the proofs |
| `StateFile` | the state file cell by cell: saving over an older line, reading back |
| `Dalitool` | `main()` over sessions, crashes and a server's ring of packets, over `StateFile` |
| `DalitoolProofs` | a saved line is read back as it was written; types, what is recovered, the pace of INFO, where a session goes on |
| `LineEdit` | the line editor, and `runconsole()` as its caller |
| `LineEditProofs` | the line and the history in their limits, but for the NUL of a full line; moving keeps every line |
| `LibraryCall` | a call of a function that keeps no state |
| `Text` | addresses, stream IDs, lines, stream lists, string lists |
| `Times`, `MSTimes`, `TimeCalls` | the times of libdali and of libmseed; calls of both |
| `SourceID`, `Selections` | FDSN identifiers; selections, their files and globs |
| `Encodings`, `Blockettes`, `Records`, `RecordCalls` | samples; headers of version 2; records packed, found, parsed; calls of these |
| `TraceList` | traces, segments, packing |
| `TraceListProofs` | segments lie in order and within the times of their entry, and none that meet are left; their samples are those of their records |
| `Files` | reading and writing files, URLs and memory |
| `LibmseedProofs` | a reader hands out the records of its file, each once and in order; what the parser asks for; what is selected; samples are decoded as they were |
| `Logs` | both loggers |
| `LibdaliProofs` | the times of both libraries: a time is shown as the date it was made of; the registry keeps the newest messages, both loggers print alike |
| `Json`, `ExtraHeaders` | the part of yyjson that extra headers use; their parse state |
| `MCDaliConn`, `MCConsole`, `MCDalitool`, `MCNetIO`, `MCSelections`, `MCLibrary` | instances for TLC |

Two compositions matter.  `Console` runs over the variables of `DaliConn`, so a
command of the user, a step of the connection and a step of the server
interleave.  `Dalitool` takes the calls of libdali at the level of what they
return, and adds what outlives a process: the state file and the server.
`DaliConn` takes for granted what `NetIO` shows through `PacketIO`: a receive
returns a whole header, or nothing, or an error.  Below these, the library
modules extend one another as their files call one another (`Records` over
`Blockettes` over `Encodings`, `ExtraHeaders` over `Json`, `MSTimes` over
`Times`).

### DaliConn and the code

The variables `link`, `streaming`, `trig` (`keepalive_trig`) and `terminate` are
the fields of the DLCP.  `fn` and `pc` say which call is running and at which
receive or send it stands; `hdr` is the reply whose message is being read; `ret`
is what the last call returned.  `sock` tells whether the socket is open, apart
from `link`, which the code does not always reset with it.  `c2s` and `s2c` are
what each side has sent and the other not yet read; `smode` and `peer` are the
server's mode and whether it is there.  `clean` and the field `src` of a unit
are history: no exchange of this socket has failed half-way; the unit was sent
while streaming.  Nothing the code does depends on them.

A packet is a header, then a DATA unit if it has a body.  What the reader makes
of the body matters, not its bytes: it fits, is too big, or its header is not
what the call can parse.  A receive that fails may have taken nothing or part of
a unit, which is from then on DATA without a header, and a header read over it
fails as `dl_recvheader()` does on bytes that do not start with "DL".

Each call begins with an action named for it (`Match`, `GetInfo`,
`CollectStart`...), with its early returns, and goes on with the steps of its
receives: `ReplyHeader` and `ReplyMessage` for `dl_handlereply()`, `ReadHeader`,
`ReadDiscard`, `InfoHeader`, `DataBody`, `CollectHeader`, and `ReceiveFails` at
each.  Steps are cut where the code waits for the other side or a signal may
come, since only there can another actor act.  `Terminate` is the signal
handler.  `dl_collect()` and `dl_collect_nb()` share their actions and differ
where the code differs: the loop on `terminate`, a signal in `select()`, and
what the end of an iteration returns.

`dl_sendpacket()` may be called by an application directly, in any mode: the
console does so for its ID command (`RawID`).

The server is external: it answers commands in order with any reply that fits
the command, sends ENDSTREAM after the packets of the stream, does not answer a
WRITE without acknowledgement, and may shut down at any time.

### Console and the code

`cpc` is the place in the loop of `runconsole()`: prompt, check of the link,
reconnection, dispatch, running command, and the four places of the STREAM loop.
A command's call is the action of `DaliConn` of the same name; while it runs the
console waits (`pc # "idle"`), and at the prompt the input may also end (`EndOfInput`), which
ends the program.  `LinkDown` is the test `link == -1 ||
recv (MSG_PEEK) == 0`, with what `recv()` returns on a closed descriptor.  The
positioning, match and reject that `main()` may do before the console starts are
left out of `Startup`; they are the commands PSET, MATCH and REJECT.

### NetIO and the code

A byte is the packet it belongs to and its place there: "DL" and the length are
the first three, then come the header and the body.  `fn`, `pc` and `stage` say which call
runs, at which system call it stands, and what `dl_recvdata()` reads; `want` and
`got` are its counts.  `sock` has for each socket its state, its blocking mode
and whether timeouts are set; sockets are never reused, so a leaked one stays
visible.  A system may lack socket timeouts (`hasTimeo`); then `dlp_setioalarm()`
sets an alarm, which may interrupt the call, be lost before it, or, without a
handler, end the process.  `owed`, `taken`, `inSync` and `sendFailed` are
history.

### StateFile, Dalitool and the code

The state file is a sequence of cells, so that a save laid over a longer line, a
torn save and a line of another server can be read back as `dl_readline()` and
`sscanf()` would; numbers are written in base 5 so that IDs change their length.
`pc` is the place in `main()`; each session starts with `Start` and ends with
`SaveState`, `SaveTorn` or `Crash`.  The server numbers packets, keeps the last
of them, and may lose its ring and start again at 1.  Without a position a
connection reads from the latest packet on, the server's default.

### The library modules and the code

A function of the code is an operator of its name, with strings as sequences of
characters and numbers as numbers; a loop over data is a fold or a recursive
function.  Each module ends with what the function promises: the time a string
was written from, the identifiers a glob covers, the samples an encoding was
given.  Four parts keep a state between calls and are state machines: `LineEdit`
(`buf`, `pos`, the history), `TraceList` (segments, packed records), `Files`
(disk, buffer, offsets), `Logs` and `ExtraHeaders` (registry; record and parse
state).  They do not meet, so `MCLibrary` runs one at a time beside the calls of
the functions: their states add up instead of multiplying.
Such a call is the state of `LibraryCall`; `TimeCalls` and `RecordCalls` make the
calls whose promises are proved, with any arguments as constants.

In `TraceList` a sample is its own time, so a sample at the wrong place shows.
In `Files` a file is a sequence of pieces (records, records that do not say how
long they are, other bytes), and a buffer is a window on its bytes.  `Json` reads
tokens: the reader stores values one after the other and links them by offsets,
as yyjson does, mutable containers are rings that start with their last item, and
both are turned into one another as the code does.

## 3. Runs

| run | asks | distinct states |
|---|---|---|
| `conn_safety` | `IInv`, `QueryModeQuiet`, `CommandsFitMode`, `ReplyInSync`, `OwnReply`, `EndedMeansOver` with ten of the calls and all four bodies | 744,206 |
| `conn_live` | `TypeOK`, refinement of `DLSession`, `RequestsReturn`, `EndingReturns`, `TerminateReturns`, with keepalives and the misuse `end_unstarted` | 323,164 |
| `console` | `PromptIsQueryMode`, `EnterStopsStream`, `CommandReturns` with all eleven commands | 325,188 |
| `resume` | `RecoversSaved`, `PositionWasHandled`, `NoLoss`, `InfoRate` over three sessions in all three modes, with a crash or torn save, an older state file, and a server that loses its ring | 3,333,998 |
| `net_io` | `ModeRestored`, `TimeoutArmed`, `NoLeak`, refinement of `PacketIO`, `PollReturns`, `TimeoutReturns` | 755,808 |
| `library` | what each library module promises (below) | 506,795 |
| `resume_expired` | that a client goes on where it was stopped (section 6) | to the violation |
| `conn_reconnect`, `conn_ending`, `console_link`, `console_signal`, `selection_dates` | the other five statements of section 6 that the code does not meet | to the violation |

`CHECK_DEADLOCK FALSE` everywhere: an application may stop calling, a user may
stay at the prompt, `dl_read()` without a packet ID may wait for ever, and the
bounds stop the environment.  What must not stop is stated as liveness.

The properties of `library`, each with the functions or states it is about:

* `OverrunByTyping`, `MovesKeepLines`: the editor writes past the buffer of a line
  in one way only, with the NUL of a character typed into a line that has one
  place left (`LineTypeOK` is the bound with and without it, and says that the
  cursor and the history keep theirs); moving in the history and back shows the
  line as it was.
* `SegmentsHealed`, `SamplesFollowRecords`: whatever order records are added in,
  no two segments of a trace are left that meet, and the samples of a segment
  are those of the records in it, at their times, across packing.  The first is
  said of entries that are `Alike`: records of one rate and sample type, and all
  of them with data or no segment with samples.  Others can be left unjoined: a
  record that fits the segments on both sides of it, which do not fit each other,
  is added to one of them, and what it then meets stays where it is.  Of a record
  that is written out the samples are at their times if those added to its entry
  are `Even`, all with data and of one rate: a segment counts the time of a sample
  by the rate of its first record.
* `NamesRead`, `TimesRead`, `SelectionsMatch`: text and numbers are read back as
  what they were written from; a selection matches what overlaps its window and
  what its pattern stands for, and a line of a selection file with dates that are
  read selects just the records of its channel, version and window.
* `SamplesDecoded`, `HeadersKept`, `RecordsPacked`, `RecordsParsed`: samples,
  headers, blockettes and records survive being packed and unpacked; extra
  headers survive being set, merged and serialized, in both documents; a JSON text
  is read if it is in the grammar of RFC 8259, and as what it says; records that
  are packed are `Parseable`, and a parser that is given a part of one asks for
  more and never for too much.
* `RecordsRead`: records are read once each, in their order, whole, through a
  buffer that shifts, and from a URL in pieces of any size; and none of those that
  are selected and whole is missing.  The second half is said of a file that is
  `Clean`: nothing in it is torn, and a record that does not say how long it is
  stands last or before one of version 2, since its end is found by looking for
  the header of such a one.
* `MessagesKept`: the registry holds the latest messages up to its limit and
  they are printed once, in order; both loggers print alike.

**Bounds.**  `MaxC2S = 2` and `MaxS2C = 2` are the commands the server has not
read and the units the client has not read before the other side waits (a reply
may still be appended with its body beyond `MaxS2C`).  Two commands are what the
code can have outstanding: STREAM and ENDSTREAM, or ENDSTREAM and a keepalive.
Two units hold a packet in the air and the reply or ENDSTREAM behind it.
`MaxFaults = 1` is one timeout, interrupted receive, failed send or shutdown;
the actions it leads to (a torn unit, a closed connection, a failed exchange)
bring their own later failures without using it up, and the proofs hold for any
number.  `Values` has -1 and 1, since the code tests only the sign of a reply's
value, or one value where no property looks at it.  `Calls` leaves out of a run the calls that differ from
another one of the run only in their name.  `rawid` is left to `conn_live` and
`console`: sent while a stream runs it reads what is not its reply, which
`OwnReply` does not allow any call.

`resume`: a ring of two packets and three packets in all make the server drop
one; three sessions are a save, a session over it, and one that shows what the
second left; one restart of the server, one fault (a crash or a torn save); IDs
begin at 4 so that in base 5 a line grows and shrinks; `IntMax = 2` lets the
interval of 3 overflow.  Times of packets are apart (`TimeStep`) so that digits
of two times never make up a third, as with microseconds.

`net_io`: two addresses and three sockets are a failed attempt, a connection and
a later one; two packets show the end of one and the start of the next; one
fault is a reset, a shutdown, a failed send or an expired timeout; timeouts may
be off or on, bodies empty or not; an application without a handler for SIGALRM is
started only where an alarm can be set (`AlarmsOnly`), as it is like one with a
handler elsewhere.  A header of two bytes can be torn at any
place, as any can.

`library`: the instances are at the top of each part of `MCLibrary`.  A minute
has two seconds, a frame four words, a line four characters, the buffer three:
each constant is the smallest at which every branch of the code is taken, and
arguments lie on both sides of each comparison.  Some constants are the code's
own (a buffer of 131172 bytes for records, 365-day years and the 400-year
cycle), where the code's tables depend on them.  Four adds and two packs of
seven kinds of records, three messages with two kept, files of up to five pieces
of which one may be torn, documents of four values and nine tokens are what the
states go up to.

**Fairness.**  `LiveSpec` has weak fairness of `CallStep`: a call in progress
is a thread of the program that is not blocked, or one whose data has come.  It
does not say that data comes; that is weak fairness of `ServerCommand`: a server
reads what it has been sent and answers.  There is none on `ServerStreams`
(packets may stop coming), on faults, shutdowns, signals, or on an application's
next call.  `ConsoleLive` adds weak fairness of `CommandStep`: once a command is
typed the console goes on with it.  The choices inside it stay free: `select()`
may find nothing for ever, so STREAM comes back only because Enter has been read
(`EnterStopsStream`).  `NetIO` has weak fairness of its `CallStep`, the steps
of a call that does not wait for the other side, the expiry of a socket timeout
among them: the system ends a receive with a timeout.  There is none for alarms,
which may be lost.  `TimeoutReturns` excludes the loop that spins on EWOULDBLOCK
once a part of a packet has been read without blocking; no timeout ends it.

**Mutants.**  Each property of a passing run has at least one mutant, an
operator beside the one it changes: a mode not checked, an oversize packet not
read, ENDSTREAM taken as done when sent, the terminate flag not looked at.

## 4. What is proved

All theorems hold for every value of the constants within the assumptions the
modules name (`CallsAssumption`, `BoundsAssumption`, `NetAssumption`,
`TextAssumption`, `HeadAssumption`...), which TLC checks in each run: any set of calls and bodies,
any lengths of the streams, any number of sockets, packets, sessions and faults,
any address, state file and base of its numbers.

**The connection** (`DaliConnProofs`): `TypeCorrect`,
`Invariance` (`IInv`), `QueryMode` (`QueryModeQuiet`), `CommandsFit`
(`CommandsFitMode`) and `Refinement` (`ImplementsSession`, step by step).
`QueryModeQuiet` is not inductive: to know that the server is back in query mode
when ENDSTREAM is read one has to know where STREAM and ENDSTREAM were before.
`IInv` says it for each value of `streaming`.  With 0 neither is on its way, the
server is in query mode and no unit of the stream is unread.  With 1, STREAM is
on its way exactly if the server is still in query mode, and no ENDSTREAM comes
back.  With -1, either ENDSTREAM is still on its way, behind STREAM if that is
too, and none comes back, or the server has handled both, and nothing of the
stream follows its ENDSTREAM.  Each command occurs at most once.  To this it adds
where a call may stand, and that a closed or lost connection carries nothing
more.  Its lemmas on sequences say what each operation on the wire keeps of this:
reading, misreading or tearing a unit, and losing the end of the stream, leave a
`Part` of the units, in order; sending appends one command that the mode allows;
the server's steps move one command and append at most one unit.

**Replies** (`DaliConnProofs`): `RepliesInStep` (`ReplyInSync`),
`OwnRepliesAlways` (`OwnReply`) and `EndReported` (`EndedMeansOver`: DLENDED is
returned only to a client that terminates, when the server has shut down and all
it sent was read, or with the ENDSTREAM in hand, and then in query mode with no
packet of the stream unread).  `SyncInv`
adds to `IInv` what the running call is still owed: between two calls in query
mode nothing is on its way; a call in a receive has its command, or the one reply
to it, or that reply's body on its way, and nothing else; while streaming, what
comes back is the stream's.  This fails with keepalives: an ID sent as a
keepalive is owed a reply that `dl_collect()` does not wait for when the stream
ends, which is the disagreement `conn_ending` of section 6.  So the first two
assume `~KeepaliveOn`, and the second also that the application sends no packets
beside the API (`rawid`); `IInv`, and all that was said above, needs neither.
`EndReported` has no assumption.

**The console** (`DaliConnProofs`): `ConnectionUnderConsole` shows that every step
of `Console` is a step of `DaliConn` or leaves its variables alone, so that what
is proved of the connection holds under the console.  `ConsoleInvariance` adds
where the console stands while a call runs, and that only its STREAM loop leaves
a connection in step streaming; from it `ConsoleTypeCorrect` (`ConsoleTypeOK`),
`QuietPrompt` (the prompt is in query mode on both sides, with keepalives) and
`PromptInQueryMode` (`PromptIsQueryMode`, without).

**The sockets** (`NetIOProofs`): `ModesRestored`, `TimeoutsArmed`, `NothingLeaks`
from `SocketsInv`: which sockets were made and which one is open at each place of
a call; that an alarm is set only if a timeout is asked for and the system has no
socket timeouts, while a socket that was made where it has them leaves
`iotimeout` negative; and that a receive finds the socket in blocking mode only
if its caller asked for that or a send has failed.  `ModesRestored` says of a
call that succeeds that it leaves the socket non-blocking and no alarm set, and
of one that fails the same unless a send has failed on this socket: that one
stays blocking with its alarm set, and "should be disconnected"
(`network.c:233`).  `TimeoutsArmed` has both halves.  With socket timeouts every
wait is on a socket with its own.  Without, each wait (a send, or the receive of
one part of a packet) begins with the alarm set, and loses it only by its ringing
while the call does not wait: `AlarmLost`, after which nothing ends the wait.

**The bytes** (`NetIOProofs`): `NetTypeCorrect` (`NetTypeOK`) and
`PacketsInOrder` (`ImplementsPacketIO`, the refinement of `PacketIO` step by
step) from `FlowInv`.  The bytes read by the running call, those that have
arrived and those to arrive are one `Stream`: each follows the one before it in
the same packet, or begins a later packet, numbers never fall, and of the packets
between two that are in it none is missing.  While the connection is up the
last packet sent is there to its end (`Whole`), so a header or a body that was
begun arrives.  As long as no call has failed (`inSync`), the first byte of the
stream is what the call takes it for (`Begins`): the "D" of a packet, the first
byte of a header of the length being read, or that of the body owed.  A call
fails only if its peer is gone or a timeout is set (`Timed`, `Excused`).  The
lemmas say what the end of the stream or its start can lose: bytes taken from
the start take the packet at the head of the queue or none, a server that goes
takes packets from its end, and one sent is appended; the queue of the mapping is
determined by the set of its packets (`OneList`).

**The state file** (`DalitoolProofs`): `RecoveredSaved`: if a file begins with
the line saved for an address, an ID and a time, `dl_recoverstate()` gives just
these, whatever follows.  Its lemmas follow the scan of a line cell by cell;
`Value[Digits[n]] = n` and the definedness of both functions are proved by
induction on sets of numbers (a non-empty set of naturals has a least element,
`LeastNumber` in `Numbers`), since the library's induction takes an operator as its parameter,
which the installed provers cannot instantiate.

**The program** (`DalitoolProofs`): `DalitoolTypeCorrect`, `SavedIsRecovered`
(`RecoversSaved`) and `InfoKeepsInterval` (`InfoRate`) from `DalitoolInv`: the
position that counts as saved stands at the start of the file, and the time of
the next INFO request leaves room for those made.  `ResumesWhereHandled`
(`PositionWasHandled`) and `NothingPassedOver` (`NoLoss`) need more
(`PositionInv`): the ring is the last packets made, in order, with IDs that follow
each other; every position, in the DLCP or the file, is that of a packet the user
has, or of none; a session is positioned at the last save or at no packet; the
reader is not before the last save; and whatever lies between the last packet
handled and the reader, or the packet in hand, is gone.  They are proved of
`WholeSpec`, in which no save is torn, and with `TextsApart`, that no position in
the file before the first session has the time of a packet: the digits left by a
torn save, or by another program, can be those of any packet, and that they are
not is a matter of the numbers (times in microseconds), not of the code.  Kills,
lost connections, sessions that come to nothing and restarts of the server are
all in it.  Runs of TLC have the torn saves too, with times that are apart.

**The line editor** (`LineEditProofs`): `OverrunOnlyByTyping`
(`OverrunByTyping`) and `MovesKeepAll` (`MovesKeepLines`) from `LineInv`, which
adds the limit's own range and that the completion on show is one of those for
the line, or none.  A line has `BufLen - 1` characters at most until the editor
has written its NUL past the array (`past`), and `BufLen` from then on.  Each key
makes a line in the limit of one in the limit (`Lines`), all but typing even one
with room for its NUL, and what Tab shows fits since the completions of
`runconsole()` are short, an assumption on `Offers`.  Moving
writes the line to its entry before another is read from the history, which is
all that `MovesKeepAll` rests on.

**The loggers** (`LibdaliProofs`): `NewestKept` (`MessagesKept`) from `LogsInv`: the
numbers of the messages in the registry fall from its head, none is higher than
what was logged, and `messagecnt` is never below the registry's length, which is
what makes it safe to look at the registry only when the count passes the limit.
A call may log up to two messages of its own (a prefix that is too long) before
it changes the limit; `Logged` says of any number of messages which of the old
and new ones are in the registry then, and `NewestKept` follows by counting.

**The times of libdali** (`LibdaliProofs`): `TimesAlwaysAgree`: `TimesAgree` for
any lengths of a second, minute, hour and day, and every date from 1900 to 3000,
those before the epoch too.  Division in C cuts toward 0, so a time before the
epoch is split into its parts by another way than a later one; the lemmas show
that both give the parts the time was made of, that the days of the years before
a date count its leap years, that the year and day found are the only ones with
that count, that month and day and the day of the year are each other's inverse
in both kinds of year, and that what is written is read as the same fields.  `TimesAreRead` states it, and
the same of libmseed, of every call with arguments within `TimeArgsAssumption`
and `NSTimeArgsAssumption` (`TimesRead`).

**The trace list** (`TraceListProofs`): `SegmentsAreHealed` (`SegmentsHealed`)
from `TraceInvariance` (`TraceInv`), for any records, tolerances and options.
`TraceInv` says that the entries are in order of their identifiers and, until one
is altered (packed, or its samples taken), that each satisfies `EntryInv`: its
segments are made of their records and lie between its earliest and latest times,
both of which some segment has; and if its records are alike, the segments are in
order and, with healing, none continues another.  The code looks at all segments
only if it must: the last and the first are tried before, the times of the entry
may tell that the record lies outside all of them, and a search ends at a segment
with the record's own times.  The lemmas show that where it does not look nothing
fits (`NoneAfterEnd`, `NoneBeforeStart`, `NoneOutside`, `NoneBesideExact`); that
the segments found are replaced by one that is joined to nothing (`GrownKeeps`);
that moving this one to its place puts the whole in order (`SortedOrders`); and,
by counting the entries before it, that `mstl3_addID()` puts a new entry in its
place (`AddedKeeps`).  The attempt to prove the property of all records is what
showed that it is false of records that are not alike.

`SamplesAreThose` (`SamplesFollowRecords`) needs `FollowInv` besides: the records of a
segment have its rate and the last of them its end; until the list is altered
the first has its start, each begins where the one before it ends, and its
samples are theirs, one after the other; and until the list is flushed the
samples left in a segment lie at their times between its start and end, within
one tolerance for each of its records.  Records added, samples written and samples left add up (`Weight`, a sum
over the list that the lemmas follow through each call that puts an entry or a
segment in, takes one out, or joins two).  The attempt showed that the times of
written samples are right only for `Even` records, which the property now says.

**The times of libmseed** (`LibdaliProofs`): `NSTimesAlwaysAgree`: `NSTimesAgree`
for every date from 1678 to 2262, which is what 64 bits of nanoseconds hold,
every nanosecond, format and choice of subseconds.  It rests on the lemmas of
`TimesAlwaysAgree`, and on what rounding to a second or a microsecond leaves of
a time on either side of the epoch.

**The readers** (`LibmseedProofs`): `RecordsAreRead` (`RecordsRead`) from `FileInv`,
for any pieces in a file (`FilesAssumption`), any start, end and chunk, and any
cut of what is delivered.  Of an open file it says (`FileKept`) that the position
in the stream is that of the buffer (`Positioned`), that the records handed out
are in order and end before it (`Handed`), that each is a record of the file at
its offset (`Sound`), and that none before the position is missing (`Complete`);
of a buffer that was read (`BufferRead`), that all of it was.  What a position
holds is a matter of sums, the places of pieces (`Layout`), and of what the
parser makes of the bytes there: it takes a record for what it is (`Found`),
passes over other bytes (`NotFound`), and asks for no more than the file has
(`Exhausted`).  A pass through the loop then keeps `FileKept` (`PassesWell`),
whether it shifts the buffer, fills it, hands out a record, skips one or gives
up.  `mstl3_readbuffer_selection()` is a recursive function; `ReadGood` is shown
of its values from the end of the buffer backwards.  The proof is what gave
`Clean` and `Readable` their present form: a record without its length has to be
followed by one of version 2, and lengths outside of 40 to 131172 bytes are never
read.

**The parser** (`LibmseedProofs`): `ParserAsks`: `ParseAsks` for any record that is
`Parseable`, that is of version 3, or of version 2 with blockette 1000 first, a
length that is a power of two, and blockettes one behind the other.  The walk
along the blockettes is shown to be defined, since their places rise.
`PackedIsParsed`, and `RecordsAreParsed` of the calls that pack them
(`RecordsParsed`): `PackedParses` for every record that is packed: any samples, any finite set of extra
headers with any values, any entries in the lists of detections, exceptions and
calibrations (`Packable`), either version, flushed or not.  It is shown of
`Blocks` that it makes a beginning with blockette 1000 and refuses what does not
fit the record (`BlocksAre`, by a lemma on each list), of `Chain` that each
blockette stands behind the one before it (`ChainIs`), of the data that they fit
the room behind the header (`PackDataIs`), and of both packers that they hand out
nothing but such records (`Packed2Is`, `Packed3Is`).

**Selections** (`LibmseedProofs`): `SelectedWhenAsked`: `RecordSelected`, one of
the three parts of `SelectionsMatch`, for any requests in any order.  The list
is a fold over them; that it holds the windows asked for and no others is shown
of its beginnings (`ListedIs`).  `GlobsCover`: `GlobCovers`, another of them, for
any tokens that are written as the pattern reads them (`AllFormed`: in a set no
close or dash after its first character, which is no caret; a range that does
not fall or end with a close) and any string.  The matcher is a
recursive function that is shown to be defined, as it only goes on to later
places of the pattern (`MatchExists`); at the place of each token it lets pass
what the token takes (`TokenLets`, for sets by a walk through the list,
`ListIs`), and so matches from there on what can be cut (`TokenCuts`).

**The encodings** (`LibmseedProofs`): `SteimIsKept` (`SteimKept` for any samples
but none, any first difference, any number of frames but none) and
`CodesAreRead` (`CodesRead` for any 16 bits), and of the calls that encode and
decode `SamplesAreDecoded` (`SamplesDecoded`, with `SampleArgsAssumption`).  The encoder is a loop; after each pass the words
read as the differences up to the next one (`CodedWell`), there are as many as
passes while samples are left, and it has refused only a difference wider than
30 bits.  A word reads as what was packed into it since a number that fits so
many bits is the one that has them as its low bits (`SignedIs`), and the sums of
the differences are the samples again (`DecodeIs`).

Only model-checked, and why:

* liveness and ENABLED: out of the prover's reach;
* `PositionWasHandled` and `NoLoss` with torn saves (above);
* `RecordsPacked`, `HeadersKept`, `NamesRead`, and the lines of
  `SelectionsMatch`: what they say is computed by folds and recursive functions
  over data of any length and headers of many forms, and needs an induction for
  each;
* `Json` and `ExtraHeaders`, which use RECURSIVE operators and cannot be proved
  about at all.

## 5. Abstractions and what is not modelled

In the connection (`DaliConn`):

* the content of packets, and the subscription (position, match, reject) a
  server keeps for a connection;
* the clock: the keepalive timer may or may not have elapsed;
* an application connects only after a disconnect; `dl_connect()` on an open
  connection would leak the descriptor and is no legal use.

* that the peek for a message after a failed send is made on a socket left
  blocking: here it takes one step, in `NetIO` it may wait.

In `NetIO`, failures of `fcntl()` and `setitimer()`, and signals other than
SIGALRM, which interrupt a system call only on a socket with a timeout and then
look like its end.

In `Dalitool`, what packets are printed as, and a failed write of one, which
leaves no trace in the program; a CONNECT of the console to another address,
under which `dl_savestate()` then saves (`dlconsole.c:435`); and of the numbers a
damaged line of the state file leaves unread (`statefile.c:127`) the values that
are neither 0 nor those of an earlier line.

In the libraries: memory never runs out; byte order, CRCs, floating point (rates
are exact fractions) and the layout of what is printed are left out, and so are

* the syntax of JSON numbers and strings, and of yyjson all that extra headers do
  not use: incremental and pretty writing, other pointer functions, JSON patches,
  its allocators;
* `ms_parse_raw2()` and `ms_parse_raw3()`, which print a raw record;
* printing of traces, gaps and synchronization lists (`tracelist.c`);
* in `mstl3_pack()` the flag `MSF_MAINTAINMSTL`, with which the list keeps its
  samples, and an error of `msr3_pack()`; in `mstl3_convertsamples()` the refusal
  of a conversion that would lose precision, as samples have no fractions;
* the options a URL is opened with, and descriptors that were opened before;
* the skip list by which `tracelist.c` finds a trace, which is taken for its
  result;
* a read of what is outside a buffer: one character beside an empty or cut
  message (`libmseed/logging.c:412`), past a glob that ends with "[^"
  (`selection.c`), and four bytes past a prefix of 48 to 51 bytes
  (`parseutils.c:228`), whose outcome is any.

Not modelled: INFO formatting (`dalixml.c`) and its XML parser, which only
print; checksums, format dumps and byte swapping, which have no control; tests
and examples.

What the properties leave out on purpose, each stated beside the property: a
line that fills the buffer loses its last character when the history is browsed
(`MovesKeepLines`); UNIXEPOCH strings of times less than a second before the
epoch, and of four digits (`TimesRead`); starts of later version 2 records are
compared to the precision of the fixed header (`RecordsPacked`); headers that
have no place in version 2 (`HeadersKept`); a reader that has failed
(`RecordsRead`).

## 6. Where the code and its text disagree

* `conn_reconnect` - "A DataLink connection is always in query mode by default"
  (`libdali/doc/DataLink.protocol.dox:15`).  Neither `dl_disconnect()` nor
  `dl_connect()` resets `streaming`; after a disconnection in streaming mode
  `dl_exchangeIDs()` refuses, and `dl_connect()` fails with this DLCP for good.
* `conn_ending` - "The stream ending sequence must be completed if the
  connection is to be used after streaming mode" (`libdali/connection.c:940`).
  A keepalive sent between ENDSTREAM and its answer leaves an ID reply that the
  next request reads as its own.
* `console_link` - "Check for closed connection and re-connect if needed"
  (`src/dlconsole.c:88`).  After a failed ID exchange `link` names a closed
  socket, on which `recv()` returns -1, not 0.
* `console_signal` - the same text as `conn_ending`.  A signal leaves STREAM's
  loop without ENDSTREAM; the console then prompts on a streaming connection.
* `selection_dates` - "The \c Starttime and \c Endtime values must be in a form
  recognized by ms_timestr2nstime()" (`libmseed/selection.c:410`), "Count of
  selections added on success and -1 on error" (line 422).
  `ms3_readselectionsfile()` tests for NSTUNSET, but a date that cannot be read is
  NSTERROR: the line is taken, with an open time.
* `resume_expired` - "the client can be stopped and started without data loss,
  assuming the data are still available on the server" (`doc/dalitool.md:69`).
  `dl_position()` returns 0 when the server no longer has the packet and
  `main()` tests for less than 0 only: the client goes on at the latest packet
  and passes over what the server kept after the saved one.

Two more that are no runs.  "Make sure there is always space for the nulterm"
(`src/linenoise.c:597`) comes after `l.buflen` has taken the whole size (line
586): a line with one place left takes another character, and its NUL goes one
byte behind the buffer.  `OverrunByTyping` states that this happens there, and
nowhere else.  And "the count of currently matched streams on success and -1 on
error" (`libdali/connection.c:387`): an ERROR reply with a value of 0 or more is
returned as that value by `dl_match()`, `dl_reject()`, `dl_position()` and
`dl_position_after()`; `dl_write()` does return -1.

Each of the others is a property that TLC violates; no passing run states it.  The passing
properties hold beside them because they speak of what a request finds in query
mode: a connection that `streaming` keeps from being used is safe, only useless.
`conn_safety` runs without keepalives (`KeepaliveOn = FALSE`), since with them
`conn_ending` would show as a violation of `ReplyInSync`; `conn_live` runs with
them, and `IInv` is proved for both.

## 7. Plan

Done: the connection with its proofs, the replies, the console, the sockets and
the bytes they carry, the state file and the program over restarts, the line
editor, the loggers, the times of both libraries, the trace list with its
samples, the readers of files, selections, globs and the encodings of samples, each
proved as section 4 says; the other libraries, model-checked.  What is left, in
order:

1. `Records`: `RecordsPacked` for all records whose data are shorter than 65536
   bytes, since `datalength` has 16 bits (`pack.c:176`).
2. `ExtraHeaders`: what remains of it when the recursion of `Json` is written as
   recursive functions.
