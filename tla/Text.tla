-------------------------------- MODULE Text --------------------------------
(***************************************************************************)
(* What libdali and dalitool do with the text they are given: addresses    *)
(* (dl_connect() of network.c), stream IDs (genutils.c), lists of streams  *)
(* (config.c) and lists of strings (strutils.c).  A string is a sequence   *)
(* of characters.                                                          *)
(***************************************************************************)
EXTENDS Integers, Sequences, SequencesExt

CONSTANTS
  At, Colon, Underscore, Slash, Blank, Newline, Bar, Hash, Star, Dash, Zero,
  Host, Port,  \* LD_DEFAULT_HOST and LD_DEFAULT_PORT
  Ports,       \* the strings that read as a number of 1..65535
  LineSize,    \* the size of dl_read_streamlist()'s line buffer
  MaxRegex     \* MAXREGEXSIZE

Error == [error |-> TRUE]

Places(s, c)   == {i \in DOMAIN s : s[i] = c}
First(s, c) == CHOOSE i \in Places(s, c) : \A j \in Places(s, c) : i <= j
From(s, i)  == SubSeq(s, i, Len(s))

-----------------------------------------------------------------------------
(* Mutant of Separator: the first ':' separates, whatever follows.         *)
Separator_AnyColon(addr) ==
  IF Places(addr, At) # {} THEN First(addr, At)
  ELSE IF Places(addr, Colon) # {} THEN First(addr, Colon) ELSE 0

(* dl_connect(): the separator of host and port is the first '@', or a ':' *)
(* that is the only one.                                                   *)
Separator(addr) ==
  IF Places(addr, At) # {} THEN First(addr, At)
  ELSE IF Cardinality(Places(addr, Colon)) = 1 THEN First(addr, Colon) ELSE 0

HostPort(addr) ==
  LET sep  == Separator(addr)
      host == IF sep = 1 THEN Host ELSE IF sep = 0 THEN addr ELSE SubSeq(addr, 1, sep - 1)
      port == IF sep = 0 \/ Len(addr) = 1 THEN Port ELSE From(addr, sep + 1)
  IN  IF port \in Ports THEN [error |-> FALSE, host |-> host, port |-> port] ELSE Error

-----------------------------------------------------------------------------
(* dl_splitstreamid(): a component that is not in the ID is left as it was *)
(* by its caller.                                                          *)
SplitStreamID(id, before) ==
  LET typed == Places(id, Slash) # {}
      bar   == CHOOSE i \in Places(id, Slash) : \A j \in Places(id, Slash) : j <= i
      name  == IF typed THEN SubSeq(id, 1, bar - 1) ELSE id
      Cut(s)   == IF Places(s, Underscore) = {} THEN <<>> ELSE <<SubSeq(s, 1, First(s, Underscore) - 1)>>
      Rest(s)  == IF Places(s, Underscore) = {} THEN s ELSE From(s, First(s, Underscore) + 1)
      Part(s, c) == IF Cut(s) = <<>> THEN before[c] ELSE Cut(s)[1]
      z == Rest(Rest(Rest(name)))
  IN  [w |-> Part(name, "w"), x |-> Part(Rest(name), "x"), y |-> Part(Rest(Rest(name)), "y"),
       z |-> IF z = <<>> THEN before.z ELSE z,
       type |-> IF typed THEN From(id, bar + 1) ELSE before.type]

-----------------------------------------------------------------------------
(* dl_strparse(): the parts of a string between delimiters.                *)
StrParse(string, delim) ==
  LET Found(i) == {j \in i..(Len(string) - Len(delim) + 1) :
                   SubSeq(string, j, j + Len(delim) - 1) = delim}
      parts[i \in 1..(Len(string) + 1)] ==
        IF delim = <<>> \/ Found(i) = {} THEN <<From(string, i)>>
        ELSE LET d == CHOOSE j \in Found(i) : \A k \in Found(i) : j <= k
             IN  <<SubSeq(string, i, d - 1)>> \o parts[d + Len(delim)]
  IN  parts[1]

(* dl_addtostring(): a string that does not exist yet is <<>>, one that    *)
(* does is <<s>>.                                                          *)
AddToString(string, add, delim, maxlen) ==
  LET grown == IF string = <<>> THEN add ELSE string[1] \o delim \o add
  IN  IF Len(grown) + 1 > maxlen THEN Error ELSE [error |-> FALSE, string |-> <<grown>>]

-----------------------------------------------------------------------------
(* dl_readline() from position i of a text: the line and where the next    *)
(* read starts; a line ends at a newline, which is taken, or when it fills *)
(* the buffer.  The end of the text before either is an error.             *)
ReadLine(text, i) ==
  LET ends == {j \in i..Len(text) : text[j] = Newline \/ j = i + LineSize - 1}
      e    == CHOOSE j \in ends : \A k \in ends : j <= k
      full == \A j \in i..(i + LineSize - 2) : j <= Len(text) /\ text[j] # Newline
  IN  IF full THEN [error |-> FALSE, line |-> SubSeq(text, i, i + LineSize - 2), next |-> i + LineSize - 1]
      ELSE IF ends = {} THEN Error
      ELSE [error |-> FALSE, line |-> SubSeq(text, i, e - 1), next |-> e + 1]

Trim(line) ==
  LET black == {i \in DOMAIN line : line[i] # Blank}
  IN  IF black = {} THEN <<>>
      ELSE SubSeq(line, CHOOSE i \in black : \A j \in black : i <= j,
                        CHOOSE i \in black : \A j \in black : j <= i)

Ignored(line) == line = <<>> \/ line[1] \in {Hash, Star}

(* dl_read_streamlist(): the streams of a file as one expression; <<>> for *)
(* none, and when they do not fit.                                         *)
ReadStreamList(text) ==
  LET read[i \in 1..(Len(text) + 1), regex \in Seq(Seq(Range(text)  \cup {Bar}))] ==
        LET r == ReadLine(text, i)
            line  == Trim(r.line)
            added == AddToString(regex, line, <<Bar>>, MaxRegex)
        IN  IF r.error THEN regex
            ELSE IF Ignored(line) THEN read[r.next, regex]
            ELSE IF added.error THEN <<>>
            ELSE read[r.next, added.string]
  IN  read[1, <<>>]

-----------------------------------------------------------------------------
(* A host and a port reach the server that was named, in each of the forms *)
(* of the usage, whatever colons the host has: "host", "host@port", "@",   *)
(* "@port", and with ':' for '@' when the host has none.                   *)
AddressReached(host, port) ==
  LET Is(addr, h, p) == HostPort(addr) = [error |-> FALSE, host |-> h, port |-> p]
      Seps == IF Places(host, Colon) = {} THEN {At, Colon} ELSE {At}
  IN  /\ Cardinality(Places(host, Colon)) # 1 => Is(host, host, Port)
      /\ \A sep \in Seps : /\ Is(host \o <<sep>> \o port, host, port)
                           /\ Is(<<sep>>, Host, Port) /\ Is(<<sep>> \o port, Host, port)

(* A stream ID of the form W_X_Y_Z/TYPE is the sum of its parts.           *)
StreamIDJoins(id) ==
  LET slash == Places(id, Slash)
      s == SplitStreamID(id, [w |-> <<>>, x |-> <<>>, y |-> <<>>, z |-> <<>>, type |-> <<>>])
  IN  (/\ slash # {}
       /\ LET last == CHOOSE i \in slash : \A j \in slash : j <= i
          IN  Cardinality({i \in Places(id, Underscore) : i < last}) >= 3)
      => id = s.w \o <<Underscore>> \o s.x \o <<Underscore>> \o s.y \o <<Underscore>> \o s.z
                \o <<Slash>> \o s.type

(* The expression made of a list of streams has each stream of the list as *)
(* an alternative, in order, and nothing else: in a file that ends with a  *)
(* newline and whose lines fit the buffer, and if all of them fit.         *)
StreamListRead(lines) ==
  LET text == FoldLeft(LAMBDA t, l : t \o l \o <<Newline>>, <<>>, lines)
      Stream(l) == ~Ignored(Trim(l))
      streams == SelectSeq(lines, Stream)
      Trimmed(i) == Trim(streams[i])
      regex == FoldLeft(LAMBDA t, l : IF t = <<>> THEN Trim(l) ELSE t \o <<Bar>> \o Trim(l), <<>>, streams)
  IN  (\A i \in DOMAIN lines : Len(lines[i]) < LineSize)
      => IF streams = <<>> \/ Len(regex) >= MaxRegex THEN ReadStreamList(text) = <<>>
         ELSE /\ ReadStreamList(text) = <<regex>>
              /\ StrParse(regex, <<Bar>>) = [i \in DOMAIN streams |-> Trimmed(i)]
=============================================================================
