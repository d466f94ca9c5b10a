SPECIFICATION LinesSpec
CONSTANTS
  At = 64
  Colon = 58
  Underscore = 95
  Slash = 47
  Blank = 32
  Newline = 10
  Bar = 124
  Hash = 35
  Star = 42
  Host = NoHost
  Port = NoPort
  Ports = {}
  LineSize = 4
  MaxRegex = 6
  Fdsn = 1
  SidLen = 30
  Query = 63
  Open = 91
  Close = 93
  Caret = 94
  Dash = 45
  Escape = 92
  Comma = 44
  Zero = 48
  LowerA = 97
  UpperA = 65
  Dates <- DatesC
  MaxVersion = 255
INVARIANT UnreadDatesRefused
