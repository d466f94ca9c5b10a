SPECIFICATION Spec
CONSTANTS
  Char = {97, 32}
  Space = 32
  Offers <- OfferedC
  BufLen = 3
  MaxHistory = 2
  Records <- RecordsC
  PerRecord = 2
  Numeric = {"i", "f"}
  MaxAdds = 4
  MaxPacks = 2
  At = 64
  Colon = 58
  Underscore = 95
  Slash = 47
  Blank = 32
  Newline = 10
  Bar = 124
  Hash = 35
  Star = 42
  Host <- HostC
  Port <- PortC
  Ports <- PortsC
  LineSize = 4
  MaxRegex = 6
  Fdsn = 1
  SidLen = 30
  Query = 63
  Open = 91
  Close = 93
  Caret = 94
  Dash = 45
  Escape = 92
  Comma = 44
  Zero = 48
  LowerA = 97
  UpperA = 65
  Dates <- DatesC
  MaxVersion = 255
  Modulus = 6
  MinSecs = 2
  HourMins = 2
  DayHours = 2
  Submicro = 2
  LeapSeconds = {24}
  MicrosPerFsec = 3
  WordsPerFrame = 4
  TimeArgs <- TimeArgsC
  NSTimeArgs <- NSTimeArgsC
  SteimArgs <- SteimArgsC
  CodeArgs <- CodeArgsC
  RecordArgs <- RecordArgsC
  HeadLength = 8
  Disks <- DisksC
  Opens <- OpensC
  Batch <- BatchC
  Torn = {48}
  MaxPieces = 2
  MaxDigits = 2
  EndOfLine = 10
  Parens <- ParensC
  ErrPrefix <- ErrPrefixC
  RLogInit <- RLogInitC
  TooLarge <- TooLargeC
  MaxText = 8
  MaxName = 2
  Names <- NamesC
  Said <- SaidC
  LogPrefixes <- PrefixesC
  MaxLogged = 3
  MaxKept = 2
  Tilde = 126
  Extras <- ExtrasC
  Pointers <- PointersC
  Leaves <- LeavesC
  Patches <- PatchesC
  MaxSize = 9
  MaxValues = 4
INVARIANTS SegmentsHealed SamplesFollowRecords NamesRead TimesRead SelectionsMatch
INVARIANTS SamplesDecoded HeadersKept RecordsPacked RecordsParsed RecordsRead
PROPERTY OverrunByTyping MovesKeepLines MessagesKept
