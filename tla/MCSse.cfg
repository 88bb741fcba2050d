SPECIFICATION FairSpec
CONSTANTS
  Elements <- MCElements
  Above <- MCAbove
  SseConnect = {"feed", "card"}
  SseSwap <- MCSseSwap
  HxExt = {"feed"}
  Processed = {"feed"}
  Style <- MCStyle
  Later = {"card", "line"}
  SettleDelay = 20
  MaxTries = 1
  MaxSources = 4
  MaxFaults = 2
  NoSource = NoSource
CHECK_DEADLOCK FALSE
INVARIANTS
  LiveSourceIsRecorded
  SwapsHearTheirSource
  BrokenStreamIsRetried
PROPERTIES
  OrphansEnd
  StreamsComeBack
