CONSTANTS
  Hosts = {h1, h2}
  Names = {a}
  BadName = bad
  Ops = {"netcheck", "arp", "ping", "syn", "dns", "resolve"}
  Callers = {"boot"}
  Patience = 1
  RingSize = 3
  MaxCalls = 2
  MaxForeign = 1
  SeqSpace = 16
  Isns = {13, 15}
  Payload <- MCPayload
  NumRx = 5
  EchoForeign = 1
  MaxDup = 1
  QueueNums = {2, 256, 512}
  VirtioForeign = 3
SPECIFICATION MCSpec
INVARIANTS
  OnlyCrowdedOut
  
  PeerAcceptsEverySegment
  EchoIsPrefix
  FramesSentIntact
  ReplyNotMissed
PROPERTIES
  CallReturns
  EchoReturns
CHECK_DEADLOCK FALSE
