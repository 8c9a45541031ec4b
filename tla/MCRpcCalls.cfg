SPECIFICATION RpcFairSpec
CONSTANTS
  feed = feed
  ask = ask
  p1 = p1
  p2 = p2
  NoCall = NoCall
  NoPath = NoPath
  Calls = {feed, ask}
  Streams = {feed}
  Inner <- OneInner
  Items = 2
  Paths = {p1, p2}
  MaxFaults = 1
CHECK_DEADLOCK FALSE
INVARIANTS
  OpenIsPending
  EndMeansComplete
  ReplyAddressHeard
PROPERTIES
  CallEnds
