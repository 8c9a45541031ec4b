SPECIFICATION LinkFairSpec
CONSTANTS
  left = left
  right = right
  routerLeft = routerLeft
  routerRight = routerRight
  east = east
  west = west
  Here = Here
  Ends = {left, right, routerLeft, routerRight}
  Flows = {east, west}
  Peer <- RouterPeer
  Route <- RelayRoute
  Sources <- RouterSources
  InitialWindow = 2
  Oversized = {west}
  MaxSends = 6
INVARIANTS
  NeverStarved
PROPERTIES
  Replenishes
