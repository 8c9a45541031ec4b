SPECIFICATION LinkFairSpec
CONSTANTS
  left = left
  right = right
  routerLeft = routerLeft
  routerRight = routerRight
  east = east
  west = west
  Here = Here
  Ends = {left, right, routerLeft, routerRight}
  Flows = {east, west}
  Peer <- RouterPeer
  Route <- ServingRoute
  Sources <- RouterSources
  InitialWindow = 2
  Oversized = {}
  MaxSends = 4
PROPERTIES
  Replenishes
CHECK_DEADLOCK FALSE
