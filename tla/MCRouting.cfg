SPECIFICATION Spec
CONSTANTS
  c1 = c1
  c2 = c2
  Child <- MCChild
  Mid = Mid
  Root = Root
  PoolKinds = {TRUE, FALSE}
  MaxCalls = 3
  MaxFaults = 1
  MaxTrunk = 1
SYMMETRY Symmetry
INVARIANTS
  MemberStaysRouted
  FewHops
  OffersReachRoot
  CalmAgreement
CHECK_DEADLOCK FALSE
