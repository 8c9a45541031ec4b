SPECIFICATION FairSpec
CONSTANTS
  Signed = {e1}
  Sealed = {e2}
  Kids = {k1}
  Addresses = {x1}
  SignedBy <- MCSignedBy
  Recipient <- MCRecipient
  Retries = 2
  HasParent = TRUE
  Announcers = {a1, a2}
  Path = path
INVARIANTS
  Matched
  WaitsOnce
PROPERTIES
  WaitEnds
