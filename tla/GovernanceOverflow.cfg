\* A committee whose total stake exceeds the u16.
CONSTANTS
  root = root  admin = admin  m1 = m1  m2 = m2  m3 = m3  none = none
  Pubkeys <- MCPubkeys3
  DefaultKey = none
  SuperAdmin = root
  ChainIds = {1, 2, 3}
  TokenIds = {1}
  SupportedIds = {3}
  Payers = {root, admin}
  ConfigRequests <- MCOneBridge
  Fees = {20, 1000000}
  MinAmounts = {1}
  GiftedRoutes <- MCNone
  Members = {m1, m2, m3}
  Submitters = {m1}
  CommitteeRequests <- MCHeavyCommittee
  Stakes = {}
  GiftedMembers = {}
  MaxSignatures = 3
SPECIFICATION Spec
INVARIANT MoreStakeStillApproved
