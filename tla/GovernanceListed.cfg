\* Two bridges over one source chain, no gifts.
CONSTANTS
  root = root  admin = admin  m1 = m1  m2 = m2  m3 = m3  none = none
  Pubkeys <- MCPubkeys
  DefaultKey = none
  SuperAdmin = root
  ChainIds = {1, 2, 3}
  TokenIds = {1}
  SupportedIds = {3}
  Payers = {root, admin}
  ConfigRequests <- MCConfigRequests
  Fees = {20, 1000000}
  MinAmounts = {1}
  GiftedRoutes <- MCNone
  Members = {m1, m2}
  Submitters = {m1}
  CommitteeRequests <- MCCommitteeRequests
  Stakes = {3333, 6666}
  GiftedMembers = {}
  MaxSignatures = 3
SPECIFICATION Spec
PROPERTY ListedChainsSupported
