\* Two bridges over one source chain and token, two members; fees at and
\* below the bound.
CONSTANTS
  root = root  admin = admin  m1 = m1  m2 = m2  m3 = m3  none = none
  Pubkeys <- MCPubkeys
  DefaultKey = none
  SuperAdmin = root
  ChainIds = {1, 2, 3}
  TokenIds = {1}
  SupportedIds = {3}
  Payers = {root, admin}
  ConfigRequests <- MCConfigRequests
  Fees = {20, 1000000}
  MinAmounts = {1}
  GiftedRoutes <- MCRoutes
  Members = {m1, m2}
  Submitters = {m1}
  CommitteeRequests <- MCCommitteeRequests
  Stakes = {3333, 6666}
  GiftedMembers = {m2}
  MaxSignatures = 3
SPECIFICATION Spec
INVARIANTS TypeOK IndexIsKey ApprovalNeedsDistinctStake
  EligibleStakeApproves
PROPERTIES BlocklistLiftedOnlyByUpdate TermsChangeOnlyByUpdate
