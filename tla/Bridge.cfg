\* One bridge, two tokens of one source chain, fixed committee.
CONSTANTS
  root = root  admin = admin  m1 = m1  m2 = m2  relay = relay
  alice = alice  bob = bob  none = none
  Pubkeys <- MCPubkeys
  DefaultKey = none
  SuperAdmin = root
  ChainIds = {1, 2}
  TokenIds = {1, 2}
  SupportedIds = {}
  Payers = {root, admin}
  ConfigRequests <- MCTwoTokens
  Fees = {}
  MinAmounts = {0}
  GiftedRoutes <- MCNone
  Members = {m1, m2}
  Submitters = {relay}
  CommitteeRequests <- MCCommitteeRequests
  Stakes = {}
  GiftedMembers = {}
  SLOTS = 1
  SECONDS_PER_HOUR = 1
  U32 = 16
  Users = {alice, bob}
  Amounts = {2}
  AddressLengths = {255, 256}
  MintNonces = {0, 1}
  MintRoutes <- MCTokens
  Limits = {3, 4}
  U64_MAX = 4
  MAX_TIME = 2
  MaxLimitUpdates = 2
  MaxWithdrawals = 2
  MaxSignatures = 2
  Watched <- MCWatched
SPECIFICATION WatchedSpec
INVARIANTS TypeOK MintedOncePerNonce SupplyBacked LimitsInOrder HourlyMintCapped RouteRecovers WithdrawalsNumbered
PROPERTY ImplementsLedger ImplementsLimiter
CHECK_DEADLOCK FALSE
