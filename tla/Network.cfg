\* Two bridges over one token of one source chain; its chain, fee and pause
\* change while it is deposited, minted, withdrawn and released; members are
\* blocklisted and reinstated after they signed, and one of them may turn.
CONSTANTS
  root = root  admin = admin  m1 = m1  m2 = m2  relay = relay
  alice = alice  bob = bob  none = none
  Pubkeys <- MCPubkeys
  DefaultKey = none
  SuperAdmin = root
  ChainIds = {1, 2, 3}
  TokenIds = {1}
  SupportedIds = {2}
  Payers = {root, admin}
  ConfigRequests <- MCTwoBridges
  Fees = {0, 1000000}
  MinAmounts = {1}
  GiftedRoutes <- MCNone
  Members = {m1, m2}
  Submitters = {relay}
  CommitteeRequests <- MCPair
  Stakes = {3333}
  GiftedMembers = {}
  SLOTS = 1
  SECONDS_PER_HOUR = 1
  U32 = 2
  Users = {alice}
  Amounts = {1, 2}
  AddressLengths = {255}
  MintNonces = {0, 1}
  MintRoutes <- MCRoute
  Limits = {2, 3}
  U64_MAX = 5
  MAX_TIME = 0
  MaxLimitUpdates = 1
  MaxWithdrawals = 2
  MaxSignatures = 2
  Corruptible = {m2}
  DepositMessages <- MCDepositsToTwo
  UpdateMessages <- MCOneUpdate
SPECIFICATION NetworkSpec
INVARIANTS NetworkTypeOK CustodyCoversSupply WithdrawalsPayable DepositsAcceptable MintTotalsCount  WithdrawalReleases
PROPERTIES  LimitsAreDecided 
CHECK_DEADLOCK FALSE
