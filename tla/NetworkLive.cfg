\* One bridge, two tokens of one source chain of which one takes deposits;
\* tokens are paused and reopened; one member signs.
CONSTANTS
  root = root  admin = admin  m1 = m1  m2 = m2  relay = relay
  alice = alice  bob = bob  none = none
  Pubkeys <- MCPubkeys
  DefaultKey = none
  SuperAdmin = root
  ChainIds = {1, 2}
  TokenIds = {1, 2}
  SupportedIds = {2}
  Payers = {root, admin}
  ConfigRequests <- MCTwoTokens
  Fees = {0}
  MinAmounts = {1}
  GiftedRoutes <- MCNone
  Members = {m1}
  Submitters = {relay}
  CommitteeRequests <- MCSingle
  Stakes = {}
  GiftedMembers = {}
  SLOTS = 2
  SECONDS_PER_HOUR = 1
  U32 = 3
  Users = {alice}
  Amounts = {2}
  AddressLengths = {255}
  MintNonces = {0, 1}
  MintRoutes <- MCTokens
  Limits = {2}
  U64_MAX = 5
  MAX_TIME = 0
  MaxLimitUpdates = 2
  MaxWithdrawals = 2
  MaxSignatures = 1
  Corruptible = {}
  DepositMessages <- MCDepositsToOne
  UpdateMessages <- MCTwoUpdates
SPECIFICATION NetworkSpec
PROPERTIES DepositsMinted UpdatesApplied WithdrawalsReleased
CHECK_DEADLOCK FALSE
