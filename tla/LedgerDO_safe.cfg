\* A payment and its refund, every refusal, both outbox modes, overlapping drains.
CONSTANTS
  TxIds = {"pay", "refund", "usd", "huge", "single", "uneven", "stray", "wide"}
  Payload <- MCPayload
  Accounts <- MCAccounts
  DebitNormal <- MCDebitNormal
  Currencies = {"BDT", "USD"}
  NoCurrency = NoCurrency
  OutboxModes = {TRUE, FALSE}
  LegacyTx = {"pay"}
  RpcDrainers = {"rpc"}
  MaxAmount = 9
  BatchPostings = 2
  MaxStatements = 10
  MaxLate = 1
SPECIFICATION Spec
INVARIANTS
  NoOverdraft TrialBalance NoPostingLost OneCurrencyBook MirrorNeverAhead
  PendingHasWakeup
PROPERTY ImplementsBook
