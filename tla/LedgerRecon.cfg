\* Replay of a legacy row against live postings in two currencies, drains, failing batches and restarts.
CONSTANTS
  TxIds = {"pay", "usd"}
  Payload <- MCPayload
  Accounts <- MCAccounts
  DebitNormal = {"1010"}
  Currencies = {"BDT", "USD"}
  NoCurrency = NoCurrency
  OutboxModes = {TRUE, FALSE}
  LegacyTx = {"pay"}
  RpcDrainers = {"rpc"}
  MaxAmount = 1
  BatchPostings = 2
  MaxStatements = 8
  MaxLate = 0
  Reconcilers = {"cron"}
  MaxPendingAttempts = 2
SPECIFICATION ReconFairSpec
INVARIANTS HealIsOfPosted
PROPERTY LegacySettled EveryPostingMirrored
