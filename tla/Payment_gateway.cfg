\* One payment over the gateway's roads, two requests at a time, and the cron.
CONSTANTS
  Intents = {"i1"}
  TrxIds = {}
  Amount <- MCAmount
  SmsAmount <- MCSmsAmount
  Currency <- MCCurrency
  SmsCurrency <- MCSmsCurrency
  Store <- MCStore
  SmsStore <- MCSmsStore
  Gateway <- MCGateway
  Sender <- MCSender
  Trusted = {}
  SignatureRequired = FALSE
  Workers = {w1, w2}
  NoIntent = NoIntent
  NoRef = NoRef
  OtherRef = OtherRef
  NoCurrency = NoCurrency
  NoStore = NoStore
  OpenLimit = 2
  Announced = {"webhook", "anonymous", "notice"}
  Payable = {"i1"}
  Ageing = {"i1"}
  MaxRetries = 0
  MaxRows = 0
  MaxFaults = 2
SPECIFICATION FairSpec
INVARIANTS CompletedTogether CompletedIsPosted
PROPERTIES CompletedNeverFails PaidIsSettled
