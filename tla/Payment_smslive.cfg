\* Every SMS is dealt with although deliveries die.
CONSTANTS
  Intents = {"i1"}
  TrxIds = {"mine"}
  Amount <- MCAmount
  SmsAmount <- MCSmsAmount
  Currency <- MCCurrency
  SmsCurrency <- MCSmsCurrency
  Store <- MCStore
  SmsStore <- MCSmsStore
  Gateway <- MCGateway
  Sender <- MCSender
  Trusted = {"mine"}
  SignatureRequired = TRUE
  Workers = {w1}
  NoIntent = NoIntent
  NoRef = NoRef
  OtherRef = OtherRef
  NoCurrency = NoCurrency
  NoStore = NoStore
  OpenLimit = 2
  Announced = {}
  Payable = {}
  Ageing = {}
  MaxRetries = 1
  MaxRows = 4
  MaxFaults = 2
SPECIFICATION FairSpec
PROPERTY EverySmsDealtWith
