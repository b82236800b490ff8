\* SMS and TrxIDs: the right SMS, one about another amount and one from no carrier.
CONSTANTS
  Intents = {"i1"}
  TrxIds = {"mine", "other", "spoof"}
  Amount <- MCAmount
  SmsAmount <- MCSmsAmount
  Currency <- MCCurrency
  SmsCurrency <- MCSmsCurrency
  Store <- MCStore
  SmsStore <- MCSmsStore
  Gateway <- MCGateway
  Sender <- MCSender
  Trusted = {"mine", "other"}
  SignatureRequired = FALSE
  Workers = {w1, w2}
  NoIntent = NoIntent
  NoRef = NoRef
  OtherRef = OtherRef
  NoCurrency = NoCurrency
  NoStore = NoStore
  OpenLimit = 2
  Announced = {}
  Payable = {}
  Ageing = {}
  MaxRetries = 1
  MaxRows = 2
  MaxFaults = 0
SPECIFICATION Spec
INVARIANTS PostedOnEvidence
SYMMETRY WorkerSymmetry
