\* Two orders submit the same TrxID at the same time.
CONSTANTS
  Intents = {"i1", "i2"}
  TrxIds = {"mine"}
  Amount <- MCAmount
  SmsAmount <- MCSmsAmount
  Currency <- MCCurrency
  SmsCurrency <- MCSmsCurrency
  Store <- MCStore
  SmsStore <- MCSmsStore
  Gateway <- MCGateway
  Sender <- MCSender
  Trusted = {"mine"}
  SignatureRequired = FALSE
  Workers = {w1, w2}
  NoIntent = NoIntent
  NoRef = NoRef
  OtherRef = OtherRef
  NoCurrency = NoCurrency
  NoStore = NoStore
  OpenLimit = 2
  Announced = {}
  Payable = {}
  Ageing = {}
  MaxRetries = 1
  MaxRows = 1
  MaxFaults = 0
SPECIFICATION Spec
INVARIANT OneTrxIdOnePayment
SYMMETRY WorkerSymmetry
