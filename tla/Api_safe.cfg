SPECIFICATION Spec
CONSTANTS
  NoApiKey = NoApiKey
  NoMerchant = NoMerchant
  NoIdem = NoIdem
  NoRecord = NoRecord
  m1 = m1
  m2 = m2
  k1 = k1
  k2 = k2
  Requests = {r0, r1, r2, r3}
  r0 = r0
  i1 = i1
  b1 = b1
  Yesterday <- MCYesterday
  Merchants = {m1, m2}
  ApiKeys = {k1, k2, k3, k4}
  InitialKeys <- MCInitialKeys
  AskedScopes <- MCAskedScopes
  IdemKeys = {i1}
  Bodies = {b1, b2}
  MaxExpired = 2
SYMMETRY Symmetry
INVARIANTS ReplayIsOfItsRequest NotRunAgain OneSecretPerRotation KeysStayInTenant
CHECK_DEADLOCK FALSE
