CONSTANTS
  a1 = a1
  a2 = a2
  m1 = m1
  k1 = k1
  k2 = k2
  c1 = c1
  NoCode = NoCode
  Addrs = {a1, a2}
  Modules = {m1}
  Keys = {k1, k2}
  Values = {0, 1}
  Codes = {c1}
  Amounts = {0, 1}
  Sends <- MCSends
  MaxNonce = 1
  MaxPrecompileCalls = 2
  Uint8 = 256
  Scenarios <- MCScenarios
SPECIFICATION Spec
CHECK_DEADLOCK FALSE
INVARIANTS
  NothingToPanicAbout

  
