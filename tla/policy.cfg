CONSTANTS
  a4 = a4
  b4 = b4
  a6 = a6
  Networks <- MCNetworks
  Addresses = {a4, b4, a6}
  Family <- MCFamily
  Interfaces = {"ens3", "lo", "docker0"}
  Bridges = {"docker0"}
  Settings <- MCSettings
  Ports = {22, 67, 68, 443, 546, 547, 8883}
  Target <- MCTarget
  Translated <- MCTranslated
  Attempts <- MCAttempts
  MaxFlows = 1
  Nothing = Nothing
SPECIFICATION PolicySpec
INVARIANT PolicyInv
INVARIANT AdminKeepsAccess
