CONSTANTS
  c1 = c1
  c2 = c2
  c3 = c3
  t1 = t1
  t2 = t2
  k1 = k1
  k2 = k2
  Clients <- MCClients
  Configs <- MCConfigs
  Contents <- MCContents
  Parts = 2
  Qualities = {0, 1}
  Past <- MCPast
  Nobody = Nobody
SPECIFICATION Spec
SYMMETRY Alike
INVARIANTS RecordIsWhole VerdictsHold OneVersionPerConfig
CHECK_DEADLOCK FALSE
