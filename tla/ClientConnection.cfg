CONSTANTS
  Application = Application
  Reconnectors = {r1, r2, r3}
  Connectors = {c1}
  Registered = TRUE
  AutoReconnect = TRUE
  MaxDrops = 2
  MaxRaised = 1
SPECIFICATION FairSpec
INVARIANT TypeOK
PROPERTIES DisconnectSticks Reconnects
