CONSTANTS
  Application = Application
  Reconnectors = {r1}
  Connectors = {}
  Registered = TRUE
  AutoReconnect = TRUE
  MaxDrops = 1
  MaxRaised = 1
SPECIFICATION Spec
INVARIANT StaysDisconnected
