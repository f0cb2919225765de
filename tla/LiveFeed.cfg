SPECIFICATION Spec
CONSTANTS
  Sockets = {s1, s2, s3}
  Topics = {"alerts", "tickers"}
  NoSocket = NoSocket
  MaxFrames = 1
  MaxFaults = 2
INVARIANTS TypeOK HubAgrees SingleConnection
PROPERTIES FeedRestored
