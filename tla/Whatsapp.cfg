SPECIFICATION TrafficSpec
CONSTANTS
  Sockets = {s1, s2}
  NoSocket = NoSocket
  MaxTimers = 1
  MaxInits = 2
  MaxResets = 1
  Customers = {m1}
  MaxTries = 2
INVARIANTS NeverStuckInitialising ConnectedMeansOpen  MediaHasOneWayOut
PROPERTIES  PairedSessionsReturn
