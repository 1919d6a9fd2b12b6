\* One agent process started twice, two server processes, four calls of the operator.
CONSTANTS
  Workers = {1}
  Benchmarks = {b}
  Contestants = {c, d}
  Streams = {s}
  Scores = {1}
  MaxServers = 2
  MaxBoots = 2
  MaxRequests = 4
SPECIFICATION Spec
CHECK_DEADLOCK FALSE
INVARIANTS KnownUnlessRestarted BoardFromStopped
PROPERTIES AgentStops ShutdownEnds
