\* Two bots, three messages, one failed send; every buffer cuts a message or an ack somewhere.
CONSTANTS
  NumBots = 2
  Pool = 1
  BatchSize = 2
  MaxSeq = 3
  MaxFails = 1
  UpUnits = {3, 4}
  DummyUnits = 3
  PageUnits = 4
  DownUnits = 4
  AckUnits = 3
SPECIFICATION Spec
CHECK_DEADLOCK FALSE
INVARIANTS ClosedLoop SampleOwn
 
