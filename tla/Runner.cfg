\* Two run_contest processes, two scenarios in a system test.
CONSTANTS
  Procs = {p, q}
  Scenarios = 2
SPECIFICATION Spec
CHECK_DEADLOCK FALSE
INVARIANTS NothingLeftBehind OwnContestant SignalsOwnChild
 
