\* Three callers on one order, no failure.
SPECIFICATION Spec
CONSTANTS
  Orders = {"order"}
  Callers = {"service", "fills", "monitor"}
  Targets <- MCTargetsCalled
  MaxFailures = 0
INVARIANTS
  TerminalIsFinal
