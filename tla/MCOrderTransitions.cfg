\* Three callers on one order, up to two failures.
SPECIFICATION Spec
CONSTANTS
  Orders = {"order"}
  Callers = {"service", "fills", "monitor"}
  Targets <- MCTargets
  MaxFailures = 2
INVARIANTS
  EventsMatchCommits
PROPERTIES
  FollowsItsPast
