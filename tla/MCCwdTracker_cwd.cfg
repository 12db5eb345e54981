CONSTANTS
  here = here
  there = there
  Segment = {here, there}
  MaxBody = 4
  Output <- MCOutput
  MaxUnread = 14
SPECIFICATION Spec
INVARIANTS CwdWasReported CwdFollowsShell
CHECK_DEADLOCK FALSE
