CONSTANTS
  Helpers = {h1, h2, h3}
  NoHelper = NoHelper
  Packages = {p1}
  Extra = {}
  Purposes = {"legacy", "cleanup", "exact"}
  MaxInvocations = 0
SPECIFICATION TransportSpec
PROPERTIES ClientEnds
CHECK_DEADLOCK FALSE
