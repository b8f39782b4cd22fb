CONSTANTS
  Helpers = {h1, h2, h3}
  NoHelper = NoHelper
  Packages = {p1, p2}
  Extra = {x1}
  Purposes = {"legacy", "cleanup", "exact"}
  MaxInvocations = 0
SYMMETRY Symmetry
SPECIFICATION TransportSpec
INVARIANTS OutcomeTruthful CleanupTruthful
CHECK_DEADLOCK FALSE
