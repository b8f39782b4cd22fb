CONSTANTS
  Helpers = {h1, h2, h3}
  NoHelper = NoHelper
  Packages = {p1}
  Extra = {}
  Purposes = {"legacy", "cleanup", "exact"}
  MaxInvocations = 4
SYMMETRY Symmetry
SPECIFICATION Spec
INVARIANTS RunsPacmanOnce StageHeldWhileUsed EvidenceTruthful
CHECK_DEADLOCK FALSE
