CONSTANTS
  Invocations = {i1, i2}
  Revisions = {r1, r2}
  Edits = {e}
  Dirs = {d1, d2, d3}
  NotRead = NotRead
  NoRecord = NoRecord
  None = None
  MaxKills = 1
  MaxRogue = 1
SYMMETRY Symmetry
SPECIFICATION Spec
INVARIANTS ReviewCoversGap BuildsWhatWasReviewed ReviewedBuildIsCurrent
CHECK_DEADLOCK FALSE
