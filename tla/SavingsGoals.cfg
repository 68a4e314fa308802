\* Two devices that add to a goal, edit it and remove it.
SPECIFICATION GoalSpec
CONSTANTS
  d1 = d1  d2 = d2
  Targets = {2, 3, 4}
  TopUps = {1, 2}
  Savers = {d1, d2}
  MaxSaved = 5
  MaxEdits = 2
  NoGoal = NoGoal  Removed = Removed
SYMMETRY SaverSymmetry
INVARIANTS FiresOnce
PROPERTIES MilestoneIffCrossed NoneMissed
CHECK_DEADLOCK FALSE
