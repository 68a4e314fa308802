\* Two instances, a manual caller, an edit and a run cut short race for a rule.
SPECIFICATION Spec
CONSTANTS
  u1 = u1  r1 = r1  r2 = r2  r3 = r3  i1 = i1  i2 = i2  c1 = c1
  Users = {u1}
  Rules = {r1}
  RuleUser <- MCRuleUser
  Period <- MCPeriod
  Instances = {i1, i2}
  Callers = {c1}
  CallerUser <- MCCallerUser
  MaxCatchup = 2
  Poisoned = {}
  MaxTime = 2
  MaxStops = 1
  MaxEdits = 1
  NoOne = NoOne
SYMMETRY InstanceSymmetry
INVARIANTS TypeOK ToldOnlyPosted
PROPERTIES PostedOnce EachPostingAdvances
