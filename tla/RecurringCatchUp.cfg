\* Fair crons catch up with every rule, beside a manual run, a run cut short and
\* a rule that cannot be posted.
SPECIFICATION FairSpec
CONSTANTS
  u1 = u1  r1 = r1  r2 = r2  r3 = r3  i1 = i1  i2 = i2  c1 = c1
  Users = {u1}
  Rules = {r1, r2, r3}
  RuleUser <- MCRuleUser
  Period <- MCPeriod
  Instances = {i1, i2}
  Callers = {}
  CallerUser <- MCCallerUser
  MaxCatchup = 1
  Poisoned = {r3}
  MaxTime = 1
  MaxStops = 1
  MaxEdits = 0
  NoOne = NoOne
PROPERTIES CatchUp
