\* Two devices that enter, edit and remove what they like, beside recurring posts.
SPECIFICATION AlertSpec
CONSTANTS
  e1 = e1  e2 = e2  e3 = e3  d1 = d1  d2 = d2
  Expenses = {e1, e2, e3}
  Amounts = {1, 2}
  Limits = {2, 3}
  Devices = {d1, d2}
  NoBudget = NoBudget
SYMMETRY BudgetSymmetry
PROPERTIES AlertIffCrossed NoLateAlarm
