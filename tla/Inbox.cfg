\* Two users, three devices that may change hands, two notifications.
SPECIFICATION InboxSpec
CONSTANTS
  Users = {u1, u2}
  Notes = {n1, n2}
  Periods = {p1}
  Tokens = {t1, t2, t3}
  NoPeriod = NoPeriod
  Nobody = Nobody
SYMMETRY Symmetry
PROPERTIES PruneOnlyDead PushedIsKept
CHECK_DEADLOCK FALSE
