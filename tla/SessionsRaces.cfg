\* Two requests at a time, statement by statement, and a second password change.
SPECIFICATION Spec
CONSTANTS
  Users = {u1}
  Tokens = {t1, t2}
  Reqs = {d1, d2}
  Ops = {"login", "refresh", "logout", "reset", "change", "delete"}
  MaxPasswords = 2
SYMMETRY Symmetry
INVARIANTS RotatedOnce SurvivorsAreNew NoOrphanSessions
PROPERTIES DeadStaysDead
CHECK_DEADLOCK FALSE
