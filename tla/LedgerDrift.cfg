\* Two devices of one user beside another user, and the scheduler.
SPECIFICATION DriftSpec
CONSTANTS
  u1 = u1  u2 = u2  w1 = w1  w2 = w2  x1 = x1  d1 = d1  d2 = d2  e1 = e1
  t1 = t1  t2 = t2
  Users = {u1, u2}
  Wallets = {w1, w2, x1}
  Owner <- MCOwner
  TxIds = {t1}
  Reqs = {d1, d2, e1}
  ReqUser <- MCReqUser
  Amounts = {1}
  Openings = {1}
  Patches <- FewPatches
  Ops = {"create", "update", "remove", "transfer", "removeWallet", "rules"}
  MaxKhr = 1
  MaxMoved = 1
  Keep = Keep
  Unissued = Unissued
  Deleted = Deleted
SYMMETRY DeviceSymmetry
INVARIANTS RowsInOwnWallet ExactUnlessStale
PROPERTIES OnlyOwnMoney
CHECK_DEADLOCK FALSE
