\* One device, every handler, and the scheduler between its reads and commits.
SPECIFICATION RacesSpec
CONSTANTS
  u1 = u1  u2 = u2  w1 = w1  w2 = w2  x1 = x1  d1 = d1  d2 = d2  e1 = e1
  t1 = t1  t2 = t2
  Users = {u1}
  Wallets = {w1, w2}
  Owner <- MCOwner
  TxIds = {t1, t2}
  Reqs = {d1}
  ReqUser <- MCReqUser
  Amounts = {1, 2}
  Openings = {1, 2}
  Patches <- MCPatches
  Ops = {"create", "update", "remove", "transfer", "edit", "removeWallet", "rules"}
  MaxKhr = 2
  MaxMoved = 1
  Keep = Keep
  Unissued = Unissued
  Deleted = Deleted
SYMMETRY TxSymmetry
INVARIANTS TypeOK LedgerExact RefusalIsPosted
PROPERTIES MoneyFollowsRows OverdraftIsPosted
CHECK_DEADLOCK FALSE
