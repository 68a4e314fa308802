\* Two devices of one user and two wallets, statement by statement; a balance of
\* more than 1 is out of range.
SPECIFICATION FairSpec
CONSTANTS
  Wallets = {w1, w2}
  Reqs = {d1, d2}
  User = user
  Amounts = {1}
  Openings = {0}
  Edits = {1}
  MaxKhr = 1
  MaxMoved = 1
  NoOne = NoOne
PROPERTIES DistinctPositions PrimaryTaken AsLedger EveryRequestEnds
CHECK_DEADLOCK FALSE
