\* Two users, a category of one and a shared one, two requests at a time.
SPECIFICATION Spec
CONSTANTS
  u1 = u1  u2 = u2  c1 = c1  s1 = s1
  Users = {u1, u2}
  Categories = {c1, s1}
  CatOwner <- MCCatOwner
  System = System
  Items = {i1, i2, i3}
  Reqs = {d1, d2}
SYMMETRY Symmetry
INVARIANTS FiledUnderUsable RefusedOnlyIfRaced
PROPERTIES AllOrNothing
CHECK_DEADLOCK FALSE
