\* Two tasks, two applications and two donations on two pools, in any order.
CONSTANTS
  donor = donor
  parent = parent
  student = student
  admin = admin
  child = child
  pool1 = pool1
  pool2 = pool2
  NoRow = NoRow
  Users <- MCUsers
  RoleOf <- MCRoleOf
  Children = {child}
  ChildOwner <- MCChildOwner
  Pools = {pool1, pool2}
  PoolBodies <- MCPoolBodies
  Forms <- MCForms
  MaxMinor = 2
  Amounts <- MCAmounts
  Applications = {a1, a2}
  Keys = {k1, k2}
  Requests = {r1, r2}
SYMMETRY Symmetric
\* a run stops when its keys and application ids are used up
CHECK_DEADLOCK FALSE
SPECIFICATION Spec
INVARIANTS
  TypeOK
  StatusIsLastDecision
  Conserved
  DecidedOnce
PROPERTY AwardMovesOnly
