\* Two tasks in flight on one vault and two payouts, no discipline.
CONSTANTS
  parent = parent
  stranger = stranger
  admin = admin
  v1 = v1
  v2 = v2
  tuition = tuition
  books = books
  paid = paid
  school1 = school1
  NoRow = NoRow
  Users <- MCUsers
  RoleOf <- MCRoleOf
  Milestones <- MCMilestones
  PayableMilestones <- MCPayable
  Schools <- MCSchools
  Vaults <- OneVault
  VaultOwner <- OneOwner
  VaultCurrency <- OneCurrency
  Funded <- OneFunded
  MilestoneVault <- OneMilestoneVault
  Bodies <- GoodBodies
  MaxMinor = 4
  MaxDecisions = 6
  Keys = {k1, k2}
  Ids = {p1, p2}
  Requests = {r1, r2}
SYMMETRY Symmetric
SPECIFICATION BoundedSpec
INVARIANTS
  TypeOK
  MoneyFollowsDecisions
  OnePayoutPerKey
