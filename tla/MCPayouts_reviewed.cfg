\* Two vaults, at most one task per payout.
CONSTANTS
  parent = parent
  stranger = stranger
  admin = admin
  v1 = v1
  v2 = v2
  tuition = tuition
  books = books
  paid = paid
  school1 = school1
  NoRow = NoRow
  Users <- MCUsers
  RoleOf <- MCRoleOf
  Milestones <- MCMilestones
  PayableMilestones <- MCPayable
  Schools <- MCSchools
  Vaults <- TwoVaults
  VaultOwner <- TwoOwner
  VaultCurrency <- TwoCurrency
  Funded <- TwoFunded
  MilestoneVault <- TwoMilestoneVault
  Bodies <- MixedBodies
  MaxMinor = 3
  MaxDecisions = 6
  Keys = {k1, k2}
  Ids = {p1, p2}
  Requests = {r1, r2}
SYMMETRY Symmetric
SPECIFICATION ReviewedSpec
INVARIANTS
  BalancesMatchStatuses
  AuditChains
PROPERTY ImplementsBook
