\* Two contributions and two payouts of one vault; approvals do not overlap,
\* settlements race with them.
CONSTANTS
  parent = parent
  admin = admin
  v1 = v1
  tuition = tuition
  school1 = school1
  NoRow = NoRow
  Users <- MCUsers
  RoleOf <- MCRoleOf
  Vaults = {v1}
  VaultOwner <- MCOwner
  VaultCurrency <- MCCurrency
  VaultContributors <- MCContributors
  Intents <- MCIntents
  Milestones = {tuition}
  MilestoneVault <- MCMilestoneVault
  PayableMilestones = {tuition}
  Schools = {school1}
  Bodies <- MCBodies
  MaxMinor = 4
  ContributionKeys = {k1, k2}
  ContributionIds = {c1, c2}
  ContributionTasks = {r1}
  PayoutKeys = {k3, k4}
  PayoutIds = {p1, p2}
  PayoutTasks = {r3, r4}
SYMMETRY Symmetric
SPECIFICATION SerialSpec
INVARIANTS
  LedgerReplaysBalance
  MoneyFollowsDecisions
  VersionCountsWrites
  PaidFromConfirmed
