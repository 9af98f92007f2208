\* Two tasks on a contribution and one on a payout share two connections.
\* No symmetry: a liveness property is checked.
CONSTANTS
  parent = parent
  admin = admin
  v1 = v1
  tuition = tuition
  school1 = school1
  NoRow = NoRow
  Users <- MCUsers
  RoleOf <- MCRoleOf
  Vaults = {v1}
  VaultOwner <- MCOwner
  VaultCurrency <- MCCurrency
  VaultContributors <- MCContributors
  Intents <- MCIntents
  Milestones = {tuition}
  MilestoneVault <- MCMilestoneVault
  PayableMilestones = {tuition}
  Schools = {school1}
  Bodies <- MCBodies
  MaxMinor = 4
  ContributionKeys = {k1}
  ContributionIds = {c1}
  ContributionTasks = {r1, r2}
  PayoutKeys = {k3}
  PayoutIds = {p1}
  PayoutTasks = {r3}
  Connections = 2
SPECIFICATION LockSpec
PROPERTIES
  ImplementsVaultMoney
  Answered
