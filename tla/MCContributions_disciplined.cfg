\* Three tasks in flight at once on two vaults, at most one per contribution.
CONSTANTS
  parent = parent
  friend = friend
  stranger = stranger
  admin = admin
  v1 = v1
  v2 = v2
  NoRow = NoRow
  MaxMinor = 2
  Users <- MCUsers
  RoleOf <- MCRoleOf
  Vaults <- TwoVaults
  VaultOwner <- TwoOwner
  VaultCurrency <- TwoCurrency
  VaultContributors <- TwoContributors
  Intents <- TwoVaultBodies
  Keys = {k1, k2}
  Ids = {c1, c2}
  Requests = {r1, r2, r3}
SYMMETRY Symmetric
SPECIFICATION DisciplinedSpec
INVARIANTS
  TotalIsConfirmedSum
  AuditChains
PROPERTIES
  LegalMovesOnly
  ImplementsBook
