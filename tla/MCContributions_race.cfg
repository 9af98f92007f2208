\* Three tasks in flight at once on one vault, no discipline.
CONSTANTS
  parent = parent
  friend = friend
  stranger = stranger
  admin = admin
  v1 = v1
  v2 = v2
  NoRow = NoRow
  MaxMinor = 4
  Users <- MCUsers
  RoleOf <- MCRoleOf
  Vaults <- OneVault
  VaultOwner <- OneOwner
  VaultCurrency <- OneCurrency
  VaultContributors <- OneContributors
  Intents <- Bodies
  Keys = {k1, k2}
  Ids = {c1, c2}
  Requests = {r1, r2, r3}
SYMMETRY Symmetric
SPECIFICATION Spec
INVARIANTS
  TypeOK
  LedgerReplaysBalance
  StatusMatchesLedger
  AuditMatchesLedger
  IdempotentReplies
