\* Two tasks on one contribution and two keys, lost anywhere.
CONSTANTS
  c1 = c1
  k1 = k1
  k2 = k2
  contract = contract
  None = None
  Contributions = {c1}
  ContractRef <- MCContractRef
  LegacyRef <- MCLegacyRef
  Keys = {k1, k2}
  Identifier <- MCIdentifier
  Wallets = {w1}
  Requests = {r1, r2}
SYMMETRY Symmetric
SPECIFICATION Spec
INVARIANTS
  SettledAsTheNetworkSays
  ReferencesNameRows
  SentIsKnown
  DefiniteAnswers
