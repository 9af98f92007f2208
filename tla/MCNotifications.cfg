\* Two tasks, two preferences, one notification.
CONSTANTS
  gift = gift
  fee = fee
  parent = parent
  NoRow = NoRow
  Subjects = {gift, fee}
  Kind <- MCKind
  Recipient <- MCRecipient
  Users = {parent}
  Chosen = {"contribution_received", "payout_approved"}
  Rows = {n1}
  PrefIds = {p1, p2}
  Tasks = {r1, r2}
SYMMETRY Symmetric
SPECIFICATION NoticeSpec
INVARIANTS
  AnnouncedAfterCommit
  PreferencesRespected
  OnePreferencePerType
