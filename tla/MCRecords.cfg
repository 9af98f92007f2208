SPECIFICATION Spec
CONSTANTS
  admin = admin
  head = head
  mother = mother
  student = student
  kid1 = kid1
  kid2 = kid2
  vault = vault
  s1 = s1
  i1 = i1
  i2 = i2
  c1 = c1
  c2 = c2
  r1 = r1
  r2 = r2
  None = None
  Users = {admin, head, mother, student}
  Role <- MCRole
  Children = {kid1, kid2}
  Vaults = {vault}
  Owner <- MCOwner
  Schools = {s1}
  Reviewed = {mother}
  Items = {i1, i2}
  Credentials = {c1, c2}
  Recent = 1
  Recipients = {student, mother, None}
  MaxStamps = 3
  Requests = {r1, r2}
SYMMETRY Symmetry
INVARIANTS
  TrailEndsInRow
  IssuedForVerifiedSchools
  ListsWhatMayBeRead
CHECK_DEADLOCK FALSE
