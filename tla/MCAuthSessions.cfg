\* Two tasks of one user with up to three sessions, tasks lost anywhere.
CONSTANTS
  Emails = {e1}
  Sessions = {s1, s2, s3}
  Mails = {m1}
  Requests = {r1, r2}
  None = None
SYMMETRY Symmetric
SPECIFICATION Spec
INVARIANTS
  OneLiveSessionUnlessForked
  VerifiedByMail
PROPERTY EndedStaysEnded
