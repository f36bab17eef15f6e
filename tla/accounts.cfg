SPECIFICATION Spec
SYMMETRY Symmetry
CONSTANTS
  Requests = {r1, r2}
  Emails = {e1, e2}
  UserIds = {u1, u2}
  Tokens = {t1, t2, t3, t4}
  NULL = NULL
INVARIANTS
  TypeOK
  OneAccountPerEmail
  VerifiedThroughOwnMailbox
  LiveLinkIsMailed
  SessionsAreVerified
PROPERTIES
  VerifiedForever
CHECK_DEADLOCK FALSE
