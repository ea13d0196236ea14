SPECIFICATION Spec
CONSTANTS
  Thread = {a, b}
  Token = {t1, t2}
  RefreshToken = {r1, r2}
  None = None
  MaxVersion = 3
  MaxReplies = 2
  MaxJobs = 4
SYMMETRY Symmetry
INVARIANTS StoredFollows AnnouncedOnce NothingMissed
