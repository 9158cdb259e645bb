\* One connection at a time, or two of two users.
SPECIFICATION MCSpec
CONSTANTS
  Threads = {t1, t2}
  Names = {root, ann, bob}
  Root = root
  Roles = {"Admin", "Guest"}
  ManageRoles = {"Admin"}
  Passwords = {p1, p2}
  TTL = 1
  InitialIds = 3
  MaxRequests = 4
  MaxTime = 1
  MaxCrashes = 0
  PairRequests = 3
  PairTime = 2
  PairCrashes = 1
SYMMETRY Symmetry
INVARIANTS TypeOK OneActiveSession RootProtected SessionIdentity SessionsCurrent
PROPERTIES AdminsDeletedOrResetByRoot
\* The bounded clock and the bounded number of requests run out.
CHECK_DEADLOCK FALSE
