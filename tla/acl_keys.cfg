\* An installation with acl.default_mode "open", as shipped; the key manager.
SPECIFICATION MCSpec
CONSTANTS
  root = root
  ann = ann
  Users = {root, ann}
  RoleOf <- AdminAndContributor
  Roles = {"Admin", "Contributor"}
  RolePerms <- RolesJson
  DefaultMode = "open"
  MaxNodes = 3
  MaxChmods = 2
  Threads = {t1, t2}
  TTL = 1
  MaxKeys = 2
  MaxTime = 2
INVARIANTS MCTypeOK DenyHidesSubtree ViewsRelated
PROPERTIES RemovalNeedsRight KeepsPromise ExpiredGoes
\* The bounds and the clock run out, and the last inode may be removed.
CHECK_DEADLOCK FALSE
