-------------------------------- MODULE Acl --------------------------------
(***************************************************************************)
(* Who may do what in the virtual filesystem of the EFS-TDM server: the    *)
(* permissions of roles, the table acl, and the decisions of the handlers. *)
(*                                                                         *)
(* Sources: check_acl, ls and tree of server_pkg/core/vfs.py, the ACL      *)
(* functions of db.py, and the checks at the head of _vfs_ls, _vfs_tree,   *)
(* _vfs_fetch, _vfs_mkdir, _vfs_send, _vfs_mv, _vfs_rm and _vfs_chmod of   *)
(* server_pkg/server/server.py.                                            *)
(*                                                                         *)
(* A request is one step here: Vfs looks at how the steps of requests      *)
(* overlap, Sessions at roles that change.  Names are left out, so a place *)
(* is its parent directory.  Reading requests are operators on the state.  *)
(***************************************************************************)
EXTENDS Naturals, Sequences

CONSTANTS
  Users,        \* usernames
  RoleOf,       \* username -> role
  Roles,        \* rows of the table roles
  RolePerms,    \* role -> permissions (roles.json)
  DefaultMode,  \* acl.default_mode
  MaxNodes,     \* bound: inodes ever created
  MaxChmods     \* bound: chmod requests

Admin == "Admin"
AclPerms == {"read", "write", "delete_own", "delete_any"}

RolesAssumption ==
  /\ Admin \in Roles /\ RoleOf \in [Users -> Roles]
  /\ DOMAIN RolePerms = Roles
  /\ DefaultMode \in {"open", "closed"}

BoundsAssumption == MaxNodes \in Nat \ {0} /\ MaxChmods \in Nat

VARIABLES
  node,    \* id -> row of inodes
  acl,     \* the table acl: <<id, role, perm>> -> action
  lastId,  \* AUTOINCREMENT counter of inodes
  chmods   \* chmod requests so far

vars == <<node, acl, lastId, chmods>>

None == 0
RootId == 1

Keys == (1 .. MaxNodes) \X Roles \X AclPerms
Actions == {"grant", "deny"}

\* The rows the tables hold: ids the counter has given out, parents that exist (the
\* foreign key of inodes), entries of known roles and of inodes that exist: an inode
\* that is created is not born with the entries of one that was removed.
TypeOK ==
  /\ DOMAIN node \subseteq 1 .. lastId /\ lastId \in 1 .. MaxNodes
  /\ \A n \in DOMAIN node :
       node[n] \in [parent: DOMAIN node \cup {None}, dir: BOOLEAN, owner: Users \cup {"system"}]
  /\ DOMAIN acl \subseteq Keys
  /\ \A k \in DOMAIN acl : acl[k] \in Actions /\ k[1] \in DOMAIN node
  /\ chmods \in 0 .. MaxChmods

Init ==
  /\ node = [n \in {RootId} |-> [parent |-> None, dir |-> TRUE, owner |-> "system"]]
  /\ acl = <<>> /\ lastId = RootId /\ chmods = 0

-----------------------------------------------------------------------------
(* Permissions                                                             *)

Allowed(u, action) == action \in RolePerms[RoleOf[u]]

\* n and its ancestors, the least set with n and, with an inode, its parent (the
\* recursive query of check_acl).
Above(n) ==
  LET closed == {S \in SUBSET DOMAIN node :
                   n \in S /\ \A m \in S : node[m].parent # None => node[m].parent \in S}
  IN {m \in DOMAIN node : \A S \in closed : m \in S}

Below(n) == {m \in DOMAIN node : n \in Above(m)}
Children(n) == {m \in DOMAIN node : node[m].parent = n}

\* The inodes on the way up from n that have an entry for a role and a permission.
Holders(n, role, perm) == {m \in Above(n) : <<m, role, perm>> \in DOMAIN acl}

\* ORDER BY depth LIMIT 1: the closest of them, which has the others above it.
ClosestOf(holders) == CHOOSE m \in holders : holders \subseteq Above(m)

\* Mutant: the closest entry decides, whatever denyWins says.
CheckAcl_Closest(n, role, perm, mode, denyWins) ==
  \/ role = Admin
  \/ LET holders == Holders(n, role, perm)
     IN IF holders = {} THEN mode = "open" ELSE acl[<<ClosestOf(holders), role, perm>>] = "grant"

CheckAcl(n, role, perm, mode, denyWins) ==
  \/ role = Admin
  \/ LET holders == Holders(n, role, perm)
         deciding == IF denyWins THEN holders ELSE {ClosestOf(holders)}
     IN IF holders = {} THEN mode = "open"
        ELSE \A m \in deciding : acl[<<m, role, perm>>] # "deny"

\* get_acl: the entries of the inode itself, for whatever role.
HasAcl(n) == \E k \in DOMAIN acl : k[1] = n

Shown(u, n) == CheckAcl(n, RoleOf[u], "read", DefaultMode, TRUE)

\* What ls of directory d shows.
Listed(u, d) ==
  IF Allowed(u, "list") /\ node[d].dir /\ Shown(u, d)
  THEN {c \in Children(d) : Shown(u, c)} ELSE {}

\* What tree of n shows: a child that is not shown hides what is below it.
Drawn(u, n) ==
  IF Allowed(u, "list") /\ Shown(u, n)
  THEN LET below == Below(n)
           shown == {x \in below : Shown(u, x)}
       IN {m \in below : Above(m) \cap below \subseteq shown}
  ELSE {}

\* Mutant: the ACL of a file is not asked.
Fetchable_Unchecked(u, n, raw) ==
  ~node[n].dir /\ Allowed(u, IF raw THEN "export_raw" ELSE "read")

\* Will _vfs_fetch serve file n, raw or masked?
Fetchable(u, n, raw) ==
  /\ ~node[n].dir /\ Allowed(u, IF raw THEN "export_raw" ELSE "read")
  /\ HasAcl(n) => CheckAcl(n, RoleOf[u], "read", "open", FALSE)

\* The ACL check of send, mv and mkdir on the place they write to.
MayWrite(u, n) == HasAcl(n) => CheckAcl(n, RoleOf[u], "write", "open", FALSE)

\* Mutant: an explicit deny for the owner falls through to delete_any.
MayRemove_FallThrough(u, n) ==
  LET role == RoleOf[u]
      own == node[n].owner = u
      acl_of(perm, mode) == CheckAcl(n, role, perm, mode, FALSE)
  IN /\ \/ role = Admin
        \/ own /\ acl_of("delete_own", "open")
           /\ (acl_of("delete_own", "closed") \/ Allowed(u, "delete_own"))
        \/ acl_of("delete_any", "closed")
     /\ CheckAcl(n, role, "read", DefaultMode, FALSE)

\* The ladder of _vfs_rm.
MayRemove(u, n) ==
  LET role == RoleOf[u]
      own == node[n].owner = u
      acl_of(perm, mode) == CheckAcl(n, role, perm, mode, FALSE)
  IN /\ \/ role = Admin
        \/ ~(own /\ ~acl_of("delete_own", "open"))
           /\ \/ own /\ (acl_of("delete_own", "closed") \/ Allowed(u, "delete_own"))
              \/ acl_of("delete_any", "closed")
     /\ CheckAcl(n, role, "read", DefaultMode, FALSE)

-----------------------------------------------------------------------------
(* Requests that are served                                                *)

\* New rows, ids in order from lastId + 1.
Insert(rows) ==
  /\ lastId + Len(rows) <= MaxNodes
  /\ lastId' = lastId + Len(rows)
  /\ node' = [n \in DOMAIN node \cup (lastId + 1 .. lastId') |->
                IF n > lastId THEN rows[n - lastId] ELSE node[n]]
  /\ UNCHANGED <<acl, chmods>>

Row(u, p, dir) == [parent |-> p, dir |-> dir, owner |-> u]

\* mkdir of a name in p, or of a path whose parent directory is missing too: then
\* there is no parent to check.
Mkdir(u, p) ==
  /\ Allowed(u, "write") /\ node[p].dir
  /\ \/ MayWrite(u, p) /\ Insert(<<Row(u, p, TRUE)>>)
     \/ Insert(<<Row(u, p, TRUE), Row(u, lastId + 1, TRUE)>>)

\* send of a new file.
Send(u, p) ==
  /\ Allowed(u, "write") /\ node[p].dir /\ MayWrite(u, p)
  /\ Insert(<<Row(u, p, FALSE)>>)

\* send with overwrite: the file becomes the sender's.
Overwrite(u, n) ==
  /\ Allowed(u, "write") /\ ~node[n].dir
  /\ MayWrite(u, node[n].parent) /\ MayWrite(u, n)
  /\ node' = [node EXCEPT ![n].owner = u]
  /\ UNCHANGED <<acl, lastId, chmods>>

\* mv to another directory, by the owner or an Admin.  Requests that use a file as
\* a directory or move a directory into itself are in Vfs.
Mv(u, n, p) ==
  /\ Allowed(u, "write") /\ n # RootId /\ node[p].dir /\ p \notin Below(n)
  /\ RoleOf[u] = Admin \/ node[n].owner = u
  /\ MayWrite(u, p)
  /\ node' = [node EXCEPT ![n].parent = p]
  /\ UNCHANGED <<acl, lastId, chmods>>

\* acl.inode_id: ON DELETE CASCADE.
AclWithout(gone) == [k \in {j \in DOMAIN acl : j[1] \notin gone} |-> acl[k]]

\* Mutant: the connection has foreign keys off.
Gone_One(n) == {n}

\* The rows that go with inode n: inodes.parent_id is ON DELETE CASCADE.
Gone(n) == Below(n)

Rm(u, n) ==
  /\ n # RootId /\ MayRemove(u, n)
  /\ node' = [m \in DOMAIN node \ Gone(n) |-> node[m]]
  /\ acl' = AclWithout(Gone(n))
  /\ UNCHANGED <<lastId, chmods>>

\* set_acl and revoke_acl: INSERT OR REPLACE.
Chmod(u, n, role, perm, action) ==
  /\ Allowed(u, "manage_permissions")
  /\ chmods < MaxChmods /\ chmods' = chmods + 1
  /\ acl' = [k \in DOMAIN acl \cup {<<n, role, perm>>} |->
               IF k = <<n, role, perm>> THEN action ELSE acl[k]]
  /\ UNCHANGED <<node, lastId>>

Next ==
  \E u \in Users, n \in DOMAIN node :
    \/ Mkdir(u, n) \/ Send(u, n) \/ Overwrite(u, n) \/ Rm(u, n)
    \/ \E p \in DOMAIN node : Mv(u, n, p)
    \/ \E role \in Roles, perm \in AclPerms, action \in Actions : Chmod(u, n, role, perm, action)

Spec == Init /\ [][Next]_vars

-----------------------------------------------------------------------------
(* What the permissions promise                                            *)

Denied(m, role, perm) == <<m, role, perm>> \in DOMAIN acl /\ acl[<<m, role, perm>>] = "deny"

\* A deny of read on a directory hides everything below it from ls and tree, even
\* what has a grant of its own (INTERNALS.md, "A parent directory read deny hides
\* all children even if a child has an explicit grant").
DenyHidesSubtree ==
  \A u \in Users, d \in DOMAIN node :
    RoleOf[u] # Admin /\ Denied(d, RoleOf[u], "read") =>
      \A m \in Below(d), top \in DOMAIN node :
        m \notin Listed(u, top) /\ m \notin Drawn(u, top)

\* tree shows the node it starts from and what one would find by listing every
\* directory that is shown, and nothing else.
TreeAgreesWithLs ==
  \A u \in Users, top \in DOMAIN node :
    LET below == Below(top) \ {top}
        listed == {x \in below : x \in Listed(u, node[x].parent)}
    IN Drawn(u, top) \ {top} = {m \in below : Above(m) \cap below \subseteq listed}

\* What ls shows to a user with the permission to read, fetch serves: the files that are
\* hidden and the files that are refused are decided in two ways (deny_wins, closest).
ListedIsFetchable ==
  \A u \in Users, n \in DOMAIN node, raw \in BOOLEAN :
    /\ ~node[n].dir /\ n \in Listed(u, node[n].parent)
    /\ Allowed(u, IF raw THEN "export_raw" ELSE "read")
    => Fetchable(u, n, raw)

\* The closest entry on the way up, said without the chain.
Closest(n, role, perm, action) ==
  \E m \in Above(n) :
    /\ <<m, role, perm>> \in DOMAIN acl /\ acl[<<m, role, perm>>] = action
    /\ \A x \in Above(n) \ Above(m) : <<x, role, perm>> \notin DOMAIN acl

\* A file that fetch serves though ls hides it is not an Admin's; in an open installation
\* a deny is on its way up; and with an entry of its own it has a grant that is closer
\* than the deny, or no entry counts for the role.  Without an entry of its own nothing is
\* asked, against COMMANDS.md, "the nearest ancestor with an entry wins".
HiddenYetServed ==
  \A u \in Users, d \in DOMAIN node, raw \in BOOLEAN :
    \A n \in Children(d) \ Listed(u, d) :
      LET role == RoleOf[u]
      IN Allowed(u, "list") /\ Fetchable(u, n, raw) =>
           /\ role # Admin
           /\ DefaultMode = "open" => \E m \in Above(n) : Denied(m, role, "read")
           /\ HasAcl(n) => \/ Closest(n, role, "read", "grant")
                           \/ Holders(n, role, "read") = {}

\* tree shows what ls shows; fetch serves it, and what it serves beside is told apart.
ViewsRelated == TreeAgreesWithLs /\ ListedIsFetchable /\ HiddenYetServed

\* Nobody removes a file of his own that delete_own is denied for, whatever delete_any
\* says (INTERNALS.md, "An explicit deny on delete_own for the file owner is
\* absolute"), and removing what somebody else owns takes a grant of delete_any
\* (COMMANDS.md, "Default is closed - requires an explicit ACL grant").
RemovalNeedsRight ==
  [][\A u \in Users, n \in DOMAIN node \ DOMAIN node' :
       RoleOf[u] # Admin /\ Rm(u, n) =>
         IF node[n].owner = u THEN ~Closest(n, RoleOf[u], "delete_own", "deny")
         ELSE Closest(n, RoleOf[u], "delete_any", "grant")]_vars

=============================================================================
