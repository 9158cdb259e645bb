------------------------------- MODULE AclMC -------------------------------
(***************************************************************************)
(* Model checking of Acl with the roles that matter of roles.json, and of  *)
(* KeyManager, one at a time.                                              *)
(***************************************************************************)
EXTENDS KeyManager

CONSTANTS
  root, ann,
  Users, RoleOf, Roles, RolePerms, DefaultMode, MaxNodes, MaxChmods

VARIABLES
  part,  \* the component that moves
  node, acl, lastId, chmods

treeVars == <<node, acl, lastId, chmods>>
Tree == INSTANCE Acl

ASSUME KeyConstants == KeyAssumption
ASSUME TreeConstants == Tree!RolesAssumption /\ Tree!BoundsAssumption

\* An Admin and a Contributor.
AdminAndContributor == [u \in {root, ann} |-> IF u = root THEN "Admin" ELSE "Contributor"]

\* roles.json, without the permissions that no handler of Acl asks for.
RolesJson ==
  [r \in {"Admin", "Contributor"} |->
     IF r = "Admin"
     THEN {"list", "read", "write", "delete_own", "delete_any", "export_raw",
          "manage_permissions"}
     ELSE {"list", "read", "write", "delete_own"}]

MCInit == part \in {"acl", "keys"} /\ Init /\ Tree!Init
MCNext ==
  /\ UNCHANGED part
  /\ \/ part = "acl" /\ Tree!Next /\ UNCHANGED vars
     \/ part = "keys" /\ Next /\ UNCHANGED treeVars
MCSpec ==
  MCInit /\ [][MCNext]_<<part, vars, treeVars>> /\ WF_vars(part = "keys" /\ SweepThread)

-----------------------------------------------------------------------------

\* What the tables and the dictionary of keys can hold.
MCTypeOK == TypeOK /\ Tree!TypeOK

\* A directory that denies read hides all that is below it (check_acl, deny wins).
DenyHidesSubtree == Tree!DenyHidesSubtree

\* tree shows what ls shows and fetch serves it; a file that fetch serves and ls hides has
\* no entry of its own or is decided by another one (_vfs_ls, _vfs_tree, _vfs_fetch).
ViewsRelated == Tree!ViewsRelated

\* A removal takes the right to delete one's own file, or a grant for somebody else's
\* (_vfs_rm).
RemovalNeedsRight == Tree!RemovalNeedsRight

=============================================================================
