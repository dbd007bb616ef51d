--------------------------- MODULE MCPermissions ---------------------------
(***************************************************************************)
(* Instances of Permissions for TLC: two accounts beside Core, one role     *)
(* that createRole puts under the governors, the guardian or itself, and    *)
(* one major role whose admin a governor may give away.                     *)
(***************************************************************************)
EXTENDS Permissions, TLC

CONSTANTS gov, guard, govern, guardian, minter, custom, default,
          roleAdmin, minor

MCCreations ==
  {<<custom, govern>>, <<custom, guardian>>, <<custom, custom>>, <<minter, custom>>}

(* ROLE_ADMIN, and a minor role that it manages.                            *)
MCRoleAdminCreations == {<<roleAdmin, govern>>, <<minor, roleAdmin>>}
=============================================================================
