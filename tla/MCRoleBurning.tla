--------------------------- MODULE MCRoleBurning ---------------------------
(***************************************************************************)
(* An instance of RoleBurning for TLC: the DAO timelock is the only         *)
(* governor, and may create the temporary role and move MINTER_ROLE.        *)
(***************************************************************************)
EXTENDS RoleBurning, TLC

CONSTANTS daoTimelock, govern, guardian, minter, temporary, default

MCCreations ==
  {<<temporary, govern>>, <<temporary, temporary>>, <<minter, temporary>>,
   <<minter, govern>>}
=============================================================================
