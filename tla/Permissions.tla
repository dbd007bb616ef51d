---------------------------- MODULE Permissions ----------------------------
(***************************************************************************)
(* contracts/core/Permissions.sol, the access control of Core, on           *)
(* OpenZeppelin's AccessControl: who holds each role, and which role        *)
(* administers it.  Core itself is a governor and acts for the guardian in  *)
(* revokeOverride.                                                          *)
(***************************************************************************)
EXTENDS FiniteSets

CONSTANTS
  People,         \* accounts that call Core
  Core,           \* address of Core
  GOVERN_ROLE, GUARDIAN_ROLE,
  OtherMajors,    \* MINTER_ROLE, BURNER_ROLE and PCV_CONTROLLER_ROLE
  DEFAULT_ADMIN,  \* the admin of a role nobody created
  CustomRoles,    \* roles that createRole may create
  Creations,      \* bound: the (role, adminRole) pairs of createRole calls
  FirstGovernor   \* who calls init

Accounts == People \cup {Core}
Majors   == OtherMajors \cup {GOVERN_ROLE, GUARDIAN_ROLE}
Roles    == Majors \cup CustomRoles \cup {DEFAULT_ADMIN}

ASSUME PermissionsAssumption ==
  /\ Core \notin People
  /\ GOVERN_ROLE # GUARDIAN_ROLE
  /\ {GOVERN_ROLE, GUARDIAN_ROLE} \cap OtherMajors = {}
  /\ Majors \cap CustomRoles = {}
  /\ DEFAULT_ADMIN \notin Majors \cup CustomRoles
  /\ Creations \subseteq Roles \X Roles
  /\ FirstGovernor \in People

VARIABLES
  holders,  \* holders[r]: the accounts that have role r
  adminOf,  \* adminOf[r]: the role whose holders grant and revoke r
  caller    \* history: who sent the last transaction

vars == <<holders, adminOf, caller>>

(* The constructor and Core's init.                                         *)
Init ==
  /\ holders = [r \in Roles |-> IF r = GOVERN_ROLE THEN {Core, FirstGovernor} ELSE {}]
  /\ adminOf = [r \in Roles |-> IF r \in Majors THEN GOVERN_ROLE ELSE DEFAULT_ADMIN]
  /\ caller = FirstGovernor

HasRole(role, account) == account \in holders[role]
IsGovernor(account)    == HasRole(GOVERN_ROLE, account)
IsGuardian(account)    == HasRole(GUARDIAN_ROLE, account)

-----------------------------------------------------------------------------
(* AccessControl: grantRole, revokeRole and renounceRole.  Granting a role  *)
(* that is held, or revoking one that is not, changes nothing.              *)
DoGrant(by, role, account) ==
  /\ HasRole(adminOf[role], by)
  /\ holders' = [holders EXCEPT ![role] = @ \cup {account}]
  /\ UNCHANGED adminOf

DoRevoke(by, role, account) ==
  /\ HasRole(adminOf[role], by)
  /\ holders' = [holders EXCEPT ![role] = @ \ {account}]
  /\ UNCHANGED adminOf

GrantRole(by, role, account)  == DoGrant(by, role, account)  /\ caller' = by
RevokeRole(by, role, account) == DoRevoke(by, role, account) /\ caller' = by

RenounceRole(by, role) ==
  /\ holders' = [holders EXCEPT ![role] = @ \ {by}]
  /\ caller' = by
  /\ UNCHANGED adminOf

CreateRoleByAnyone(by, role, adminRole) ==   \* mutant: without onlyGovernor
  /\ adminOf' = [adminOf EXCEPT ![role] = adminRole]
  /\ caller' = by
  /\ UNCHANGED holders

(* createRole also changes the admin of a role that exists.                 *)
CreateRole(by, role, adminRole) ==
  /\ IsGovernor(by)
  /\ adminOf' = [adminOf EXCEPT ![role] = adminRole]
  /\ caller' = by
  /\ UNCHANGED holders

(* grantMinter, grantBurner, grantPCVController, grantGovernor and          *)
(* grantGuardian: onlyGovernor, then the check of grantRole.                *)
GrantMajor(by, role, account) == IsGovernor(by) /\ GrantRole(by, role, account)

RevokeMajor(by, role, account) == IsGovernor(by) /\ RevokeRole(by, role, account)

RevokeOverrideAny(by, role, account) ==   \* mutant: governors included
  /\ IsGuardian(by)
  /\ DoRevoke(Core, role, account)
  /\ caller' = by

(* revokeOverride: the guardian revokes through Core, except governors.     *)
CanRevokeOverride(by, role) ==
  /\ IsGuardian(by)
  /\ role # GOVERN_ROLE
  /\ HasRole(adminOf[role], Core)

RevokeOverride(by, role, account) ==
  /\ CanRevokeOverride(by, role)
  /\ DoRevoke(Core, role, account)
  /\ caller' = by

Call(by) ==
  \/ \E r \in Roles, a \in Accounts : GrantRole(by, r, a)
  \/ \E r \in Roles, a \in Accounts : RevokeRole(by, r, a)
  \/ \E r \in Roles : RenounceRole(by, r)
  \/ \E p \in Creations : CreateRole(by, p[1], p[2])
  \/ \E r \in Majors, a \in Accounts : GrantMajor(by, r, a)
  \/ \E r \in Majors, a \in Accounts : RevokeMajor(by, r, a)
  \/ \E r \in Roles, a \in Accounts : RevokeOverride(by, r, a)

Next == \E by \in People : Call(by)

Spec == Init /\ [][Next]_vars

-----------------------------------------------------------------------------
TypeOK ==
  /\ holders \in [Roles -> SUBSET Accounts]
  /\ adminOf \in [Roles -> Roles]
  /\ caller \in People

(* A role that nobody can be given: it administers itself, and nobody but   *)
(* Core holds it.                                                           *)
Unobtainable(r) == adminOf[r] = r /\ holders[r] \subseteq {Core}

(* Governance has been given up: nobody but Core is a governor, and every   *)
(* major role is administered by a role that nobody can be given, be it     *)
(* GOVERN_ROLE or the temporary role by which TIP-121c burns MINTER_ROLE.   *)
GovernanceGivenUp ==
  /\ Unobtainable(GOVERN_ROLE)
  /\ \A r \in Majors : Unobtainable(adminOf[r])

(* Giving governance up is final.  From then on nobody becomes a minter,    *)
(* burner, PCV controller, guardian or governor again, by any sequence of   *)
(* calls: Core, still a governor, can only be made to revoke.               *)
ShutdownIsFinal ==
  [][GovernanceGivenUp =>
       /\ GovernanceGivenUp'
       /\ \A r \in Majors : holders'[r] \subseteq holders[r]]_vars

(* Whoever administers no role (a guardian, a minter, anybody) cannot add a *)
(* holder to any, nor change an admin, nor remove a governor.               *)
AdministersNothing(a) ==
  ~IsGovernor(a) /\ \A r \in Roles : ~HasRole(adminOf[r], a)

NoEscalation ==
  [][AdministersNothing(caller') =>
       /\ adminOf' = adminOf
       /\ \A r \in Roles : holders'[r] \subseteq holders[r]
       /\ holders'[GOVERN_ROLE] = holders[GOVERN_ROLE]]_vars

(* "Appointed as a governor so guardian can have indirect access to revoke  *)
(* ability" (Permissions.sol:17): while Core is a governor, a guardian can  *)
(* revoke any role but governor, from whoever holds it.                     *)
GuardianCanRevoke ==
  IsGovernor(Core) =>
    \A g \in People, r \in Roles \ {GOVERN_ROLE} :
      IsGuardian(g) /\ holders[r] # {} => CanRevokeOverride(g, r)
=============================================================================
