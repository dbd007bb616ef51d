------------------------- MODULE PermissionsProofs -------------------------
(***************************************************************************)
(* Theorems about Permissions, for any accounts, roles and createRole calls *)
(* a governor may make.  That giving governance up is final needs only      *)
(* TypeOK besides: every grant and every change of an admin takes a holder  *)
(* of the governor role who can send a transaction.                         *)
(***************************************************************************)
EXTENDS Permissions, TLAPS

LEMMA TypeStep ==
  ASSUME TypeOK, [Next]_vars
  PROVE  TypeOK'
  <1>1. ASSUME NEW by \in People, NEW r \in Roles, NEW a \in Accounts,
               \/ GrantRole(by, r, a)
               \/ RevokeRole(by, r, a)
               \/ RenounceRole(by, r)
               \/ GrantMajor(by, r, a)
               \/ RevokeMajor(by, r, a)
               \/ RevokeOverride(by, r, a)
        PROVE  TypeOK'
    BY <1>1 DEF TypeOK, GrantRole, RevokeRole, RenounceRole, GrantMajor,
                RevokeMajor, RevokeOverride, DoGrant, DoRevoke
  <1>2. ASSUME NEW by \in People, NEW p \in Creations, CreateRole(by, p[1], p[2])
        PROVE  TypeOK'
    <2>1. p[1] \in Roles /\ p[2] \in Roles
      BY PermissionsAssumption
    <2> QED
      BY <1>2, <2>1 DEF TypeOK, CreateRole
  <1>3. Majors \subseteq Roles
    BY DEF Roles
  <1>4. CASE UNCHANGED vars
    BY <1>4 DEF TypeOK, vars
  <1>5. ASSUME NEW by \in People, Call(by)
        PROVE  TypeOK'
    <2>1. CASE \E p \in Creations : CreateRole(by, p[1], p[2])
      BY <1>2, <2>1
    <2>2. CASE \E r \in Majors, a \in Accounts :
                 GrantMajor(by, r, a) \/ RevokeMajor(by, r, a)
      BY <1>1, <1>3, <2>2
    <2>3. CASE \E r \in Roles : RenounceRole(by, r)
      <3>1. Core \in Accounts
        BY DEF Accounts
      <3> QED
        BY <1>1, <2>3, <3>1
    <2>4. CASE \E r \in Roles, a \in Accounts :
                 GrantRole(by, r, a) \/ RevokeRole(by, r, a) \/ RevokeOverride(by, r, a)
      BY <1>1, <2>4
    <2> QED
      BY <1>5, <2>1, <2>2, <2>3, <2>4 DEF Call
  <1> QED
    BY <1>4, <1>5 DEF Next

(* After governance is given up no caller holds a role that administers a   *)
(* major role, so none is granted and no admin is changed.                  *)
LEMMA ShutdownStep ==
  ASSUME TypeOK, GovernanceGivenUp, [Next]_vars
  PROVE  /\ GovernanceGivenUp'
         /\ \A r \in Majors : holders'[r] \subseteq holders[r]
  <1> DEFINE Closed(r) == r \in Roles /\ Unobtainable(r)
  <1>1. /\ \A r \in Majors : r \in Roles /\ Closed(adminOf[r])
        /\ Closed(GOVERN_ROLE)
    BY DEF Majors, Roles, GovernanceGivenUp, TypeOK
  <1>2. \A r \in Roles, by \in People : Closed(adminOf[r]) => ~HasRole(adminOf[r], by)
    BY PermissionsAssumption DEF HasRole, Unobtainable
  <1>3. \A r \in Roles : Closed(r) => Closed(adminOf[r])
    BY DEF Unobtainable
  <1>4. \A by \in People : ~IsGovernor(by)
    BY <1>1, PermissionsAssumption DEF IsGovernor, HasRole, Unobtainable
  <1> DEFINE OnlyShrinks ==
        /\ adminOf' = adminOf
        /\ \A r \in Roles : Closed(adminOf[r]) => holders'[r] \subseteq holders[r]
  <1>5. ASSUME OnlyShrinks
        PROVE  /\ GovernanceGivenUp'
               /\ \A r \in Majors : holders'[r] \subseteq holders[r]
    <2>1. ASSUME NEW r \in Roles, Closed(r)
          PROVE  Unobtainable(r)'
      BY <1>3, <1>5, <2>1 DEF Unobtainable
    <2> QED
      BY <1>1, <1>5, <2>1 DEF GovernanceGivenUp
  <1>6. ASSUME NEW by \in People, NEW r \in Roles, NEW a \in Accounts,
               DoGrant(by, r, a)
        PROVE  OnlyShrinks
    BY <1>2, <1>6 DEF DoGrant, TypeOK
  <1>7. ASSUME NEW by, NEW r \in Roles, NEW a \in Accounts, DoRevoke(by, r, a)
        PROVE  OnlyShrinks
    BY <1>7 DEF DoRevoke, TypeOK
  <1>8. ASSUME NEW by \in People, NEW r \in Roles, RenounceRole(by, r)
        PROVE  OnlyShrinks
    BY <1>8 DEF RenounceRole, TypeOK
  <1>9. ASSUME NEW by \in People, NEW p \in Creations, CreateRole(by, p[1], p[2])
        PROVE  FALSE
    BY <1>4, <1>9 DEF CreateRole
  <1>10. CASE UNCHANGED vars
    BY <1>5, <1>10 DEF vars
  <1>11. ASSUME NEW by \in People, Call(by)
         PROVE  OnlyShrinks
    <2>1. \A r \in Majors : r \in Roles
      BY <1>1
    <2> HIDE DEF OnlyShrinks
    <2> QED
      BY <1>6, <1>7, <1>8, <1>9, <1>11, <2>1
         DEF Call, GrantRole, RevokeRole, GrantMajor, RevokeMajor, RevokeOverride
  <1> QED
    BY <1>5, <1>10, <1>11 DEF Next

(* Whoever administers no role can only renounce, or revoke as guardian.    *)
LEMMA EscalationStep ==
  ASSUME TypeOK, [Next]_vars, AdministersNothing(caller'), caller' # caller
         \/ holders' # holders \/ adminOf' # adminOf
  PROVE  /\ adminOf' = adminOf
         /\ \A r \in Roles : holders'[r] \subseteq holders[r]
         /\ holders'[GOVERN_ROLE] = holders[GOVERN_ROLE]
  <1>1. GOVERN_ROLE \in Roles /\ Majors \subseteq Roles
    BY DEF Majors, Roles
  <1>2. PICK by \in People : Call(by)
    BY DEF Next, vars
  <1>3. by = caller'
    BY <1>2 DEF Call, GrantRole, RevokeRole, RenounceRole, CreateRole,
                GrantMajor, RevokeMajor, RevokeOverride
  <1>4. /\ ~IsGovernor(by)
        /\ \A r \in Roles : ~HasRole(adminOf[r], by)
    BY <1>3 DEF AdministersNothing
  <1>5. ASSUME NEW r \in Roles, RenounceRole(by, r)
        PROVE  /\ adminOf' = adminOf
               /\ \A s \in Roles : holders'[s] \subseteq holders[s]
               /\ holders'[GOVERN_ROLE] = holders[GOVERN_ROLE]
    BY <1>1, <1>4, <1>5 DEF RenounceRole, TypeOK, IsGovernor, HasRole
  <1>6. ASSUME NEW r \in Roles, NEW a \in Accounts, RevokeOverride(by, r, a)
        PROVE  /\ adminOf' = adminOf
               /\ \A s \in Roles : holders'[s] \subseteq holders[s]
               /\ holders'[GOVERN_ROLE] = holders[GOVERN_ROLE]
    BY <1>1, <1>6 DEF RevokeOverride, CanRevokeOverride, DoRevoke, TypeOK
  <1> QED
    BY <1>1, <1>2, <1>4, <1>5, <1>6
       DEF Call, GrantRole, RevokeRole, CreateRole, GrantMajor, RevokeMajor,
           DoGrant, DoRevoke

LEMMA InitType == Init => TypeOK
  BY PermissionsAssumption DEF Init, TypeOK, Accounts, Majors, Roles

(* Roles and admins are accounts and roles.                                 *)
THEOREM TypeCorrect == Spec => []TypeOK
  <1>1. TypeOK /\ [Next]_vars => TypeOK'
    BY TypeStep
  <1> QED
    BY InitType, <1>1, PTL DEF Spec

(* Once nobody but Core is a governor, the holders of the major roles can   *)
(* only become fewer, for ever.                                             *)
THEOREM GivingUpGovernanceIsFinal == Spec => ShutdownIsFinal
  <1>1. TypeOK /\ [Next]_vars => TypeOK'
    BY TypeStep
  <1>2. TypeOK /\ [Next]_vars =>
          [GovernanceGivenUp =>
             /\ GovernanceGivenUp'
             /\ \A r \in Majors : holders'[r] \subseteq holders[r]]_vars
    BY ShutdownStep
  <1> QED
    BY InitType, <1>1, <1>2, PTL DEF Spec, ShutdownIsFinal

(* An account that administers no role adds no holder to any, changes no    *)
(* admin and removes no governor.                                           *)
THEOREM OnlyAdminsEscalate == Spec => NoEscalation
  <1>1. TypeOK /\ [Next]_vars => TypeOK'
    BY TypeStep
  <1>2. TypeOK /\ [Next]_vars =>
          [AdministersNothing(caller') =>
             /\ adminOf' = adminOf
             /\ \A r \in Roles : holders'[r] \subseteq holders[r]
             /\ holders'[GOVERN_ROLE] = holders[GOVERN_ROLE]]_vars
    BY EscalationStep DEF vars
  <1> QED
    BY InitType, <1>1, <1>2, PTL DEF Spec, NoEscalation
=============================================================================
