----------------------- MODULE ProtocolUpgradesProofs -----------------------
(***************************************************************************)
(* Proofs about ProtocolUpgrades and MainnetUpgrades for every history of   *)
(* proposals.                                                               *)
(*                                                                          *)
(* 1. Outside a transaction the configuration is the saved one, and inside  *)
(* one it differs from the saved one by what the running proposal gave; so  *)
(* whatever undoes it leaves only what executed proposals gave.             *)
(*                                                                          *)
(* 2. Read as a set of facts, the saved configuration changes by whole      *)
(* proposals: a running transaction has made of the saved facts what its    *)
(* commands so far make of them, and found what they ask there (Tracked).   *)
(*                                                                          *)
(* 3. What the order of execution forces follows by induction (Past): the   *)
(* proposals that must come before another did, and every fact holds, or    *)
(* does not, because of a proposal that nothing which also changes it came  *)
(* after for sure (Sourced).  So the configuration is between what holds    *)
(* for sure and what may hold, and what that implies can be evaluated once  *)
(* for a history: the assumptions of UpgradeOrder.                          *)
(***************************************************************************)
EXTENDS UpgradeOrder, FiniteSetTheorems, TLAPS

(* Every proposal of the history is one, and its commands are well formed.  *)
LEMMA ProposalTyped ==
  ASSUME NEW i \in Proposals
  PROVE  /\ History[i].by \in Accounts
         /\ History[i].deploys \in SUBSET Accounts
         /\ History[i].commands \in Seq(AllCommands)
<1> DEFINE Records == [name : STRING, by : Accounts, deploys : SUBSET Accounts,
                       commands : Seq(AllCommands)]
<1>1. History \in Seq(Records)
  BY HistoryAssumption
<1> HIDE DEF Records
<1>2. History[i] \in Records
  BY <1>1 DEF Proposals
<1> QED  BY <1>2 DEF Records

LEMMA LengthTyped == Len(History) \in Nat
BY HistoryAssumption

(* The command that is next exists.                                         *)
LEMMA CurrentTyped ==
  ASSUME TypeOK, Running
  PROVE  /\ tx.proposal \in Proposals
         /\ tx.next \in DOMAIN Commands
         /\ Executor \in Accounts
         /\ Current \in AllCommands
         /\ [tx EXCEPT !.next = @ + 1] # Idle
         /\ [tx EXCEPT !.next = @ + 1] \in [proposal : Proposals, next : Nat \ {0}]
         /\ [tx EXCEPT !.next = @ + 1].proposal = tx.proposal
         /\ [tx EXCEPT !.next = @ + 1].next = tx.next + 1
         /\ tx.next + 1 <= Len(Commands) + 1
<1>1. tx \in [proposal : Proposals, next : Nat \ {0}] /\ tx.next <= Len(Commands)
  BY DEF TypeOK, Running
<1>2. Commands \in Seq(AllCommands) /\ Executor \in Accounts
  BY <1>1, ProposalTyped DEF Commands, Executor
<1>3. tx.next \in DOMAIN Commands /\ Current \in AllCommands
  BY <1>1, <1>2 DEF Current
<1>4. 0 \notin Proposals
  BY LengthTyped DEF Proposals
<1> QED  BY <1>1, <1>2, <1>3, <1>4 DEF Idle

(* Changing one part of a configuration within its type keeps the type.     *)
LEMMA ConfigurationParts ==
  ASSUME NEW c \in Configurations
  PROVE  /\ \A r \in Roles : \A S \in SUBSET Accounts :
              [c EXCEPT !.roles[r] = S] \in Configurations
         /\ \A r \in Roles : \A t \in Roles :
              [c EXCEPT !.roleAdmin[r] = t] \in Configurations
         /\ \A t \in Administered : \A r \in Roles :
              [c EXCEPT !.contractAdmin[t] = r] \in Configurations
         /\ \A S \in SUBSET Accounts : [c EXCEPT !.oracle = S] \in Configurations
         /\ \A g \in Guardians : \A S \in SUBSET Accounts :
              [c EXCEPT !.safe[g] = S] \in Configurations
         /\ \A S \in SUBSET (Accounts \X {"all", "mint", "redeem"}) :
              [c EXCEPT !.paused = S] \in Configurations
BY DEF Configurations

-----------------------------------------------------------------------------
(* What a proposal's deployment leaves is a configuration.                  *)
LEMMA DeploymentTyped ==
  ASSUME NEW c \in Configurations, NEW S
  PROVE  /\ AfterDeployment(c, S) \in Configurations
         /\ AfterDeployment(c, S).roles = c.roles
BY HistoryAssumption DEF AfterDeployment, Configurations

(* An accepted command leaves the rest of the state typed.                  *)
LEMMA AcceptedTyped ==
  ASSUME TypeOK, NEW ops, Accepted(ops), config' \in Configurations
  PROVE  TypeOK'
<1>1. Running
  BY DEF Accepted
<1>2. tx' = [tx EXCEPT !.next = @ + 1] /\ UNCHANGED <<saved, progress>>
  BY DEF Accepted
<1>3. tx.proposal \in Pending /\ Pending' = Pending
  BY <1>1, <1>2 DEF TypeOK, Running, progress, Pending, Settled
<1>4. Commands' = Commands
  BY <1>1, <1>2, CurrentTyped DEF Commands
<1> QED  BY <1>1, <1>2, <1>3, <1>4, CurrentTyped DEF TypeOK, progress

(* The commands that change roles: the new holders are accounts.            *)
LEMMA RolesTyped ==
  ASSUME TypeOK, GrantRole \/ RevokeRole \/ BecomeAdminOf \/ MoverRetires
  PROVE  config' \in Configurations
<1> USE DEF Accepted
<1>1. Running /\ config \in Configurations
  BY DEF GrantRole, RevokeRole, BecomeAdminOf, MoverRetires, TypeOK
<1>2. Current \in AllCommands /\ Executor \in Accounts
  BY <1>1, CurrentTyped
<1>3. Current.arg \in Roles /\ (Current.op # "hasAnyOfRoles" => Current.who \in SUBSET Accounts)
  BY <1>2 DEF GrantRole, RevokeRole, BecomeAdminOf, MoverRetires, AllCommands, WellFormed,
              RoleCommands
<1>4. config.roles[Current.arg] \in SUBSET Accounts
  BY <1>1, <1>3 DEF Configurations
<1>5. CASE GrantRole
  <2>1. config.roles[Current.arg] \cup Current.who \in SUBSET Accounts
    BY <1>3, <1>4, <1>5 DEF GrantRole
  <2> QED  BY <1>1, <1>3, <1>5, <2>1, ConfigurationParts DEF GrantRole
<1>6. CASE RevokeRole
  <2>1. config.roles[Current.arg] \ Current.who \in SUBSET Accounts
    BY <1>4
  <2> QED  BY <1>1, <1>3, <1>6, <2>1, ConfigurationParts DEF RevokeRole
<1>7. CASE BecomeAdminOf
  <2>1. config.roles[Current.arg] \cup {Executor} \in SUBSET Accounts
    BY <1>2, <1>4
  <2> QED  BY <1>1, <1>3, <1>7, <2>1, ConfigurationParts DEF BecomeAdminOf
<1>8. CASE MoverRetires
  <2>1. config.roles[Current.arg] \ {Current.on} \in SUBSET Accounts
    BY <1>4
  <2> QED  BY <1>1, <1>3, <1>8, <2>1, ConfigurationParts DEF MoverRetires
<1> QED  BY <1>5, <1>6, <1>7, <1>8

(* The other commands leave a configuration too.                            *)
LEMMA OthersTyped ==
  ASSUME TypeOK, \/ SetRoleAdmin \/ SetContractAdminRole \/ Deposits \/ Swaps
                 \/ SafeAddresses \/ Pauses \/ SafeMoves \/ OtherCalls
  PROVE  config' \in Configurations
<1> DEFINE Kinds == {"all", "mint", "redeem"}
<1>1. Running /\ config \in Configurations
  BY DEF Accepted, SetRoleAdmin, SetContractAdminRole, Deposits, Swaps, SafeAddresses, Pauses,
         SafeMoves, OtherCalls, TypeOK
<1>2. Current \in AllCommands
  BY <1>1, CurrentTyped
<1>3. WellFormed(Current) /\ Current.on \in Accounts
  BY <1>2 DEF AllCommands
<1>4. /\ config.oracle \in SUBSET Accounts
      /\ config.paused \in SUBSET (Accounts \X Kinds)
      /\ \A g \in Guardians : config.safe[g] \in SUBSET Accounts
  BY <1>1 DEF Configurations
<1>5. CASE SetRoleAdmin
  <2>1. Current.arg \in Roles /\ Current.to \in Roles
    BY <1>3, <1>5 DEF SetRoleAdmin, Accepted, WellFormed, RoleCommands
  <2> QED  BY <1>1, <1>5, <2>1, ConfigurationParts DEF SetRoleAdmin
<1>6. CASE SetContractAdminRole
  <2>1. Current.arg \in Roles /\ Current.on \in Administered
    BY <1>3, <1>6 DEF SetContractAdminRole, Accepted, WellFormed, RoleCommands
  <2> QED  BY <1>1, <1>6, <2>1, ConfigurationParts DEF SetContractAdminRole
<1>7. CASE Deposits
  <2>1. Current.who \in SUBSET Accounts
    BY <1>3, <1>7 DEF Deposits, Accepted, WellFormed
  <2>2. config.oracle \cup Current.who \in SUBSET Accounts
        /\ config.oracle \ Current.who \in SUBSET Accounts
    BY <1>4, <2>1
  <2> QED  BY <1>1, <1>7, <2>2, ConfigurationParts DEF Deposits
<1>8. CASE Swaps
  <2>1. Current.to \in Accounts
    BY <1>3, <1>8 DEF Swaps, Accepted, WellFormed
  <2>2. (config.oracle \ {Current.arg}) \cup {Current.to} \in SUBSET Accounts
    BY <1>4, <2>1
  <2> QED  BY <1>1, <1>8, <2>2, ConfigurationParts DEF Swaps
<1>9. CASE SafeAddresses
  <2>1. Current.who \in SUBSET Accounts /\ Current.on \in Guardians
    BY <1>3, <1>9 DEF SafeAddresses, Accepted, WellFormed
  <2>2. config.safe[Current.on] \cup Current.who \in SUBSET Accounts
        /\ config.safe[Current.on] \ Current.who \in SUBSET Accounts
    BY <1>4, <2>1
  <2> QED  BY <1>1, <1>9, <2>1, <2>2, ConfigurationParts DEF SafeAddresses
<1>10. CASE Pauses
  <2>1. <<Current.on, Current.arg>> \in Accounts \X Kinds
    BY <1>3, <1>10 DEF Pauses, Accepted, WellFormed
  <2>2. config.paused \cup {<<Current.on, Current.arg>>} \in SUBSET (Accounts \X Kinds)
        /\ config.paused \ {<<Current.on, Current.arg>>} \in SUBSET (Accounts \X Kinds)
    BY <1>4, <2>1
  <2> QED  BY <1>1, <1>10, <2>2, ConfigurationParts DEF Pauses
<1>11. CASE SafeMoves
  <2>1. config.paused \ {<<Current.arg, "all">>} \in SUBSET (Accounts \X Kinds)
    BY <1>4
  <2> QED  BY <1>1, <1>11, <2>1, ConfigurationParts DEF SafeMoves
<1>12. CASE OtherCalls
  BY <1>1, <1>12 DEF OtherCalls
<1> QED  BY <1>5, <1>6, <1>7, <1>8, <1>9, <1>10, <1>11, <1>12

-----------------------------------------------------------------------------
(* Outside a transaction the machine is in one of three kinds of steps.     *)
LEMMA BetweenTyped ==
  ASSUME TypeOK, Propose \/ (\E i \in Proposals : Begin(i) \/ Veto(i))
  PROVE  TypeOK'
<1>1. CASE Propose
  <2>1. proposed + 1 \in Proposals /\ proposed \in Nat
    BY <1>1, LengthTyped DEF Propose, TypeOK, Proposals
  <2>2. config' \in Configurations /\ saved' \in Configurations
    BY <1>1, DeploymentTyped DEF Propose, TypeOK
  <2>3. 1 .. proposed \subseteq 1 .. proposed'
    BY <1>1, <2>1 DEF Propose
  <2>4. tx' = Idle /\ proposed' = proposed + 1
    BY <1>1 DEF Propose
  <2>5. proposed' \in 0 .. Len(History)
    BY <2>1, <2>4, LengthTyped DEF Proposals
  <2>6. UNCHANGED <<executed, vetoed, failed, last, faults>> /\ last \in 0 .. proposed'
    BY <1>1, <2>1, <2>4 DEF Propose, TypeOK
  <2>7. executed' \subseteq 1 .. proposed' /\ vetoed' \subseteq 1 .. proposed'
    BY <2>3, <2>6 DEF TypeOK
  <2>8. failed' \subseteq 1 .. proposed'
    BY <2>3, <2>6 DEF TypeOK
  <2>9. faults' \in 0 .. MaxFaults
    BY <2>6 DEF TypeOK
  <2>10. last' \in 0 .. proposed'
    BY <2>6
  <2>11. tx' = Idle'
    BY <2>4 DEF Idle
  <2> QED  BY <2>2, <2>5, <2>7, <2>8, <2>9, <2>10, <2>11 DEF TypeOK
<1>2. ASSUME NEW i \in Proposals, Begin(i)  PROVE TypeOK'
  <2>1. History[i].commands \in Seq(AllCommands)
    BY ProposalTyped
  <2>2. tx' \in [proposal : Proposals, next : Nat \ {0}] /\ tx'.proposal = i /\ tx'.next = 1
    BY <1>2 DEF Begin
  <2>3. i \in Pending'
    BY <1>2 DEF Begin, Pending, Settled, progress
  <2>4. tx'.next <= Len(Commands') + 1
    BY <2>1, <2>2 DEF Commands
  <2>5. UNCHANGED <<config, saved, proposed, executed, vetoed, failed, last, faults>>
    BY <1>2 DEF Begin, progress
  <2> QED  BY <2>2, <2>3, <2>4, <2>5 DEF TypeOK
<1>3. ASSUME NEW i \in Proposals, Veto(i)  PROVE TypeOK'
  BY <1>3 DEF Veto, TypeOK, Pending
<1> QED  BY <1>1, <1>2, <1>3

(* A transaction ends with what it did or with what was saved.              *)
LEMMA EndTyped ==
  ASSUME TypeOK, Commit \/ Revert \/ Fault
  PROVE  TypeOK'
<1>1. tx # Idle /\ tx.proposal \in Pending
  BY DEF Commit, Revert, Fault, Refused, Running, TypeOK
<1>2. tx.proposal \in 1 .. proposed
  BY <1>1 DEF Pending
<1>3. CASE Commit
  <2>1. executed' \subseteq 1 .. proposed' /\ failed' \subseteq 1 .. proposed'
    BY <1>2, <1>3 DEF Commit, TypeOK
  <2>2. last' \in 0 .. proposed'
    BY <1>2, <1>3, LengthTyped DEF Commit, TypeOK
  <2>3. tx' = Idle' /\ config' = config /\ saved' = config
    BY <1>3 DEF Commit, Idle
  <2>4. proposed' = proposed /\ vetoed' = vetoed /\ faults' = faults
    BY <1>3 DEF Commit
  <2> QED  BY <2>1, <2>2, <2>3, <2>4 DEF TypeOK
<1>4. CASE Revert
  BY <1>2, <1>4 DEF Revert, TypeOK
<1>5. CASE Fault
  BY <1>2, <1>5, HistoryAssumption DEF Fault, Refused, TypeOK
<1> QED  BY <1>3, <1>4, <1>5

LEMMA ExecuteTyped ==
  ASSUME TypeOK, Execute
  PROVE  TypeOK'
<1>1. config' \in Configurations
  BY RolesTyped, OthersTyped DEF Execute
<1>2. PICK ops : Accepted(ops)
  BY DEF Execute, GrantRole, RevokeRole, BecomeAdminOf, SetRoleAdmin, SetContractAdminRole,
         Deposits, Swaps, SafeAddresses, Pauses, SafeMoves, MoverRetires, OtherCalls
<1> QED  BY <1>1, <1>2, AcceptedTyped

LEMMA TypeStep ==
  ASSUME TypeOK, [Next]_vars
  PROVE  TypeOK'
<1>1. CASE Next
  BY <1>1, BetweenTyped, EndTyped, ExecuteTyped DEF Next, Progress
<1>2. CASE UNCHANGED vars
  BY <1>2 DEF vars, progress, TypeOK, Pending, Settled, Commands
<1> QED  BY <1>1, <1>2

(* Every configuration the machine reaches is one, and a transaction runs   *)
(* within the commands of a proposal that is waiting, for every history.    *)
THEOREM TypeCorrect == Spec => []TypeOK
<1>1. Init => TypeOK
  BY HistoryAssumption, LengthTyped DEF Init, TypeOK
<1>2. TypeOK /\ [Next]_vars => TypeOK'
  BY TypeStep
<1> QED  BY <1>1, <1>2, PTL DEF Spec

-----------------------------------------------------------------------------
(* Whoever holds a role in c and did not at first was given it by one of    *)
(* these proposals.                                                         *)
GivenBy(c, S) ==
  \A r \in Roles : \A a \in c.roles[r] \ Genesis.roles[r] : \E i \in S : <<r, a>> \in Grants[i]

Traced ==
  /\ GivenBy(saved, executed)
  /\ tx = Idle => GivenBy(config, executed)
  /\ tx # Idle => GivenBy(config, executed \cup {tx.proposal})

LEMMA GivenByMore ==
  ASSUME NEW c, NEW d, NEW S, NEW T, S \subseteq T, GivenBy(c, S),
         \A r \in Roles : d.roles[r] \subseteq c.roles[r]
  PROVE  GivenBy(d, T)
BY DEF GivenBy

(* What a command gives is in the grants of its proposal.                   *)
LEMMA GrantsRecorded ==
  ASSUME TypeOK, Running, Current.op \in {"grantMajor", "grant", "becomeAdmin"},
         NEW a \in Receivers(tx.proposal, Current)
  PROVE  <<Current.arg, a>> \in Grants[tx.proposal]
<1>1. /\ tx.proposal \in Proposals /\ tx.next \in DOMAIN Commands
      /\ Current \in AllCommands /\ Executor \in Accounts
  BY CurrentTyped
<1>2. Current.arg \in Roles /\ Current.who \subseteq Accounts
  BY <1>1 DEF AllCommands, WellFormed, RoleCommands
<1>3. a \in Accounts
  BY <1>1, <1>2 DEF Receivers, Executor
<1>4. Gives(tx.proposal, Current.arg, a)
  BY <1>1 DEF Gives, Commands, Current
<1> QED  BY <1>1, <1>2, <1>3, <1>4 DEF Grants

(* A command adds to the roles only what its proposal gives.                *)
LEMMA ExecuteTraced ==
  ASSUME TypeOK, Traced, Execute
  PROVE  Traced'
<1>1. Running /\ UNCHANGED <<saved, progress>> /\ tx' = [tx EXCEPT !.next = @ + 1]
  BY DEF Execute, Accepted, GrantRole, RevokeRole, BecomeAdminOf, SetRoleAdmin,
         SetContractAdminRole, Deposits, Swaps, SafeAddresses, Pauses, SafeMoves, MoverRetires,
         OtherCalls
<1>2. tx # Idle /\ tx' # Idle /\ tx'.proposal = tx.proposal
  BY <1>1, CurrentTyped DEF Running
<1> DEFINE S == executed \cup {tx.proposal}
<1>3. GivenBy(config, S) /\ config \in Configurations
  BY <1>2 DEF Traced, TypeOK
<1>4. GivenBy(config', S)
  <2>1. CASE GrantRole \/ BecomeAdminOf
    <3>1. /\ Current.op \in {"grantMajor", "grant", "becomeAdmin"}
          /\ config' = [config EXCEPT !.roles[Current.arg] = @ \cup Receivers(tx.proposal, Current)]
      BY <2>1 DEF GrantRole, BecomeAdminOf, Accepted, Receivers, Executor
    <3>2. \A a \in Receivers(tx.proposal, Current) : <<Current.arg, a>> \in Grants[tx.proposal]
      BY <1>1, <3>1, GrantsRecorded
    <3>3. \A r \in Roles : \A a \in config'.roles[r] :
            a \in config.roles[r] \/ (r = Current.arg /\ a \in Receivers(tx.proposal, Current))
      BY <1>3, <3>1 DEF Configurations
    <3> QED  BY <1>3, <3>2, <3>3 DEF GivenBy
  <2>2. CASE RevokeRole \/ MoverRetires
    <3>1. \A r \in Roles : config'.roles[r] \subseteq config.roles[r]
      BY <1>3, <2>2 DEF RevokeRole, MoverRetires, Configurations
    <3> QED  BY <1>3, <3>1, GivenByMore
  <2>3. CASE \/ SetRoleAdmin \/ SetContractAdminRole \/ Deposits \/ Swaps
             \/ SafeAddresses \/ Pauses \/ SafeMoves \/ OtherCalls
    <3>1. config'.roles = config.roles
      BY <1>3, <2>3 DEF SetRoleAdmin, SetContractAdminRole, Deposits, Swaps, SafeAddresses,
                        Pauses, SafeMoves, OtherCalls, Configurations
    <3> QED  BY <1>3, <3>1 DEF GivenBy
  <2> QED  BY <2>1, <2>2, <2>3 DEF Execute
<1> QED  BY <1>1, <1>2, <1>4 DEF Traced, GivenBy, progress

(* Outside a transaction nobody gets a role.                                *)
LEMMA BetweenTraced ==
  ASSUME TypeOK, Traced, Propose \/ (\E i \in Proposals : Begin(i) \/ Veto(i))
  PROVE  Traced'
<1>1. tx = Idle /\ GivenBy(config, executed) /\ executed' = executed
  BY DEF Propose, Begin, Veto, Traced, progress
<1>2. config'.roles = config.roles
  BY DeploymentTyped DEF Propose, Begin, Veto, TypeOK
<1>3. GivenBy(config', executed) /\ GivenBy(config', executed \cup {tx'.proposal})
  BY <1>1, <1>2, GivenByMore
<1>4. GivenBy(saved', executed)
  BY <1>3 DEF Propose, Begin, Veto, Traced
<1> QED  BY <1>1, <1>3, <1>4 DEF Traced, GivenBy

(* The end of a transaction adds it to the executed ones or undoes it.      *)
LEMMA EndTraced ==
  ASSUME TypeOK, Traced, Commit \/ Revert \/ Fault
  PROVE  Traced'
<1>1. tx # Idle /\ tx' = Idle
  BY DEF Commit, Revert, Fault, Refused, Running
<1>2. CASE Commit
  BY <1>1, <1>2 DEF Commit, Traced, GivenBy
<1>3. CASE Revert \/ Fault
  BY <1>1, <1>3 DEF Revert, Fault, Refused, Traced, GivenBy
<1> QED  BY <1>2, <1>3

(* For every history of proposals, in every order of execution, whoever     *)
(* holds a role between transactions held it at first or was given it by a  *)
(* proposal that was executed as a whole.                                   *)
THEOREM RolesAreGranted == Spec => []NoPowerFromNowhere
<1>1. Init => Traced
  BY DEF Init, Traced, GivenBy
<1>2. TypeOK /\ Traced /\ [Next]_vars => Traced'
  <2> SUFFICES ASSUME TypeOK, Traced, [Next]_vars  PROVE Traced'
    OBVIOUS
  <2>1. CASE Next
    BY <2>1, BetweenTraced, ExecuteTraced, EndTraced DEF Next, Progress
  <2>2. CASE UNCHANGED vars
    BY <2>2 DEF vars, progress, Traced, GivenBy
  <2> QED  BY <2>1, <2>2
<1>3. Traced => NoPowerFromNowhere
  BY DEF Traced, GivenBy, NoPowerFromNowhere, Between
<1> QED  BY <1>1, <1>2, <1>3, TypeCorrect, PTL DEF Spec

-----------------------------------------------------------------------------

(* The facts of a configuration, one kind at a time.                        *)
LEMMA FactKinds ==
  ASSUME NEW c, NEW f
  PROVE  f \in Facts(c) <=>
           \/ \E r \in Roles : \E a \in c.roles[r] : f = <<"role", r, a>>
           \/ \E r \in Roles : f = <<"roleAdmin", r, c.roleAdmin[r]>>
           \/ \E t \in Administered : f = <<"contractAdmin", t, c.contractAdmin[t]>>
           \/ \E a \in c.oracle : f = <<"deposit", "counted", a>>
           \/ \E g \in Guardians : \E a \in c.safe[g] : f = <<"safe", g, a>>
           \/ \E p \in c.paused : f = <<"paused", p[1], p[2]>>
BY DEF Facts

LEMMA RoleFact ==
  ASSUME NEW c, NEW x, NEW y
  PROVE  <<"role", x, y>> \in Facts(c) <=> x \in Roles /\ y \in c.roles[x]
BY FactKinds

LEMMA RoleAdminFact ==
  ASSUME NEW c, NEW x, NEW y
  PROVE  <<"roleAdmin", x, y>> \in Facts(c) <=> x \in Roles /\ y = c.roleAdmin[x]
BY FactKinds

LEMMA ContractAdminFact ==
  ASSUME NEW c, NEW x, NEW y
  PROVE  <<"contractAdmin", x, y>> \in Facts(c) <=> x \in Administered /\ y = c.contractAdmin[x]
BY FactKinds

LEMMA DepositFact ==
  ASSUME NEW c, NEW x, NEW y
  PROVE  <<"deposit", x, y>> \in Facts(c) <=> x = "counted" /\ y \in c.oracle
BY FactKinds

LEMMA SafeFact ==
  ASSUME NEW c, NEW x, NEW y
  PROVE  <<"safe", x, y>> \in Facts(c) <=> x \in Guardians /\ y \in c.safe[x]
BY FactKinds

LEMMA PausedFact ==
  ASSUME NEW c \in Configurations, NEW x, NEW y
  PROVE  <<"paused", x, y>> \in Facts(c) <=> <<x, y>> \in c.paused
<1>1. \A p \in c.paused : p = <<p[1], p[2]>>
  BY DEF Configurations
<1> QED  BY <1>1, FactKinds

(* A change of one part of a configuration changes the facts of that part.  *)
LEMMA RolesChanged ==
  ASSUME NEW c \in Configurations, NEW r \in Roles, NEW S
  PROVE  Facts([c EXCEPT !.roles[r] = S]) =
           {f \in Facts(c) : ~\E a : f = <<"role", r, a>>} \cup {<<"role", r, a>> : a \in S}
<1> DEFINE d == [c EXCEPT !.roles[r] = S]
<1>1. /\ d.roleAdmin = c.roleAdmin /\ d.contractAdmin = c.contractAdmin /\ d.oracle = c.oracle
      /\ d.safe = c.safe /\ d.paused = c.paused
      /\ \A q \in Roles : d.roles[q] = IF q = r THEN S ELSE c.roles[q]
  BY DEF Configurations
<1> HIDE DEF d
<1> SUFFICES ASSUME NEW f
             PROVE  f \in Facts(d) <=>
                      f \in {g \in Facts(c) : ~\E a : g = <<"role", r, a>>}
                            \cup {<<"role", r, a>> : a \in S}
  BY DEF d
<1>2. CASE \E q, a : f = <<"role", q, a>>
  <2>1. PICK q, a : f = <<"role", q, a>>
    BY <1>2
  <2>2. f \in Facts(d) <=> q \in Roles /\ a \in d.roles[q]
    BY <2>1, RoleFact
  <2>3. f \in Facts(c) <=> q \in Roles /\ a \in c.roles[q]
    BY <2>1, RoleFact
  <2> QED  BY <1>1, <2>1, <2>2, <2>3
<1>3. CASE ~\E q, a : f = <<"role", q, a>>
  <2>1. f \in Facts(d) <=> f \in Facts(c)
    BY <1>1, <1>3, FactKinds
  <2> QED  BY <1>3, <2>1 DEF d
<1> QED  BY <1>2, <1>3

LEMMA RoleAdminChanged ==
  ASSUME NEW c \in Configurations, NEW r \in Roles, NEW q
  PROVE  Facts([c EXCEPT !.roleAdmin[r] = q]) =
           {f \in Facts(c) : ~\E a : f = <<"roleAdmin", r, a>>} \cup {<<"roleAdmin", r, q>>}
<1> DEFINE d == [c EXCEPT !.roleAdmin[r] = q]
<1>1. /\ d.roles = c.roles /\ d.contractAdmin = c.contractAdmin /\ d.oracle = c.oracle
      /\ d.safe = c.safe /\ d.paused = c.paused
      /\ \A p \in Roles : d.roleAdmin[p] = IF p = r THEN q ELSE c.roleAdmin[p]
  BY DEF Configurations
<1> HIDE DEF d
<1> SUFFICES ASSUME NEW f
             PROVE  f \in Facts(d) <=>
                      f \in {g \in Facts(c) : ~\E a : g = <<"roleAdmin", r, a>>}
                            \cup {<<"roleAdmin", r, q>>}
  BY DEF d
<1>2. CASE \E p, a : f = <<"roleAdmin", p, a>>
  <2>1. PICK p, a : f = <<"roleAdmin", p, a>>
    BY <1>2
  <2>2. <<"roleAdmin", p, a>> \in Facts(d) <=> p \in Roles /\ a = d.roleAdmin[p]
    BY RoleAdminFact
  <2>3. <<"roleAdmin", p, a>> \in Facts(c) <=> p \in Roles /\ a = c.roleAdmin[p]
    BY RoleAdminFact
  <2> QED  BY <1>1, <2>1, <2>2, <2>3
<1>3. CASE ~\E p, a : f = <<"roleAdmin", p, a>>
  <2>1. f \in Facts(d) <=> f \in Facts(c)
    BY <1>1, <1>3, FactKinds
  <2> QED  BY <1>3, <2>1 DEF d
<1> QED  BY <1>2, <1>3

LEMMA ContractAdminChanged ==
  ASSUME NEW c \in Configurations, NEW t \in Administered, NEW q
  PROVE  Facts([c EXCEPT !.contractAdmin[t] = q]) =
           {f \in Facts(c) : ~\E a : f = <<"contractAdmin", t, a>>} \cup {<<"contractAdmin", t, q>>}
<1> DEFINE d == [c EXCEPT !.contractAdmin[t] = q]
<1>1. /\ d.roles = c.roles /\ d.roleAdmin = c.roleAdmin /\ d.oracle = c.oracle
      /\ d.safe = c.safe /\ d.paused = c.paused
      /\ \A p \in Administered : d.contractAdmin[p] = IF p = t THEN q ELSE c.contractAdmin[p]
  BY DEF Configurations
<1> HIDE DEF d
<1> SUFFICES ASSUME NEW f
             PROVE  f \in Facts(d) <=>
                      f \in {g \in Facts(c) : ~\E a : g = <<"contractAdmin", t, a>>}
                            \cup {<<"contractAdmin", t, q>>}
  BY DEF d
<1>2. CASE \E p, a : f = <<"contractAdmin", p, a>>
  <2>1. PICK p, a : f = <<"contractAdmin", p, a>>
    BY <1>2
  <2>2. <<"contractAdmin", p, a>> \in Facts(d) <=> p \in Administered /\ a = d.contractAdmin[p]
    BY ContractAdminFact
  <2>3. <<"contractAdmin", p, a>> \in Facts(c) <=> p \in Administered /\ a = c.contractAdmin[p]
    BY ContractAdminFact
  <2> QED  BY <1>1, <2>1, <2>2, <2>3
<1>3. CASE ~\E p, a : f = <<"contractAdmin", p, a>>
  <2>1. f \in Facts(d) <=> f \in Facts(c)
    BY <1>1, <1>3, FactKinds
  <2> QED  BY <1>3, <2>1 DEF d
<1> QED  BY <1>2, <1>3

LEMMA OracleChanged ==
  ASSUME NEW c \in Configurations, NEW S
  PROVE  Facts([c EXCEPT !.oracle = S]) =
           {f \in Facts(c) : ~\E a : f = <<"deposit", "counted", a>>}
           \cup {<<"deposit", "counted", a>> : a \in S}
<1> DEFINE d == [c EXCEPT !.oracle = S]
<1>1. /\ d.roles = c.roles /\ d.roleAdmin = c.roleAdmin /\ d.contractAdmin = c.contractAdmin
      /\ d.safe = c.safe /\ d.paused = c.paused /\ d.oracle = S
  BY DEF Configurations
<1> HIDE DEF d
<1> SUFFICES ASSUME NEW f
             PROVE  f \in Facts(d) <=>
                      f \in {g \in Facts(c) : ~\E a : g = <<"deposit", "counted", a>>}
                            \cup {<<"deposit", "counted", a>> : a \in S}
  BY DEF d
<1>2. f \in Facts(d) <=> \/ \E a \in S : f = <<"deposit", "counted", a>>
                         \/ f \in Facts(c) /\ ~\E a : f = <<"deposit", "counted", a>>
  BY <1>1, FactKinds
<1> QED  BY <1>2 DEF d

LEMMA SafeChanged ==
  ASSUME NEW c \in Configurations, NEW g \in Guardians, NEW S
  PROVE  Facts([c EXCEPT !.safe[g] = S]) =
           {f \in Facts(c) : ~\E a : f = <<"safe", g, a>>} \cup {<<"safe", g, a>> : a \in S}
<1> DEFINE d == [c EXCEPT !.safe[g] = S]
<1>1. /\ d.roles = c.roles /\ d.roleAdmin = c.roleAdmin /\ d.contractAdmin = c.contractAdmin
      /\ d.oracle = c.oracle /\ d.paused = c.paused
      /\ \A h \in Guardians : d.safe[h] = IF h = g THEN S ELSE c.safe[h]
  BY DEF Configurations
<1> HIDE DEF d
<1> SUFFICES ASSUME NEW f
             PROVE  f \in Facts(d) <=>
                      f \in {e \in Facts(c) : ~\E a : e = <<"safe", g, a>>}
                            \cup {<<"safe", g, a>> : a \in S}
  BY DEF d
<1>2. CASE \E h, a : f = <<"safe", h, a>>
  <2>1. PICK h, a : f = <<"safe", h, a>>
    BY <1>2
  <2>2. f \in Facts(d) <=> h \in Guardians /\ a \in d.safe[h]
    BY <2>1, SafeFact
  <2>3. f \in Facts(c) <=> h \in Guardians /\ a \in c.safe[h]
    BY <2>1, SafeFact
  <2> QED  BY <1>1, <2>1, <2>2, <2>3
<1>3. CASE ~\E h, a : f = <<"safe", h, a>>
  <2>1. f \in Facts(d) <=> f \in Facts(c)
    BY <1>1, <1>3, FactKinds
  <2> QED  BY <1>3, <2>1 DEF d
<1> QED  BY <1>2, <1>3

LEMMA PausedChanged ==
  ASSUME NEW c \in Configurations, NEW S
  PROVE  Facts([c EXCEPT !.paused = S]) =
           {f \in Facts(c) : ~\E a, b : f = <<"paused", a, b>>}
           \cup {<<"paused", p[1], p[2]>> : p \in S}
<1> DEFINE d == [c EXCEPT !.paused = S]
<1>1. /\ d.roles = c.roles /\ d.roleAdmin = c.roleAdmin /\ d.contractAdmin = c.contractAdmin
      /\ d.safe = c.safe /\ d.paused = S /\ d.oracle = c.oracle
  BY DEF Configurations
<1> HIDE DEF d
<1> SUFFICES ASSUME NEW f
             PROVE  f \in Facts(d) <=>
                      f \in {g \in Facts(c) : ~\E a, b : g = <<"paused", a, b>>}
                            \cup {<<"paused", p[1], p[2]>> : p \in S}
  BY DEF d
<1>2. f \in Facts(d) <=> \/ \E p \in S : f = <<"paused", p[1], p[2]>>
                         \/ f \in Facts(c) /\ ~\E a, b : f = <<"paused", a, b>>
  BY <1>1, FactKinds
<1> QED  BY <1>2 DEF d

-----------------------------------------------------------------------------
(* What command k of x makes of the facts F, and what it asks of them.      *)
Result(F, x, k) == (F \ Drops(k)) \cup Adds(x, k)
Finds(F, k)     == Needs(k) \subseteq F /\ Bars(k) \cap F = {}

(* Keeping all but some of the facts about one thing.                       *)
LEMMA PartReplaced ==
  ASSUME NEW F, NEW part, NEW key, NEW Old, NEW S, NEW T,
         \A a : <<part, key, a>> \in F <=> a \in Old
  PROVE  {f \in F : ~\E a : f = <<part, key, a>>} \cup {<<part, key, a>> : a \in (Old \ T) \cup S}
           = (F \ {<<part, key, a>> : a \in T}) \cup {<<part, key, a>> : a \in S}
<1> DEFINE Part(V) == {<<part, key, a>> : a \in V}
           Others   == {f \in F : ~\E a : f = <<part, key, a>>}
<1>1. \A V, a : <<part, key, a>> \in Part(V) <=> a \in V
  OBVIOUS
<1>2. \A V : \A f \in Part(V) : \E a : f = <<part, key, a>>
  OBVIOUS
<1>3. \A f : f \in Others <=> f \in F /\ ~\E a : f = <<part, key, a>>
  OBVIOUS
<1> HIDE DEF Part, Others
<1>4. ASSUME NEW f
      PROVE  f \in Others \cup Part((Old \ T) \cup S) <=> f \in (F \ Part(T)) \cup Part(S)
  <2>1. CASE \E a : f = <<part, key, a>>
    <3>1. PICK a : f = <<part, key, a>>
      BY <2>1
    <3>2. f \notin Others
      BY <1>3, <2>1
    <3> QED  BY <1>1, <3>1, <3>2
  <2>2. CASE ~\E a : f = <<part, key, a>>
    BY <1>2, <1>3, <2>2
  <2> QED  BY <2>1, <2>2
<1> QED  BY <1>4 DEF Part, Others

LEMMA RoleCommandFacts ==
  ASSUME TypeOK, GrantRole \/ RevokeRole \/ BecomeAdminOf \/ MoverRetires
  PROVE  /\ Facts(config') = Result(Facts(config), Executor, Current)
         /\ Finds(Facts(config), Current)
<1> DEFINE k == Current  x == Executor
           Role(S) == {<<"role", k.arg, a>> : a \in S}
<1>1. /\ config \in Configurations /\ k \in AllCommands
      /\ k.op \in {"grantMajor", "grant", "revokeMajor", "revoke", "renounce", "becomeAdmin",
                   "moverWithdrawRatio"}
  BY CurrentTyped DEF GrantRole, RevokeRole, BecomeAdminOf, MoverRetires, Accepted, TypeOK
<1>2. k.arg \in Roles
  BY <1>1 DEF AllCommands, WellFormed, RoleCommands
<1>3. Finds(Facts(config), k)
  BY <1>1 DEF Finds, Needs, Bars
<1>4. ASSUME NEW S, NEW T,
             config' = [config EXCEPT !.roles[k.arg] = (config.roles[k.arg] \ T) \cup S],
             Adds(x, k) = Role(S), Drops(k) = Role(T)
      PROVE  Facts(config') = Result(Facts(config), x, k)
  <2> DEFINE New == (config.roles[k.arg] \ T) \cup S
  <2>1. Facts(config') = {f \in Facts(config) : ~\E a : f = <<"role", k.arg, a>>} \cup Role(New)
    <3> HIDE DEF New, k
    <3>1. config' = [config EXCEPT !.roles[k.arg] = New]
      BY <1>4 DEF New
    <3> QED  BY <1>1, <1>2, <3>1, RolesChanged
  <2>2. ASSUME NEW a
        PROVE  <<"role", k.arg, a>> \in Facts(config) <=> a \in config.roles[k.arg]
    BY <1>2, RoleFact
  <2>3. Facts(config') = (Facts(config) \ Role(T)) \cup Role(S)
    <3> HIDE DEF k
    <3> QED  BY <2>1, <2>2, PartReplaced
  <2> QED  BY <1>4, <2>3 DEF Result
<1>5. CASE GrantRole
  <2>1. config' = [config EXCEPT !.roles[k.arg] = (config.roles[k.arg] \ {}) \cup k.who]
    BY <1>5 DEF GrantRole
  <2>2. Adds(x, k) = Role(k.who) /\ Drops(k) = Role({})
    BY <1>5 DEF GrantRole, Accepted, Adds, Drops
  <2> QED  BY <1>3, <1>4, <2>1, <2>2
<1>6. CASE RevokeRole
  <2>1. config' = [config EXCEPT !.roles[k.arg] = (config.roles[k.arg] \ k.who) \cup {}]
    BY <1>6 DEF RevokeRole
  <2>2. Adds(x, k) = Role({}) /\ Drops(k) = Role(k.who)
    BY <1>6 DEF RevokeRole, Accepted, Adds, Drops
  <2> QED  BY <1>3, <1>4, <2>1, <2>2
<1>7. CASE BecomeAdminOf
  <2>1. config' = [config EXCEPT !.roles[k.arg] = (config.roles[k.arg] \ {}) \cup {x}]
    BY <1>7 DEF BecomeAdminOf
  <2>2. Adds(x, k) = Role({x}) /\ Drops(k) = Role({})
    BY <1>7 DEF BecomeAdminOf, Accepted, Adds, Drops
  <2> QED  BY <1>3, <1>4, <2>1, <2>2
<1>8. CASE MoverRetires
  <2>1. config' = [config EXCEPT !.roles[k.arg] = (config.roles[k.arg] \ {k.on}) \cup {}]
    BY <1>8 DEF MoverRetires
  <2>2. Adds(x, k) = Role({}) /\ Drops(k) = Role({k.on})
    BY <1>8 DEF MoverRetires, Accepted, Adds, Drops
  <2> QED  BY <1>3, <1>4, <2>1, <2>2
<1> QED  BY <1>5, <1>6, <1>7, <1>8

(* What the contract of a command lets pass of deposits, safe addresses and *)
(* pauses.                                                                  *)
LEMMA PermittedDeposits ==
  ASSUME NEW c, NEW x, NEW k, Permitted(c, x, k),
         k.op \in {"addDeposits", "removeDeposits", "swapDeposit"}
  PROVE  MayChangeDeposits(c, x, k)
BY DEF Permitted, MayChangeRoles, MayChangeDeposits, MayChangeSafe, MayPause, MayMove, MayCall

LEMMA PermittedSafe ==
  ASSUME NEW c, NEW x, NEW k, Permitted(c, x, k),
         k.op \in {"setSafeAddresses", "unsetSafeAddresses"}
  PROVE  MayChangeSafe(c, x, k)
BY DEF Permitted, MayChangeRoles, MayChangeDeposits, MayChangeSafe, MayPause, MayMove, MayCall

LEMMA PermittedPause ==
  ASSUME NEW c, NEW x, NEW k, Permitted(c, x, k), k.op \in {"pause", "unpause", "pauseOne"}
  PROVE  MayPause(c, x, k)
BY DEF Permitted, MayChangeRoles, MayChangeDeposits, MayChangeSafe, MayPause, MayMove, MayCall

LEMMA AdminCommandFacts ==
  ASSUME TypeOK, SetRoleAdmin \/ SetContractAdminRole
  PROVE  /\ Facts(config') = Result(Facts(config), Executor, Current)
         /\ Finds(Facts(config), Current)
<1> DEFINE k == Current  x == Executor
<1>1. /\ config \in Configurations /\ k \in AllCommands
      /\ k.op \in {"createRole", "setContractAdminRole"}
  BY CurrentTyped DEF SetRoleAdmin, SetContractAdminRole, Accepted, TypeOK
<1>2. /\ k.arg \in Roles
      /\ k.op = "createRole" => k.to \in Roles
      /\ k.op = "setContractAdminRole" => k.on \in Administered
  BY <1>1 DEF AllCommands, WellFormed, RoleCommands
<1>3. Finds(Facts(config), k)
  BY <1>1 DEF Finds, Needs, Bars
<1>4. CASE SetRoleAdmin
  <2>1. config' = [config EXCEPT !.roleAdmin[k.arg] = k.to] /\ k.op = "createRole"
    BY <1>4 DEF SetRoleAdmin, Accepted
  <2>2. /\ Adds(x, k) = {<<"roleAdmin", k.arg, k.to>>}
        /\ Drops(k) = {<<"roleAdmin", k.arg, r>> : r \in (Roles \cup {NoRole}) \ {k.to}}
    BY <2>1 DEF Adds, Drops
  <2>3. config.roleAdmin[k.arg] \in Roles \cup {NoRole}
    BY <1>1, <1>2 DEF Configurations
  <2>4. Facts(config') = {f \in Facts(config) : ~\E a : f = <<"roleAdmin", k.arg, a>>}
                          \cup {<<"roleAdmin", k.arg, k.to>>}
    <3>1. config \in Configurations /\ k.arg \in Roles
      BY <1>1, <1>2
    <3> HIDE DEF k
    <3> QED  BY <2>1, <3>1, RoleAdminChanged
  <2>5. ASSUME NEW a, <<"roleAdmin", k.arg, a>> \in Facts(config)
        PROVE  a \in Roles \cup {NoRole}
    BY <2>3, <2>5, RoleAdminFact
  <2> QED  BY <1>3, <2>2, <2>4, <2>5 DEF Result
<1>5. CASE SetContractAdminRole
  <2>1. config' = [config EXCEPT !.contractAdmin[k.on] = k.arg] /\ k.op = "setContractAdminRole"
    BY <1>5 DEF SetContractAdminRole, Accepted
  <2>2. /\ Adds(x, k) = {<<"contractAdmin", k.on, k.arg>>}
        /\ Drops(k) = {<<"contractAdmin", k.on, r>> : r \in Roles \ {k.arg}}
    BY <2>1 DEF Adds, Drops
  <2>3. config.contractAdmin[k.on] \in Roles
    BY <1>1, <1>2, <2>1 DEF Configurations
  <2>4. Facts(config') = {f \in Facts(config) : ~\E a : f = <<"contractAdmin", k.on, a>>}
                          \cup {<<"contractAdmin", k.on, k.arg>>}
    <3>1. config \in Configurations /\ k.on \in Administered
      BY <1>1, <1>2, <2>1
    <3>2. config' = [config EXCEPT !.contractAdmin[k.on] = k.arg]
      BY <2>1
    <3> HIDE DEF k
    <3> QED  BY <3>1, <3>2, ContractAdminChanged
  <2>5. ASSUME NEW a, <<"contractAdmin", k.on, a>> \in Facts(config)
        PROVE  a \in Roles
    BY <2>3, <2>5, ContractAdminFact
  <2> QED  BY <1>3, <2>2, <2>4, <2>5 DEF Result
<1> QED  BY <1>4, <1>5

LEMMA OracleCommandFacts ==
  ASSUME TypeOK, Deposits \/ Swaps
  PROVE  /\ Facts(config') = Result(Facts(config), Executor, Current)
         /\ Finds(Facts(config), Current)
<1> DEFINE k == Current  x == Executor
           Counting(S) == {<<"deposit", "counted", a>> : a \in S}
<1>1. /\ config \in Configurations
      /\ k.op \in {"addDeposits", "removeDeposits", "swapDeposit"}
      /\ Permitted(config, x, k)
  BY DEF Deposits, Swaps, Accepted, TypeOK
<1>2. MayChangeDeposits(config, x, k)
  BY <1>1, PermittedDeposits
<1>3. ASSUME NEW a
      PROVE  <<"deposit", "counted", a>> \in Facts(config) <=> a \in config.oracle
  BY DepositFact
<1>4. ASSUME NEW S, NEW T, config' = [config EXCEPT !.oracle = (config.oracle \ T) \cup S],
             Adds(x, k) = Counting(S), Drops(k) = Counting(T \ S)
      PROVE  Facts(config') = Result(Facts(config), x, k)
  <2> DEFINE New == (config.oracle \ T) \cup S
  <2>1. Facts(config') = {f \in Facts(config) : ~\E a : f = <<"deposit", "counted", a>>}
                          \cup Counting(New)
    <3> HIDE DEF New, k
    <3>1. config' = [config EXCEPT !.oracle = New]
      BY <1>4 DEF New
    <3> QED  BY <1>1, <3>1, OracleChanged
  <2>2. Facts(config') = (Facts(config) \ Counting(T)) \cup Counting(S)
    BY <1>3, <2>1, PartReplaced
  <2>3. Counting(T) \ Counting(S) = Counting(T \ S)
    OBVIOUS
  <2>4. Result(Facts(config), x, k) = (Facts(config) \ Counting(T \ S)) \cup Counting(S)
    BY <1>4 DEF Result
  <2> HIDE DEF k, x, Counting
  <2> QED  BY <2>2, <2>3, <2>4
<1>5. CASE k.op = "addDeposits"
  <2>1. config' = [config EXCEPT !.oracle = (config.oracle \ {}) \cup k.who]
    BY <1>5 DEF Deposits, Swaps, Accepted
  <2>2. Adds(x, k) = Counting(k.who) /\ Drops(k) = Counting({} \ k.who)
    BY <1>5 DEF Adds, Drops
  <2>3. k.who \cap config.oracle = {}
    BY <1>2, <1>5 DEF MayChangeDeposits
  <2>4. Needs(k) = {} /\ Bars(k) = Counting(k.who)
    BY <1>5 DEF Needs, Bars, Adds
  <2>5. Facts(config') = Result(Facts(config), x, k)
    BY <1>4, <2>1, <2>2
  <2>6. Finds(Facts(config), k)
    BY <1>3, <2>3, <2>4 DEF Finds
  <2> QED  BY <2>5, <2>6
<1>6. CASE k.op = "removeDeposits"
  <2>1. config' = [config EXCEPT !.oracle = (config.oracle \ k.who) \cup {}]
    BY <1>6 DEF Deposits, Swaps, Accepted
  <2>2. Adds(x, k) = Counting({}) /\ Drops(k) = Counting(k.who \ {})
    BY <1>6 DEF Adds, Drops
  <2>3. k.who \subseteq config.oracle
    BY <1>2, <1>6 DEF MayChangeDeposits
  <2>4. Needs(k) = Counting(k.who) /\ Bars(k) = {}
    BY <1>6 DEF Needs, Bars, Drops
  <2>5. Facts(config') = Result(Facts(config), x, k)
    BY <1>4, <2>1, <2>2
  <2>6. Finds(Facts(config), k)
    BY <1>3, <2>3, <2>4 DEF Finds
  <2> QED  BY <2>5, <2>6
<1>7. CASE k.op = "swapDeposit"
  <2>1. config' = [config EXCEPT !.oracle = (config.oracle \ {k.arg}) \cup {k.to}]
    BY <1>7 DEF Deposits, Swaps, Accepted
  <2>2. Adds(x, k) = Counting({k.to}) /\ Drops(k) = Counting({k.arg} \ {k.to})
    BY <1>7 DEF Adds, Drops
  <2>3. k.arg \in config.oracle /\ k.to \notin config.oracle \ {k.arg}
    BY <1>2, <1>7 DEF MayChangeDeposits
  <2>4. Needs(k) = Counting({k.arg}) /\ Bars(k) = Counting({k.to} \ {k.arg})
    BY <1>7 DEF Needs, Bars
  <2>5. Facts(config') = Result(Facts(config), x, k)
    BY <1>4, <2>1, <2>2
  <2>6. Finds(Facts(config), k)
    BY <1>3, <2>3, <2>4 DEF Finds
  <2> QED  BY <2>5, <2>6
<1> QED  BY <1>1, <1>5, <1>6, <1>7

LEMMA SafeCommandFacts ==
  ASSUME TypeOK, SafeAddresses
  PROVE  /\ Facts(config') = Result(Facts(config), Executor, Current)
         /\ Finds(Facts(config), Current)
<1> DEFINE k == Current  x == Executor
           Safe(S) == {<<"safe", k.on, a>> : a \in S}
<1>1. /\ config \in Configurations /\ k \in AllCommands
      /\ k.op \in {"setSafeAddresses", "unsetSafeAddresses"}
      /\ Permitted(config, x, k)
  BY CurrentTyped DEF SafeAddresses, Accepted, TypeOK
<1>2. MayChangeSafe(config, x, k) /\ k.on \in Guardians
  BY <1>1, PermittedSafe DEF AllCommands, WellFormed
<1>3. ASSUME NEW a
      PROVE  <<"safe", k.on, a>> \in Facts(config) <=> a \in config.safe[k.on]
  BY <1>2, SafeFact
<1>4. ASSUME NEW S, NEW T, config' = [config EXCEPT !.safe[k.on] = (config.safe[k.on] \ T) \cup S],
             Adds(x, k) = Safe(S), Drops(k) = Safe(T)
      PROVE  Facts(config') = Result(Facts(config), x, k)
  <2> DEFINE New == (config.safe[k.on] \ T) \cup S
  <2>1. Facts(config') = {f \in Facts(config) : ~\E a : f = <<"safe", k.on, a>>} \cup Safe(New)
    <3> HIDE DEF New, k
    <3>1. config' = [config EXCEPT !.safe[k.on] = New]
      BY <1>4 DEF New
    <3> QED  BY <1>1, <1>2, <3>1, SafeChanged
  <2>2. Facts(config') = (Facts(config) \ Safe(T)) \cup Safe(S)
    <3> HIDE DEF k
    <3> QED  BY <1>3, <2>1, PartReplaced
  <2> QED  BY <1>4, <2>2 DEF Result
<1>5. CASE k.op = "setSafeAddresses"
  <2>1. config' = [config EXCEPT !.safe[k.on] = (config.safe[k.on] \ {}) \cup k.who]
    BY <1>5 DEF SafeAddresses, Accepted
  <2>2. Adds(x, k) = Safe(k.who) /\ Drops(k) = Safe({})
    BY <1>5 DEF Adds, Drops
  <2>3. k.who \cap config.safe[k.on] = {}
    BY <1>2, <1>5 DEF MayChangeSafe
  <2>4. Needs(k) = {} /\ Bars(k) = Safe(k.who)
    BY <1>5 DEF Needs, Bars, Adds
  <2> QED  BY <1>3, <1>4, <2>1, <2>2, <2>3, <2>4 DEF Finds
<1>6. CASE k.op = "unsetSafeAddresses"
  <2>1. config' = [config EXCEPT !.safe[k.on] = (config.safe[k.on] \ k.who) \cup {}]
    BY <1>6 DEF SafeAddresses, Accepted
  <2>2. Adds(x, k) = Safe({}) /\ Drops(k) = Safe(k.who)
    BY <1>6 DEF Adds, Drops
  <2>3. k.who \subseteq config.safe[k.on]
    BY <1>2, <1>6 DEF MayChangeSafe
  <2>4. Needs(k) = Safe(k.who) /\ Bars(k) = {}
    BY <1>6 DEF Needs, Bars, Drops
  <2> QED  BY <1>3, <1>4, <2>1, <2>2, <2>3, <2>4 DEF Finds
<1> QED  BY <1>1, <1>5, <1>6

LEMMA PauseCommandFacts ==
  ASSUME TypeOK, Pauses \/ SafeMoves
  PROVE  /\ Facts(config') = Result(Facts(config), Executor, Current)
         /\ Finds(Facts(config), Current)
<1> DEFINE k == Current  x == Executor
           Pausing(S) == {<<"paused", p[1], p[2]>> : p \in S}
<1>1. /\ config \in Configurations
      /\ k.op \in {"pause", "unpause", "pauseOne", "withdrawToSafeAddress"}
      /\ Permitted(config, x, k)
      /\ k \in AllCommands
  BY CurrentTyped DEF Pauses, SafeMoves, Accepted, TypeOK
<1>2. config.paused \subseteq Accounts \X {"all", "mint", "redeem"}
  BY <1>1 DEF Configurations
<1>3. ASSUME NEW a, NEW b
      PROVE  <<"paused", a, b>> \in Facts(config) <=> <<a, b>> \in config.paused
  BY <1>1, PausedFact
<1>4. ASSUME NEW a, NEW b, NEW S, NEW T, S \subseteq {<<a, b>>}, T \subseteq {<<a, b>>},
             config' = [config EXCEPT !.paused = (config.paused \ T) \cup S],
             Adds(x, k) = Pausing(S), Drops(k) = Pausing(T)
      PROVE  Facts(config') = Result(Facts(config), x, k)
  <2> DEFINE New == (config.paused \ T) \cup S
  <2>1. Facts(config') = {f \in Facts(config) : ~\E d, e : f = <<"paused", d, e>>} \cup Pausing(New)
    <3> HIDE DEF New, k
    <3>1. config' = [config EXCEPT !.paused = New]
      BY <1>4 DEF New
    <3> QED  BY <1>1, <3>1, PausedChanged
  <2>2. Result(Facts(config), x, k) = (Facts(config) \ Pausing(T)) \cup Pausing(S)
    BY <1>4 DEF Result
  <2>3. \A p \in config.paused \cup S \cup T : p = <<p[1], p[2]>>
    BY <1>2, <1>4
  <2> HIDE DEF k, x
  <2> SUFFICES ASSUME NEW f
               PROVE  f \in Facts(config') <=> f \in Result(Facts(config), x, k)
    OBVIOUS
  <2>4. CASE \E d, e : f = <<"paused", d, e>>
    <3>1. PICK d, e : f = <<"paused", d, e>>
      BY <2>4
    <3>2. f \in Facts(config') <=> <<d, e>> \in New
      BY <2>1, <2>3, <3>1
    <3>3. (f \in Pausing(S) <=> <<d, e>> \in S) /\ (f \in Pausing(T) <=> <<d, e>> \in T)
      BY <2>3, <3>1
    <3>4. f \in Facts(config) <=> <<d, e>> \in config.paused
      BY <1>3, <3>1
    <3> QED  BY <2>2, <3>2, <3>3, <3>4
  <2>5. CASE ~\E d, e : f = <<"paused", d, e>>
    BY <2>1, <2>2, <2>5
  <2> QED  BY <2>4, <2>5
<1>5. CASE k.op \in {"pause", "pauseOne"}
  <2> DEFINE S == {<<k.on, k.arg>>}
  <2>1. config' = [config EXCEPT !.paused = (config.paused \ {}) \cup S]
    BY <1>5 DEF Pauses, SafeMoves, Accepted
  <2>2. Adds(x, k) = Pausing(S) /\ Drops(k) = Pausing({})
    BY <1>5 DEF Adds, Drops
  <2>3. Facts(config') = Result(Facts(config), x, k)
    BY <1>4, <2>1, <2>2
  <2>4. k.op = "pause" => ~IsPaused(config, k.on) /\ k.arg = "all"
    <3>1. k.op = "pause" => MayPause(config, x, k) /\ k.arg = "all"
      BY <1>1, PermittedPause DEF AllCommands, WellFormed
    <3> QED  BY <3>1 DEF MayPause
  <2>5. /\ Needs(k) = {}
        /\ k.op = "pauseOne" => Bars(k) = {}
        /\ k.op = "pause" => Bars(k) = {<<"paused", k.on, k.arg>>}
    BY <1>5 DEF Needs, Bars, Adds
  <2> QED  BY <1>3, <1>5, <2>3, <2>4, <2>5 DEF Finds, IsPaused
<1>6. CASE k.op = "unpause"
  <2> DEFINE T == {<<k.on, k.arg>>}
  <2>1. config' = [config EXCEPT !.paused = (config.paused \ T) \cup {}]
    BY <1>6 DEF Pauses, SafeMoves, Accepted
  <2>2. Adds(x, k) = Pausing({}) /\ Drops(k) = Pausing(T)
    BY <1>6 DEF Adds, Drops
  <2>3. Facts(config') = Result(Facts(config), x, k)
    BY <1>4, <2>1, <2>2
  <2>4. IsPaused(config, k.on) /\ k.arg = "all"
    <3>1. MayPause(config, x, k) /\ k.arg = "all"
      BY <1>1, <1>6, PermittedPause DEF AllCommands, WellFormed
    <3> QED  BY <1>6, <3>1 DEF MayPause
  <2>5. Needs(k) = {<<"paused", k.on, k.arg>>} /\ Bars(k) = {}
    BY <1>6 DEF Needs, Bars, Drops
  <2> QED  BY <1>3, <2>3, <2>4, <2>5 DEF Finds, IsPaused
<1>7. CASE k.op = "withdrawToSafeAddress"
  <2> DEFINE T == {<<k.arg, "all">>}
  <2>1. config' = [config EXCEPT !.paused = (config.paused \ T) \cup {}]
    BY <1>7 DEF Pauses, SafeMoves, Accepted
  <2>2. Adds(x, k) = Pausing({}) /\ Drops(k) = Pausing(T)
    BY <1>7 DEF Adds, Drops
  <2>3. Facts(config') = Result(Facts(config), x, k)
    BY <1>4, <2>1, <2>2
  <2>4. Needs(k) = {} /\ Bars(k) = {}
    BY <1>7 DEF Needs, Bars
  <2> QED  BY <2>3, <2>4 DEF Finds
<1> QED  BY <1>1, <1>5, <1>6, <1>7

LEMMA OtherCommandFacts ==
  ASSUME TypeOK, OtherCalls
  PROVE  /\ Facts(config') = Result(Facts(config), Executor, Current)
         /\ Finds(Facts(config), Current)
<1>1. /\ Adds(Executor, Current) = {} /\ Drops(Current) = {}
      /\ Needs(Current) = {} /\ Bars(Current) = {}
  BY DEF OtherCalls, Accepted, Adds, Drops, Needs, Bars
<1> QED  BY <1>1 DEF OtherCalls, Result, Finds

(* A command that is accepted finds the facts it needs and changes those it *)
(* is said to change.                                                       *)
LEMMA CommandFacts ==
  ASSUME TypeOK, Execute
  PROVE  /\ Facts(config') = Result(Facts(config), Executor, Current)
         /\ Finds(Facts(config), Current)
         /\ Running /\ UNCHANGED <<saved, progress>> /\ tx' = [tx EXCEPT !.next = @ + 1]
<1>1. Running /\ UNCHANGED <<saved, progress>> /\ tx' = [tx EXCEPT !.next = @ + 1]
  BY DEF Execute, Accepted, GrantRole, RevokeRole, BecomeAdminOf, SetRoleAdmin,
         SetContractAdminRole, Deposits, Swaps, SafeAddresses, Pauses, SafeMoves, MoverRetires,
         OtherCalls
<1>2. CASE GrantRole \/ RevokeRole \/ BecomeAdminOf \/ MoverRetires
  BY <1>1, <1>2, RoleCommandFacts
<1>3. CASE SetRoleAdmin \/ SetContractAdminRole
  BY <1>1, <1>3, AdminCommandFacts
<1>4. CASE Deposits \/ Swaps
  BY <1>1, <1>4, OracleCommandFacts
<1>5. CASE SafeAddresses
  BY <1>1, <1>5, SafeCommandFacts
<1>6. CASE Pauses \/ SafeMoves
  BY <1>1, <1>6, PauseCommandFacts
<1>7. CASE OtherCalls
  BY <1>1, <1>7, OtherCommandFacts
<1> QED  BY <1>2, <1>3, <1>4, <1>5, <1>6, <1>7 DEF Execute

-----------------------------------------------------------------------------
(* A deployment copies the safe addresses of the guardians it copies.       *)
LEMMA InCopies ==
  ASSUME NEW i \in Proposals, NEW p
  PROVE  p \in Copies[i] <=>
           \E g \in DOMAIN CopiedFrom \cap History[i].deploys : \E a \in Accounts :
             p = << <<"safe", CopiedFrom[g], a>>, <<"safe", g, a>> >>
BY DEF Copies

LEMMA DeploymentFacts ==
  ASSUME NEW i \in Proposals, saved \in Configurations
  PROVE  Facts(AfterDeployment(saved, History[i].deploys)) = Atomic!AfterCopies(Copies[i])
<1> DEFINE D == History[i].deploys
           d == AfterDeployment(saved, D)
           F == Facts(saved)
<1>1. /\ d.roles = saved.roles /\ d.roleAdmin = saved.roleAdmin
      /\ d.contractAdmin = saved.contractAdmin /\ d.oracle = saved.oracle
      /\ d.paused = saved.paused
      /\ \A g \in Guardians :
           d.safe[g] = IF g \in D /\ g \in DOMAIN CopiedFrom THEN saved.safe[CopiedFrom[g]]
                       ELSE saved.safe[g]
  BY DEF AfterDeployment, Configurations
<1>2. /\ DOMAIN CopiedFrom \subseteq Guardians
      /\ \A g \in DOMAIN CopiedFrom : CopiedFrom[g] \in Guardians
  BY HistoryAssumption
<1>3. \A g \in Guardians : saved.safe[g] \subseteq Accounts
  BY DEF Configurations
<1> SUFFICES ASSUME NEW f
             PROVE  f \in Facts(d) <=> f \in Atomic!AfterCopies(Copies[i])
  OBVIOUS
<1>4. f \in Atomic!AfterCopies(Copies[i]) <=>
        \/ f \in F /\ ~\E p \in Copies[i] : f = p[2]
        \/ \E p \in Copies[i] : p[1] \in F /\ f = p[2]
  BY DEF Atomic!AfterCopies
<1> HIDE DEF d
<1>5. CASE \E g \in DOMAIN CopiedFrom \cap D : \E a : f = <<"safe", g, a>>
  <2>0. PICK g \in DOMAIN CopiedFrom \cap D : \E a : f = <<"safe", g, a>>
    BY <1>5
  <2>1. PICK a : f = <<"safe", g, a>>
    BY <2>0
  <2>2. f \in Facts(d) <=> a \in saved.safe[CopiedFrom[g]]
    <3>1. <<"safe", g, a>> \in Facts(d) <=> g \in Guardians /\ a \in d.safe[g]
      BY SafeFact
    <3> QED  BY <1>1, <1>2, <2>1, <3>1
  <2>3. <<"safe", CopiedFrom[g], a>> \in F <=> a \in saved.safe[CopiedFrom[g]]
    <3>1. <<"safe", CopiedFrom[g], a>> \in F <=>
            CopiedFrom[g] \in Guardians /\ a \in saved.safe[CopiedFrom[g]]
      BY SafeFact
    <3> QED  BY <1>2, <3>1
  <2>4. f \in F => a \in Accounts
    <3>1. <<"safe", g, a>> \in F <=> g \in Guardians /\ a \in saved.safe[g]
      BY SafeFact
    <3> QED  BY <1>2, <1>3, <2>1, <3>1
  <2>5. a \in saved.safe[CopiedFrom[g]] => a \in Accounts
    BY <1>2, <1>3
  <2>6. ASSUME NEW p \in Copies[i], f = p[2]
        PROVE  a \in Accounts /\ p[1] = <<"safe", CopiedFrom[g], a>>
    BY <2>1, <2>6, InCopies
  <2>7. a \in Accounts => << <<"safe", CopiedFrom[g], a>>, <<"safe", g, a>> >> \in Copies[i]
    BY <2>1, InCopies
  <2> DEFINE q == << <<"safe", CopiedFrom[g], a>>, <<"safe", g, a>> >>
  <2>8. q[1] = <<"safe", CopiedFrom[g], a>> /\ q[2] = f
    BY <2>1
  <2> HIDE DEF q, F
  <2>9. a \in Accounts => q \in Copies[i]
    BY <2>7 DEF q
  <2> QED  BY <1>4, <2>2, <2>3, <2>4, <2>5, <2>6, <2>8, <2>9
<1>6. CASE ~\E g \in DOMAIN CopiedFrom \cap D : \E a : f = <<"safe", g, a>>
  <2>1. ~\E p \in Copies[i] : f = p[2]
    BY <1>6, InCopies
  <2>2. f \in Facts(d) <=> f \in F
    <3>1. ASSUME NEW g \in Guardians, NEW a, f = <<"safe", g, a>>
          PROVE  a \in d.safe[g] <=> a \in saved.safe[g]
      BY <1>1, <1>6, <3>1
    <3> QED  BY <1>1, <3>1, FactKinds
  <2> QED  BY <1>4, <2>1, <2>2
<1> QED  BY <1>5, <1>6 DEF d

-----------------------------------------------------------------------------
(* What the first commands of a proposal do, command by command.            *)
LEMMA NothingYet ==
  ASSUME NEW i
  PROVE  /\ GivenUpTo(i, 0) = {} /\ TakenUpTo(i, 0) = {}
         /\ NeededUpTo(i, 0) = {} /\ BarredUpTo(i, 0) = {}
BY DEF GivenUpTo, TakenUpTo, NeededUpTo, BarredUpTo

LEMMA OneMore ==
  ASSUME NEW i, NEW n \in Nat
  PROVE  LET k == Cmd(i, n + 1) IN
         /\ GivenUpTo(i, n + 1) = (GivenUpTo(i, n) \ Drops(k)) \cup Adds(By(i), k)
         /\ TakenUpTo(i, n + 1) = (TakenUpTo(i, n) \ Adds(By(i), k)) \cup Drops(k)
<1> DEFINE A(m) == Adds(By(i), Cmd(i, m))  D(m) == Drops(Cmd(i, m))
<1>1. \A m \in 1 .. (n + 1) : m \in 1 .. n \/ m = n + 1
  OBVIOUS
<1>2. \A m \in 1 .. n : \A l \in (m + 1) .. (n + 1) : l \in (m + 1) .. n \/ l = n + 1
  OBVIOUS
<1>3. 1 .. n \subseteq 1 .. (n + 1) /\ n + 1 \in 1 .. (n + 1)
  OBVIOUS
<1>4. \A m \in 1 .. n : (m + 1) .. n \subseteq (m + 1) .. (n + 1) /\ n + 1 \in (m + 1) .. (n + 1)
  OBVIOUS
<1>5. ((n + 1) + 1) .. (n + 1) = {}
  OBVIOUS
<1>6. \A m \in Nat :
        /\ GivenUpTo(i, m) =
             UNION {{f \in A(p) : \A l \in (p + 1) .. m : f \notin D(l)} : p \in 1 .. m}
        /\ TakenUpTo(i, m) =
             UNION {{f \in D(p) : \A l \in (p + 1) .. m : f \notin A(l)} : p \in 1 .. m}
  BY DEF GivenUpTo, TakenUpTo
<1> HIDE DEF A, D
<1>7. ASSUME NEW f
      PROVE  f \in GivenUpTo(i, n + 1) <=>
               (f \in GivenUpTo(i, n) /\ f \notin D(n + 1)) \/ f \in A(n + 1)
  <2>1. f \in GivenUpTo(i, n + 1) <=>
          \E p \in 1 .. (n + 1) : f \in A(p) /\ \A l \in (p + 1) .. (n + 1) : f \notin D(l)
    BY <1>6
  <2>2. f \in GivenUpTo(i, n) <=>
          \E p \in 1 .. n : f \in A(p) /\ \A l \in (p + 1) .. n : f \notin D(l)
    BY <1>6
  <2> QED  BY <1>1, <1>2, <1>3, <1>4, <1>5, <2>1, <2>2
<1>8. ASSUME NEW f
      PROVE  f \in TakenUpTo(i, n + 1) <=>
               (f \in TakenUpTo(i, n) /\ f \notin A(n + 1)) \/ f \in D(n + 1)
  <2>1. f \in TakenUpTo(i, n + 1) <=>
          \E p \in 1 .. (n + 1) : f \in D(p) /\ \A l \in (p + 1) .. (n + 1) : f \notin A(l)
    BY <1>6
  <2>2. f \in TakenUpTo(i, n) <=>
          \E p \in 1 .. n : f \in D(p) /\ \A l \in (p + 1) .. n : f \notin A(l)
    BY <1>6
  <2> QED  BY <1>1, <1>2, <1>3, <1>4, <1>5, <2>1, <2>2
<1> QED  BY <1>7, <1>8 DEF A, D

(* What a command asks that an earlier one has touched is not asked of the  *)
(* configuration before the transaction.                                    *)
LEMMA OneMoreAsked ==
  ASSUME NEW i, NEW n \in Nat, NEW f
  PROVE  /\ f \in NeededUpTo(i, n + 1) =>
              \/ f \in NeededUpTo(i, n)
              \/ f \in Needs(Cmd(i, n + 1)) /\ \A l \in 1 .. n : f \notin Touches(By(i), Cmd(i, l))
         /\ f \in BarredUpTo(i, n + 1) =>
              \/ f \in BarredUpTo(i, n)
              \/ f \in Bars(Cmd(i, n + 1)) /\ \A l \in 1 .. n : f \notin Touches(By(i), Cmd(i, l))
<1>1. \A m \in 1 .. (n + 1) : m \in 1 .. n \/ m = n + 1
  OBVIOUS
<1>2. (n + 1) - 1 = n
  OBVIOUS
<1> QED  BY <1>1, <1>2 DEF NeededUpTo, BarredUpTo

LEMMA Touched ==
  ASSUME NEW i, NEW n \in Nat, NEW f,
         \A l \in 1 .. n : f \notin Touches(By(i), Cmd(i, l))
  PROVE  f \notin GivenUpTo(i, n) /\ f \notin TakenUpTo(i, n)
BY DEF GivenUpTo, TakenUpTo, Touches

(* A running transaction has made of the saved facts what its commands so   *)
(* far make of them, and found there what they ask.                         *)
Partly(F, G, i, n) ==
  /\ G = (F \ TakenUpTo(i, n)) \cup GivenUpTo(i, n)
  /\ NeededUpTo(i, n) \subseteq F
  /\ BarredUpTo(i, n) \cap F = {}

Tracked ==
  /\ tx = Idle => config = saved
  /\ tx # Idle => Partly(Facts(saved), Facts(config), tx.proposal, tx.next - 1)

LEMMA PartlyMore ==
  ASSUME NEW F, NEW G, NEW H, NEW i, NEW n \in Nat, Partly(F, G, i, n),
         Finds(G, Cmd(i, n + 1)), H = Result(G, By(i), Cmd(i, n + 1))
  PROVE  Partly(F, H, i, n + 1)
<1> DEFINE k == Cmd(i, n + 1)
<1>1. H = (F \ TakenUpTo(i, n + 1)) \cup GivenUpTo(i, n + 1)
  <2>1. /\ GivenUpTo(i, n + 1) = (GivenUpTo(i, n) \ Drops(k)) \cup Adds(By(i), k)
        /\ TakenUpTo(i, n + 1) = (TakenUpTo(i, n) \ Adds(By(i), k)) \cup Drops(k)
    BY OneMore
  <2>2. G = (F \ TakenUpTo(i, n)) \cup GivenUpTo(i, n)
    BY DEF Partly
  <2> QED  BY <2>1, <2>2 DEF Result
<1>2. ASSUME NEW f, \A l \in 1 .. n : f \notin Touches(By(i), Cmd(i, l))
      PROVE  f \in F <=> f \in G
  BY <1>2, Touched DEF Partly
<1>3. ASSUME NEW f \in NeededUpTo(i, n + 1)
      PROVE  f \in F
  BY <1>2, OneMoreAsked DEF Partly, Finds
<1>4. ASSUME NEW f \in BarredUpTo(i, n + 1)
      PROVE  f \notin F
  BY <1>2, OneMoreAsked DEF Partly, Finds
<1> QED  BY <1>1, <1>3, <1>4 DEF Partly

LEMMA TrackedStep ==
  ASSUME TypeOK, Tracked, [Next]_vars
  PROVE  Tracked'
<1>1. CASE Propose
  BY <1>1 DEF Propose, Tracked
<1>2. ASSUME NEW i \in Proposals, Begin(i)
      PROVE  Tracked'
  <2>1. tx' = [proposal |-> i, next |-> 1] /\ config' = config /\ saved' = saved /\ config = saved
    BY <1>2 DEF Begin, Tracked
  <2>2. tx'.proposal = i /\ tx'.next - 1 = 0 /\ tx' # Idle
    BY <2>1 DEF Idle
  <2>3. Partly(Facts(saved'), Facts(config'), i, 0)
    BY <2>1, NothingYet DEF Partly
  <2>4. Partly(Facts(saved'), Facts(config'), tx'.proposal, tx'.next - 1)
    BY <2>2, <2>3
  <2> QED  BY <2>2, <2>4 DEF Tracked
<1>3. CASE Execute
  <2>1. /\ Facts(config') = Result(Facts(config), Executor, Current)
        /\ Finds(Facts(config), Current)
        /\ Running /\ saved' = saved /\ tx' = [tx EXCEPT !.next = @ + 1]
    BY <1>3, CommandFacts
  <2> DEFINE i == tx.proposal  n == tx.next - 1
  <2>2. /\ tx # Idle /\ tx' # Idle /\ tx'.proposal = i /\ tx'.next - 1 = n + 1
        /\ n \in Nat /\ n + 1 = tx.next
    <3>1. tx \in [proposal : Proposals, next : Nat \ {0}] /\ tx # Idle
      BY <2>1 DEF TypeOK, Running
    <3>2. tx'.proposal = tx.proposal /\ tx'.next = tx.next + 1 /\ tx.next \in Nat \ {0}
      BY <2>1, <3>1
    <3>3. tx' # Idle
      BY <3>2 DEF Idle
    <3> QED  BY <3>1, <3>2, <3>3
  <2>3. Executor = By(i) /\ Current = Cmd(i, n + 1)
    BY <2>2 DEF Executor, Current, Commands, By, Cmd
  <2>4. Partly(Facts(saved), Facts(config), i, n)
    BY <2>2 DEF Tracked
  <2> HIDE DEF n, i
  <2>5. Partly(Facts(saved), Facts(config'), i, n + 1)
    BY <2>1, <2>2, <2>3, <2>4, PartlyMore
  <2> QED  BY <2>1, <2>2, <2>5 DEF Tracked
<1>4. CASE Commit \/ Revert \/ Fault
  BY <1>4 DEF Commit, Revert, Fault, Refused, Tracked
<1>5. ASSUME NEW i \in Proposals, Veto(i)
      PROVE  Tracked'
  BY <1>5 DEF Veto, Tracked
<1>6. CASE UNCHANGED vars
  BY <1>6 DEF vars, Tracked
<1> QED  BY <1>1, <1>2, <1>3, <1>4, <1>5, <1>6 DEF Next, Progress

-----------------------------------------------------------------------------
(* The steps of the machine are those of the atomic one, or nothing to it.  *)
Deploys    == Atomic!Propose /\ last' = last
Runs(i)    == Atomic!Execute(i) /\ last' = i
Refuses(i) == Atomic!Veto(i) /\ last' = last
Unseen     == UNCHANGED <<Atomic!vars, last>>

LEMMA SizeTyped ==
  ASSUME NEW i \in Proposals
  PROVE  Size(i) \in Nat /\ History[i].commands \in Seq(AllCommands)
BY ProposalTyped DEF Size

LEMMA ProposeIsAtomic ==
  ASSUME TypeOK, Tracked, Propose
  PROVE  Deploys
<1>1. /\ tx = Idle /\ config = saved /\ saved \in Configurations
      /\ proposed \in Nat /\ proposed < Len(History) /\ proposed + 1 \in Proposals
  BY LengthTyped DEF Propose, Tracked, TypeOK, Proposals
<1>2. Facts(saved)' = Atomic!AfterCopies(Copies[proposed + 1])
  <2>1. saved' = AfterDeployment(saved, History[proposed + 1].deploys)
    BY <1>1 DEF Propose
  <2> QED  BY <1>1, <2>1, DeploymentFacts
<1>3. ASSUME NEW i \in Atomic!Pending
      PROVE  <<i, proposed + 1>> \notin Order
  <2>1. i \in Pending /\ i \in Proposals
    BY <1>1, <1>3, LengthTyped DEF Atomic!Pending, Pending, Settled, Proposals
  <2>2. proposed + 1 < i + Window /\ <<Name(i), Name(proposed + 1)>> \notin Awaited
    BY <2>1 DEF Propose
  <2>3. ~Before(i, proposed + 1)
    BY <1>1, <2>1, <2>2, HistoryAssumption DEF Before, Proposals
  <2> QED  BY <2>3 DEF Order
<1> QED  BY <1>1, <1>2, <1>3 DEF Propose, Deploys, Atomic!Propose

LEMMA CommitIsAtomic ==
  ASSUME TypeOK, Tracked, Commit
  PROVE  Runs(tx.proposal)
<1> DEFINE i == tx.proposal
<1>1. /\ tx # Idle /\ i \in Proposals /\ i \in Pending
      /\ tx.next \in Nat /\ tx.next > Size(i) /\ tx.next <= Size(i) + 1
  BY DEF Commit, TypeOK, Size, Commands
<1>2. tx.next - 1 = Size(i)
  BY <1>1, SizeTyped
<1>3. Partly(Facts(saved), Facts(config), i, Size(i))
  BY <1>1, <1>2 DEF Tracked
<1>4. /\ Given[i] = GivenUpTo(i, Size(i)) /\ Taken[i] = TakenUpTo(i, Size(i))
      /\ Needed[i] = NeededUpTo(i, Size(i)) /\ Barred[i] = BarredUpTo(i, Size(i))
  BY <1>1 DEF Given, Taken, Needed, Barred
<1>5. i \in Atomic!Pending
  BY <1>1 DEF Atomic!Pending, Pending, Settled
<1> QED  BY <1>3, <1>4, <1>5 DEF Commit, Runs, Atomic!Execute, Partly

LEMMA VetoIsAtomic ==
  ASSUME NEW i \in Proposals, Veto(i)
  PROVE  Refuses(i)
BY DEF Veto, Refuses, Atomic!Veto, Atomic!Pending, Pending, Settled, VetoableProposal

LEMMA AtomicStep ==
  ASSUME TypeOK, Tracked, [Next]_vars
  PROVE  Deploys \/ (\E i \in Proposals : Runs(i) \/ Refuses(i)) \/ Unseen
<1>1. CASE Propose
  BY <1>1, ProposeIsAtomic
<1>2. CASE Commit
  <2>1. tx.proposal \in Proposals
    BY <1>2 DEF Commit, TypeOK
  <2> QED  BY <1>2, <2>1, CommitIsAtomic
<1>3. ASSUME NEW i \in Proposals, Veto(i)
      PROVE  Refuses(i)
  BY <1>3, VetoIsAtomic
<1>4. ASSUME UNCHANGED <<saved, proposed, executed, vetoed, last>>
      PROVE  Unseen
  BY <1>4 DEF Unseen, Atomic!vars
<1>5. ASSUME NEW i \in Proposals, Begin(i)
      PROVE  Unseen
  BY <1>4, <1>5 DEF Begin, progress
<1>6. CASE Execute
  BY <1>4, <1>6, CommandFacts DEF progress
<1>7. CASE Revert \/ Fault
  BY <1>4, <1>7 DEF Revert, Fault, Refused
<1>8. CASE UNCHANGED vars
  BY <1>4, <1>8 DEF vars, progress
<1> QED  BY <1>1, <1>2, <1>3, <1>5, <1>6, <1>7, <1>8 DEF Next, Progress

LEMMA TrackedAlways == Spec => []Tracked
<1>1. Init => Tracked
  BY DEF Init, Tracked
<1>2. TypeOK /\ Tracked /\ [Next]_vars => Tracked'
  BY TrackedStep
<1> QED  BY <1>1, <1>2, TypeCorrect, PTL DEF Spec

(* For every history: between transactions a configuration changes only by  *)
(* a deployment and by whole proposals, each of which found what it needs   *)
(* (simulateTimelockProposal).                                              *)
THEOREM ExecutesAtomically == Spec => ExecutedAsWholes
<1>1. Init => Atomic!Init
  BY DEF Init, Atomic!Init
<1>2. TypeOK /\ Tracked /\ [Next]_vars => [Atomic!Next]_Atomic!vars
  <2>1. ASSUME TypeOK, Tracked, [Next]_vars
        PROVE  Atomic!Next \/ UNCHANGED Atomic!vars
    BY <2>1, AtomicStep DEF Deploys, Runs, Refuses, Unseen, Atomic!Next, Proposals
  <2> QED  BY <2>1
<1> QED  BY <1>1, <1>2, TypeCorrect, TrackedAlways, PTL DEF Spec, ExecutedAsWholes, Atomic!Spec

-----------------------------------------------------------------------------
(* What the order of execution says about a state between transactions: a   *)
(* fact holds, or does not, because of something that was executed and that *)
(* nothing which also changes the fact came after for sure.                 *)
Holding == Facts(saved)

Concerned == EverHeld \cup UNION {Barred[i] : i \in Proposals}

Judged == Concerned \cup {Original(f) : f \in {g \in Concerned : Copied(g)}}

Latest(f, s) ==
  /\ s \in {0} \cup (executed \cap Changers(f))
  /\ \A k \in executed \cap Changers(f) : k # s => s # 0 /\ <<s, k>> \notin Ordered

DeployedYet(f) == Copied(f) /\ Deployer(f) <= proposed

Fits(f, s) == IF f \in Holding THEN MayHold(f, s, DeployedYet(f)) ELSE MayLack(f, s, DeployedYet(f))

InOrder ==
  /\ executed \cap vetoed = {} /\ vetoed \subseteq VetoableProposal
  /\ \A p \in Order : p[2] <= proposed => p[1] \in Settled

ForcedDone == \A p \in Forced : p[2] \in executed => p[1] \in executed

Held == Holding \subseteq EverHeld

Sourced == \A f \in Judged : \E s \in {0} \cup executed : Latest(f, s) /\ Fits(f, s)

LastHolds ==
  last # 0 =>
    /\ last \in executed
    /\ \A k \in executed : <<last, k>> \notin Ordered
    /\ \A f \in Given[last] \cup Taken[last] : f \in Holding <=> f \in Given[last]

-----------------------------------------------------------------------------
(* The parts of the order.                                                  *)
LEMMA NumbersTyped ==
  /\ Proposals \subseteq Nat /\ 0 \notin Proposals
  /\ \A i \in Proposals : i <= Len(History)
BY LengthTyped DEF Proposals

LEMMA OrderTyped ==
  /\ \A i, j : <<i, j>> \in Order <=> i \in Proposals /\ j \in Proposals /\ Before(i, j)
  /\ \A i, j : <<i, j>> \in Order => i < j
  /\ \A p \in Order : p = <<p[1], p[2]>> /\ p[1] \in Proposals /\ p[2] \in Proposals
BY DEF Order, Before

LEMMA ForcedTyped ==
  /\ \A i, j : <<i, j>> \in Forced <=> j \in Proposals /\ i \in Prerequisites(j)
  /\ \A i, j : <<i, j>> \in Forced => i \in Proposals /\ j \in Proposals /\ i # j
  /\ \A p \in Forced : p = <<p[1], p[2]>>
<1>1. \A i, j : <<i, j>> \in Forced <=> j \in Proposals /\ i \in Prerequisites(j)
  BY DEF Forced
<1>2. \A p \in Forced : p = <<p[1], p[2]>>
  BY DEF Forced
<1>3. ASSUME NEW j, NEW i \in Prerequisites(j)
      PROVE  i \in Proposals /\ i # j
  <2>1. PICK f : \/ {s \in Candidates(f, j) : f \in Leaves(s)} = {i}
                 \/ {s \in Candidates(f, j) : f \notin Leaves(s)} = {i}
    BY <1>3 DEF Prerequisites
  <2>2. i \in Candidates(f, j)
    BY <2>1
  <2> QED  BY <1>3, <2>2 DEF Prerequisites, Candidates
<1> QED  BY <1>1, <1>2, <1>3

LEMMA OrderedTyped ==
  \A i, j : <<i, j>> \in Ordered => i \in Proposals /\ j \in Proposals /\ i # j
BY OrderTyped, ForcedTyped, NumbersTyped DEF Ordered

LEMMA ChangersTyped ==
  \A f, i : i \in Changers(f) <=> i \in Proposals /\ f \in Given[i] \cup Taken[i]
<1> SUFFICES ASSUME NEW f, NEW i
             PROVE  i \in Changers(f) <=> i \in Proposals /\ f \in Given[i] \cup Taken[i]
  OBVIOUS
<1>1. <<i, f>> \in Changes <=> i \in Proposals /\ f \in Given[i] \cup Taken[i]
  BY DEF Changes
<1> QED  BY <1>1 DEF Changers

(* What is copied, and by which proposal.                                   *)
LEMMA CopiedOnce ==
  ASSUME NEW f, Copied(f)
  PROVE  /\ Deployer(f) \in Proposals
         /\ \A i \in Proposals : f[2] \in History[i].deploys <=> i = Deployer(f)
         /\ \A k \in 1 .. (Deployer(f) - 1) : f \notin Given[k] \cup Taken[k]
<1>1. f[2] \in DOMAIN CopiedFrom /\ f[1] = "safe"
  BY DEF Copied
<1>2. PICK d \in Proposals :
        /\ \A i \in Proposals : f[2] \in History[i].deploys <=> i = d
        /\ \A k \in 1 .. (d - 1) : \A e \in Given[k] \cup Taken[k] : ~(e[1] = "safe" /\ e[2] = f[2])
  BY <1>1, CopiesAssumption
<1>3. Deployer(f) = d
  BY <1>2 DEF Deployer
<1> QED  BY <1>1, <1>2, <1>3

LEMMA OriginalTyped ==
  ASSUME NEW f, Copied(f)
  PROVE  ~Copied(Original(f))
BY CopiesAssumption DEF Copied, Original

(* An address that is safe, or must not be, is an account.                  *)
LEMMA AddsSafe ==
  ASSUME NEW x, NEW k, NEW f \in Adds(x, k), f[1] = "safe"
  PROVE  k.op = "setSafeAddresses" /\ f \in {<<"safe", k.on, a>> : a \in k.who}
<1>1. CASE k.op \in {"grantMajor", "grant"}
  BY <1>1 DEF Adds
<1>2. CASE k.op = "becomeAdmin"
  BY <1>2 DEF Adds
<1>3. CASE k.op \in {"createRole", "setContractAdminRole"}
  BY <1>3 DEF Adds
<1>4. CASE k.op \in {"addDeposits", "swapDeposit"}
  BY <1>4 DEF Adds
<1>5. CASE k.op = "setSafeAddresses"
  BY <1>5 DEF Adds
<1>6. CASE k.op \in {"pause", "pauseOne"}
  BY <1>6 DEF Adds
<1>7. CASE k.op \notin {"grantMajor", "grant", "becomeAdmin", "createRole", "setContractAdminRole",
                       "addDeposits", "swapDeposit", "setSafeAddresses", "pause", "pauseOne"}
  BY <1>7 DEF Adds
<1> QED  BY <1>1, <1>2, <1>3, <1>4, <1>5, <1>6, <1>7

LEMMA BarsSafe ==
  ASSUME NEW k, NEW f \in Bars(k), f[1] = "safe"
  PROVE  k.op = "setSafeAddresses" /\ f \in {<<"safe", k.on, a>> : a \in k.who}
<1>1. CASE k.op \in {"addDeposits", "setSafeAddresses", "pause"}
  BY <1>1, AddsSafe DEF Bars
<1>2. CASE k.op = "swapDeposit"
  BY <1>2 DEF Bars
<1>3. CASE k.op \notin {"addDeposits", "setSafeAddresses", "pause", "swapDeposit"}
  BY <1>3 DEF Bars
<1> QED  BY <1>1, <1>2, <1>3

LEMMA CommandSafe ==
  ASSUME NEW i \in Proposals, NEW n \in 1 .. Size(i), NEW f,
         f \in Adds(By(i), Cmd(i, n)) \cup Bars(Cmd(i, n)), f[1] = "safe"
  PROVE  \E a \in Accounts : f = <<"safe", f[2], a>>
<1> DEFINE k == Cmd(i, n)
<1>1. k \in AllCommands
  BY SizeTyped DEF Cmd, Size
<1>2. k.op = "setSafeAddresses" /\ f \in {<<"safe", k.on, a>> : a \in k.who}
  BY AddsSafe, BarsSafe
<1>3. k.who \subseteq Accounts
  BY <1>1, <1>2 DEF AllCommands, WellFormed
<1> QED  BY <1>2, <1>3

LEMMA ConcernedSafe ==
  ASSUME NEW f \in Concerned, f[1] = "safe"
  PROVE  \E a \in Accounts : f = <<"safe", f[2], a>>
<1>1. CASE f \in AtFirst
  <2>1. PICK g \in Guardians : \E a \in Genesis.safe[g] : f = <<"safe", g, a>>
    BY <1>1, FactKinds DEF AtFirst
  <2>2. Genesis.safe[g] \subseteq Accounts
    BY HistoryAssumption DEF Configurations
  <2> QED  BY <2>1, <2>2
<1>2. ASSUME NEW i \in Proposals, f \in Given[i] \cup Barred[i]
      PROVE  \E a \in Accounts : f = <<"safe", f[2], a>>
  <2>1. PICK n \in 1 .. Size(i) : f \in Adds(By(i), Cmd(i, n)) \cup Bars(Cmd(i, n))
    BY <1>2 DEF Given, Barred, GivenUpTo, BarredUpTo
  <2> QED  BY <2>1, CommandSafe
<1>3. ASSUME NEW i \in Proposals, NEW q \in Copies[i], f = q[2]
      PROVE  \E a \in Accounts : f = <<"safe", f[2], a>>
  BY <1>3, InCopies
<1> QED  BY <1>1, <1>2, <1>3 DEF Concerned, EverHeld

LEMMA ConcernedCopies ==
  ASSUME NEW f \in Judged, Copied(f)
  PROVE  f \in Concerned /\ \E a \in Accounts : f = <<"safe", f[2], a>>
<1>1. f \in Concerned
  BY OriginalTyped DEF Judged
<1> QED  BY <1>1, ConcernedSafe DEF Copied

(* Only proposals that were made are settled.                               *)
Numbered ==
  /\ proposed \in Nat /\ proposed <= Len(History)
  /\ executed \subseteq 1 .. proposed /\ vetoed \subseteq 1 .. proposed

(* The inductive invariant of the order of execution.                       *)
Past == Numbered /\ InOrder /\ ForcedDone /\ Held /\ Sourced /\ LastHolds

LEMMA NumberedProposals ==
  ASSUME Numbered
  PROVE  /\ 1 .. proposed \subseteq Proposals
         /\ executed \subseteq Proposals /\ vetoed \subseteq Proposals
         /\ 0 \notin executed
BY LengthTyped DEF Numbered, Proposals

(* What comes before a proposal is executed when it is made, and the more   *)
(* so when it is executed.                                                  *)
LEMMA EarlierExecuted ==
  ASSUME Numbered, InOrder, NEW j \in 1 .. proposed
  PROVE  Earlier(j, Order) \subseteq executed
<1> SUFFICES ASSUME NEW k \in Unavoidable, <<k, j>> \in Order
             PROVE  k \in executed
  BY DEF Earlier
<1>1. <<k, j>>[2] <= proposed /\ <<k, j>>[1] = k
  BY DEF Numbered
<1>2. k \in Settled
  BY <1>1 DEF InOrder
<1> QED  BY <1>2 DEF InOrder, Settled, Unavoidable

LEMMA EarlierForced ==
  ASSUME Numbered, InOrder, ForcedDone, NEW j \in executed
  PROVE  Earlier(j, Ordered) \subseteq executed
<1> SUFFICES ASSUME NEW k \in Unavoidable, <<k, j>> \in Ordered
             PROVE  k \in executed
  BY DEF Earlier
<1>1. CASE <<k, j>> \in Order
  BY <1>1, EarlierExecuted DEF Earlier, Numbered
<1>2. CASE <<k, j>> \in Forced
  <2>1. <<k, j>>[1] = k /\ <<k, j>>[2] = j
    OBVIOUS
  <2> QED  BY <1>2, <2>1 DEF ForcedDone
<1> QED  BY <1>1, <1>2 DEF Ordered

(* What is executed now does not come before what was.                      *)
LEMMA NothingLater ==
  ASSUME Numbered, InOrder, ForcedDone, NEW j \in Atomic!Pending, NEW k \in executed
  PROVE  <<j, k>> \notin Ordered
<1>1. j \notin executed /\ j \notin vetoed
  BY DEF Atomic!Pending
<1>2. <<j, k>>[1] = j /\ <<j, k>>[2] = k
  OBVIOUS
<1>3. k <= proposed
  BY DEF Numbered
<1> QED  BY <1>1, <1>2, <1>3 DEF InOrder, ForcedDone, Ordered, Settled

-----------------------------------------------------------------------------
LEMMA InOrderStep ==
  ASSUME Numbered, InOrder,
         Deploys \/ (\E i \in Proposals : Runs(i) \/ Refuses(i)) \/ Unseen
  PROVE  InOrder'
<1>1. CASE Deploys
  <2>1. /\ proposed' = proposed + 1 /\ UNCHANGED <<executed, vetoed>>
        /\ \A i \in Atomic!Pending : <<i, proposed + 1>> \notin Order
    BY <1>1 DEF Deploys, Atomic!Propose
  <2>2. ASSUME NEW p \in Order, p[2] <= proposed + 1
        PROVE  p[1] \in Settled
    <3>1. CASE p[2] <= proposed
      BY <3>1 DEF InOrder
    <3>2. CASE p[2] = proposed + 1
      <4>1. p = <<p[1], proposed + 1>> /\ p[1] \in Proposals /\ p[1] < proposed + 1
        <5>1. p = <<p[1], p[2]>> /\ p[1] \in Proposals
          BY OrderTyped
        <5>2. p[1] < p[2]
          BY <5>1, OrderTyped
        <5> QED  BY <3>2, <5>1, <5>2
      <4>2. p[1] \in 1 .. proposed
        BY <4>1, LengthTyped DEF Proposals, Numbered
      <4>3. p[1] \notin Atomic!Pending
        BY <2>1, <4>1
      <4> QED  BY <4>2, <4>3 DEF Atomic!Pending, Settled
    <3>3. p[2] \in Nat
      BY OrderTyped, NumbersTyped
    <3> QED  BY <2>2, <3>1, <3>2, <3>3 DEF Numbered
  <2> QED  BY <2>1, <2>2 DEF InOrder, Settled
<1>2. ASSUME NEW i \in Proposals, Runs(i)
      PROVE  InOrder'
  BY <1>2 DEF Runs, Atomic!Execute, Atomic!Pending, InOrder, Settled
<1>3. ASSUME NEW i \in Proposals, Refuses(i)
      PROVE  InOrder'
  BY <1>3 DEF Refuses, Atomic!Veto, Atomic!Pending, InOrder, Settled
<1>4. CASE Unseen
  BY <1>4 DEF Unseen, Atomic!vars, InOrder, Settled
<1> QED  BY <1>1, <1>2, <1>3, <1>4

(* A fact that holds, or that a proposal refuses, has a source.             *)
LEMMA JudgedSource ==
  ASSUME Sourced, Numbered, NEW f \in Judged, ~Copied(f)
  PROVE  \E s \in {0} \cup executed : Latest(f, s) /\ (f \in Holding <=> f \in Leaves(s))
<1>1. PICK s \in {0} \cup executed : Latest(f, s) /\ Fits(f, s)
  BY DEF Sourced
<1>2. f \in Holding <=> f \in Leaves(s)
  BY <1>1 DEF Fits, MayHold, MayLack
<1> QED  BY <1>1, <1>2

LEMMA LatestIsLast ==
  ASSUME NEW f, NEW s, Latest(f, s), executed \subseteq Proposals,
         NEW past \in SUBSET executed, NEW order \in SUBSET Ordered
  PROVE  s \in Lasts(f, past, order)
BY DEF Latest, Lasts

(* A proposal finds what it needs only after what alone can leave it so.    *)
LEMMA ForcedStep ==
  ASSUME Numbered, InOrder, ForcedDone, Held, Sourced,
         Deploys \/ (\E i \in Proposals : Runs(i) \/ Refuses(i)) \/ Unseen
  PROVE  ForcedDone'
<1>1. CASE UNCHANGED executed
  BY <1>1 DEF ForcedDone
<1>2. ASSUME NEW j \in Proposals, Runs(j)
      PROVE  ForcedDone'
  <2>1. /\ j \in Atomic!Pending /\ executed' = executed \cup {j}
        /\ Needed[j] \subseteq Holding /\ Barred[j] \cap Holding = {}
    BY <1>2 DEF Runs, Atomic!Execute, Holding
  <2>2. j \in 1 .. proposed /\ j \notin executed /\ j # 0
    BY <2>1 DEF Atomic!Pending
  <2>3. ASSUME NEW f \in Judged, ~Copied(f)
        PROVE  \E s \in Candidates(f, j) :
                 s \in {0} \cup executed /\ (f \in Holding <=> f \in Leaves(s))
    <3>1. PICK s \in {0} \cup executed : Latest(f, s) /\ (f \in Holding <=> f \in Leaves(s))
      BY <2>3, JudgedSource
    <3>2. Earlier(j, Order) \subseteq executed
      BY <2>2, EarlierExecuted
    <3>3. s \in Lasts(f, Earlier(j, Order), Order)
      BY <3>1, <3>2, LatestIsLast, NumberedProposals DEF Ordered
    <3> QED  BY <2>2, <3>1, <3>3 DEF Candidates
  <2>4. ASSUME NEW i \in Prerequisites(j)
        PROVE  i \in executed
    <3>1. i \in Proposals
      BY <2>4 DEF Prerequisites
    <3>2. ASSUME NEW f \in Needed[j], ~Copied(f),
                 {s \in Candidates(f, j) : f \in Leaves(s)} = {i}
          PROVE  i \in executed
      <4>1. f \in Holding /\ f \in Judged
        BY <2>1 DEF Held, Judged, Concerned
      <4>2. PICK s \in Candidates(f, j) : s \in {0} \cup executed /\ f \in Leaves(s)
        BY <2>3, <3>2, <4>1
      <4>3. s = i
        BY <3>2, <4>2
      <4> QED  BY <3>1, <4>2, <4>3, NumbersTyped
    <3>3. ASSUME NEW f \in Barred[j], ~Copied(f),
                 {s \in Candidates(f, j) : f \notin Leaves(s)} = {i}
          PROVE  i \in executed
      <4>1. f \notin Holding /\ f \in Judged
        BY <2>1 DEF Judged, Concerned
      <4>2. PICK s \in Candidates(f, j) : s \in {0} \cup executed /\ f \notin Leaves(s)
        BY <2>3, <3>3, <4>1
      <4>3. s = i
        BY <3>3, <4>2
      <4> QED  BY <3>1, <4>2, <4>3, NumbersTyped
    <3> QED  BY <2>4, <3>2, <3>3 DEF Prerequisites
  <2>5. ASSUME NEW p \in Forced, p[2] \in executed'
        PROVE  p[1] \in executed'
    <3>1. CASE p[2] \in executed
      BY <2>1, <3>1 DEF ForcedDone
    <3>2. CASE p[2] = j
      <4>1. p = <<p[1], p[2]>>
        BY ForcedTyped
      <4>2. p[1] \in Prerequisites(j)
        BY <3>2, <4>1, ForcedTyped
      <4> QED  BY <2>1, <2>4, <4>2
    <3> QED  BY <2>1, <2>5, <3>1, <3>2
  <2> QED  BY <2>5 DEF ForcedDone
<1> QED  BY <1>1, <1>2 DEF Deploys, Atomic!Propose, Refuses, Atomic!Veto, Unseen, Atomic!vars

-----------------------------------------------------------------------------
(* A deployment changes no fact but the copied ones.                        *)
LEMMA DeploysFacts ==
  ASSUME Numbered, Deploys, NEW f
  PROVE  /\ proposed + 1 \in Proposals
         /\ proposed' = proposed + 1 /\ UNCHANGED <<executed, vetoed, last>>
         /\ (\E p \in Copies[proposed + 1] : f = p[2]) =>
              /\ Copied(f) /\ Deployer(f) = proposed + 1
              /\ f \in Holding' <=> Original(f) \in Holding
         /\ ~(\E p \in Copies[proposed + 1] : f = p[2]) => (f \in Holding' <=> f \in Holding)
<1> DEFINE d == proposed + 1
<1>1. /\ proposed < Len(History) /\ proposed' = d /\ UNCHANGED <<executed, vetoed, last>>
      /\ Holding' = Atomic!AfterCopies(Copies[d])
  BY DEF Deploys, Atomic!Propose, Holding
<1>2. d \in Proposals
  BY <1>1, LengthTyped DEF Numbered, Proposals
<1>3. f \in Holding' <=> \/ f \in Holding /\ ~\E p \in Copies[d] : f = p[2]
                         \/ \E p \in Copies[d] : p[1] \in Holding /\ f = p[2]
  BY <1>1 DEF Atomic!AfterCopies, Holding
<1>4. ASSUME NEW p \in Copies[d], f = p[2]
      PROVE  Copied(f) /\ Deployer(f) = d /\ p[1] = Original(f)
  <2>1. PICK g \in DOMAIN CopiedFrom \cap History[d].deploys, a \in Accounts :
          p = << <<"safe", CopiedFrom[g], a>>, <<"safe", g, a>> >>
    BY <1>2, InCopies
  <2>2. f = <<"safe", g, a>> /\ p[1] = <<"safe", CopiedFrom[g], a>>
    BY <1>4, <2>1
  <2>3. Copied(f) /\ f[2] = g
    BY <2>2 DEF Copied
  <2>4. Deployer(f) = d
    BY <1>2, <2>3, CopiedOnce
  <2> QED  BY <2>2, <2>3, <2>4 DEF Original
<1> QED  BY <1>1, <1>2, <1>3, <1>4

LEMMA RunsFacts ==
  ASSUME NEW j \in Proposals, Runs(j), NEW f
  PROVE  /\ j \in Changers(f) => (f \in Holding' <=> f \in Given[j])
         /\ j \notin Changers(f) => (f \in Holding' <=> f \in Holding)
<1>1. Holding' = (Holding \ Taken[j]) \cup Given[j]
  BY DEF Runs, Atomic!Execute, Holding
<1> QED  BY <1>1, ChangersTyped

LEMMA HeldStep ==
  ASSUME Numbered, Held,
         Deploys \/ (\E i \in Proposals : Runs(i) \/ Refuses(i)) \/ Unseen
  PROVE  Held'
<1>1. CASE Deploys
  <2> SUFFICES ASSUME NEW f \in Holding'
               PROVE  f \in EverHeld
    BY DEF Held
  <2> DEFINE H == AtFirst \cup UNION {Given[i] : i \in Proposals}
             d == proposed + 1
  <2>1. d \in Proposals
    BY <1>1, DeploysFacts
  <2>2. CASE \E p \in Copies[d] : f = p[2]
    <3>1. PICK p \in Copies[d] : f = p[2]
      BY <2>2
    <3>2. PICK g \in DOMAIN CopiedFrom \cap History[d].deploys, a \in Accounts :
            p = << <<"safe", CopiedFrom[g], a>>, <<"safe", g, a>> >>
      BY <2>1, InCopies
    <3>3. /\ p[1] = <<"safe", CopiedFrom[g], a>> /\ p[1] = Original(f)
          /\ Original(f) \in Holding /\ Copied(f)
      BY <1>1, <2>2, <3>1, <3>2, DeploysFacts DEF Original
    <3>4. p[1] \in EverHeld
      BY <3>3 DEF Held
    <3>5. ASSUME NEW i \in Proposals, NEW q \in Copies[i], p[1] = q[2]
          PROVE  FALSE
      <4>1. PICK h \in DOMAIN CopiedFrom, b \in Accounts : q[2] = <<"safe", h, b>>
        BY InCopies
      <4>2. CopiedFrom[g] = h
        BY <3>3, <3>5, <4>1
      <4> QED  BY <4>2, CopiesAssumption
    <3>6. p[1] \in H
      BY <3>4, <3>5 DEF EverHeld
    <3> QED  BY <2>1, <3>1, <3>6 DEF EverHeld
  <2>3. CASE ~\E p \in Copies[d] : f = p[2]
    BY <1>1, <2>3, DeploysFacts DEF Held
  <2> QED  BY <2>2, <2>3
<1>2. ASSUME NEW i \in Proposals, Runs(i)
      PROVE  Held'
  <2>1. Holding' = (Holding \ Taken[i]) \cup Given[i]
    BY <1>2 DEF Runs, Atomic!Execute, Holding
  <2>2. Given[i] \subseteq EverHeld
    BY DEF EverHeld
  <2> QED  BY <2>1, <2>2 DEF Held
<1>3. CASE UNCHANGED Holding
  BY <1>3 DEF Held
<1> QED  BY <1>1, <1>2, <1>3 DEF Refuses, Atomic!Veto, Unseen, Atomic!vars, Holding

LEMMA LastHoldsStep ==
  ASSUME Numbered, InOrder, ForcedDone, LastHolds,
         Deploys \/ (\E i \in Proposals : Runs(i) \/ Refuses(i)) \/ Unseen
  PROVE  LastHolds'
<1>1. CASE Deploys
  <2> SUFFICES ASSUME last # 0, NEW f \in Given[last] \cup Taken[last]
               PROVE  f \in Holding' <=> f \in Holding
    BY <1>1, DeploysFacts DEF LastHolds
  <2>1. last \in 1 .. proposed
    BY DEF LastHolds, Numbered
  <2>2. ASSUME NEW p \in Copies[proposed + 1], f = p[2]
        PROVE  FALSE
    <3>1. Copied(f) /\ Deployer(f) = proposed + 1
      BY <1>1, <2>2, DeploysFacts
    <3>2. last \in 1 .. (Deployer(f) - 1)
      BY <2>1, <3>1 DEF Numbered
    <3> QED  BY <3>1, <3>2, CopiedOnce
  <2> QED  BY <1>1, <2>2, DeploysFacts
<1>2. ASSUME NEW j \in Proposals, Runs(j)
      PROVE  LastHolds'
  <2>1. j \in Atomic!Pending /\ executed' = executed \cup {j} /\ last' = j
    BY <1>2 DEF Runs, Atomic!Execute
  <2>2. \A k \in executed : <<j, k>> \notin Ordered
    BY <2>1, NothingLater
  <2>3. <<j, j>> \notin Ordered
    BY OrderedTyped
  <2>4. ASSUME NEW f \in Given[j] \cup Taken[j]
        PROVE  f \in Holding' <=> f \in Given[j]
    BY <1>2, RunsFacts, ChangersTyped
  <2> QED  BY <2>1, <2>2, <2>3, <2>4 DEF LastHolds
<1>3. CASE UNCHANGED <<Holding, executed, last>>
  BY <1>3 DEF LastHolds
<1> QED
  BY <1>1, <1>2, <1>3 DEF Refuses, Atomic!Veto, Unseen, Atomic!vars, Holding

-----------------------------------------------------------------------------
(* The source of a copied fact that was just copied.                        *)
LEMMA CopySource ==
  ASSUME Numbered, InOrder, Sourced, Deploys, NEW f \in Judged,
         NEW p \in Copies[proposed + 1], f = p[2]
  PROVE  Latest(f, 0) /\ Fits(f, 0)'
<1> DEFINE d == proposed + 1  o == Original(f)
<1>1. /\ d \in Proposals /\ proposed' = d
      /\ Copied(f) /\ Deployer(f) = d /\ (f \in Holding' <=> o \in Holding)
  BY DeploysFacts
<1>2. o \in Judged /\ ~Copied(o)
  BY <1>1, ConcernedCopies, OriginalTyped DEF Judged
<1>3. PICK t \in {0} \cup executed : Latest(o, t) /\ (o \in Holding <=> o \in Leaves(t))
  BY <1>2, JudgedSource
<1>4. Earlier(d, Order) \subseteq executed
  <2> SUFFICES ASSUME NEW k \in Unavoidable, <<k, d>> \in Order
               PROVE  k \in executed
    BY DEF Earlier
  <2>1. k \in Proposals /\ k < d
    BY OrderTyped
  <2>2. k \in 1 .. proposed
    BY <2>1, LengthTyped DEF Proposals, Numbered
  <2>3. k \notin Atomic!Pending
    BY DEF Deploys, Atomic!Propose
  <2> QED  BY <2>2, <2>3 DEF Atomic!Pending, InOrder, Unavoidable
<1>5. t \in Lasts(o, Earlier(d, Order), Ordered)
  BY <1>3, <1>4, LatestIsLast, NumberedProposals
<1>6. t < d
  BY <1>3 DEF Numbered
<1>7. t \in AtDeployment(f)
  BY <1>1, <1>5, <1>6 DEF AtDeployment
<1>8. Latest(f, 0)
  <2>1. ASSUME NEW k \in executed, k \in Changers(f)
        PROVE  FALSE
    <3>1. k \in 1 .. (d - 1)
      <4>1. proposed \in Nat /\ k \in 1 .. proposed
        BY DEF Numbered
      <4> QED  BY <4>1
    <3>2. k \in 1 .. (Deployer(f) - 1)
      BY <1>1, <3>1
    <3> QED  BY <1>1, <2>1, <3>2, CopiedOnce, ChangersTyped
  <2> QED  BY <2>1 DEF Latest
<1>9. DeployedYet(f)'
  BY <1>1, NumbersTyped DEF DeployedYet
<1>10. Fits(f, 0)'
  <2>1. ASSUME f \in Holding'
        PROVE  MayHold(f, 0, DeployedYet(f)')
    BY <1>1, <1>3, <1>7, <2>1 DEF MayHold
  <2>2. ASSUME f \notin Holding'
        PROVE  MayLack(f, 0, DeployedYet(f)')
    BY <1>1, <1>3, <1>7, <2>2 DEF MayLack
  <2> QED  BY <2>1, <2>2 DEF Fits
<1> QED  BY <1>8, <1>10

LEMMA SourcedStep ==
  ASSUME Numbered, InOrder, ForcedDone, Sourced,
         Deploys \/ (\E i \in Proposals : Runs(i) \/ Refuses(i)) \/ Unseen
  PROVE  Sourced'
<1> SUFFICES ASSUME NEW f \in Judged
             PROVE  \E s \in {0} \cup executed' : Latest(f, s)' /\ Fits(f, s)'
  BY DEF Sourced
<1>1. PICK s \in {0} \cup executed : Latest(f, s) /\ Fits(f, s)
  BY DEF Sourced
<1>2. CASE Deploys
  <2>1. UNCHANGED executed /\ \A t : Latest(f, t)' <=> Latest(f, t)
    BY <1>2, DeploysFacts DEF Latest
  <2>2. CASE \E p \in Copies[proposed + 1] : f = p[2]
    BY <1>2, <2>1, <2>2, CopySource
  <2>3. CASE ~\E p \in Copies[proposed + 1] : f = p[2]
    <3>1. f \in Holding' <=> f \in Holding
      BY <1>2, <2>3, DeploysFacts
    <3>2. DeployedYet(f)' <=> DeployedYet(f)
      <4>1. proposed' = proposed + 1 /\ proposed + 1 \in Proposals
        BY <1>2, DeploysFacts
      <4>2. ASSUME Copied(f), Deployer(f) = proposed + 1
            PROVE  FALSE
        <5>1. PICK a \in Accounts : f = <<"safe", f[2], a>>
          BY <4>2, ConcernedCopies
        <5>2. f[2] \in DOMAIN CopiedFrom \cap History[proposed + 1].deploys
          BY <4>1, <4>2, CopiedOnce DEF Copied
        <5> DEFINE q == << <<"safe", CopiedFrom[f[2]], a>>, <<"safe", f[2], a>> >>
        <5>3. q \in Copies[proposed + 1]
          BY <4>1, <5>2, InCopies
        <5>4. q[2] = f
          BY <5>1
        <5> HIDE DEF q
        <5> QED  BY <2>3, <5>3, <5>4
      <4>3. Copied(f) => Deployer(f) \in Nat
        BY CopiedOnce, NumbersTyped
      <4> QED  BY <4>1, <4>2, <4>3 DEF DeployedYet, Numbered
    <3>3. Fits(f, s)'
      BY <1>1, <3>1, <3>2 DEF Fits, MayHold, MayLack
    <3> QED  BY <1>1, <2>1, <3>3
  <2> QED  BY <2>2, <2>3
<1>3. ASSUME NEW j \in Proposals, Runs(j)
      PROVE  \E t \in {0} \cup executed' : Latest(f, t)' /\ Fits(f, t)'
  <2>1. /\ j \in Atomic!Pending /\ executed' = executed \cup {j}
        /\ proposed' = proposed
    BY <1>3 DEF Runs, Atomic!Execute
  <2>2. \A k \in executed : <<j, k>> \notin Ordered
    BY <2>1, NothingLater
  <2>3. DeployedYet(f)' <=> DeployedYet(f)
    BY <2>1 DEF DeployedYet
  <2>4. CASE j \in Changers(f)
    <3>1. f \in Holding' <=> f \in Given[j]
      BY <1>3, <2>4, RunsFacts
    <3>2. j # 0
      BY NumbersTyped
    <3>3. Latest(f, j)'
      BY <2>1, <2>2, <2>4, <3>2 DEF Latest
    <3>4. Fits(f, j)'
      BY <3>1, <3>2 DEF Fits, MayHold, MayLack, Leaves
    <3> QED  BY <2>1, <3>3, <3>4
  <2>5. CASE j \notin Changers(f)
    <3>1. f \in Holding' <=> f \in Holding
      BY <1>3, <2>5, RunsFacts
    <3>2. Latest(f, s)'
      BY <1>1, <2>1, <2>5 DEF Latest
    <3>3. Fits(f, s)'
      BY <1>1, <2>3, <3>1 DEF Fits, MayHold, MayLack
    <3> QED  BY <1>1, <2>1, <3>2, <3>3
  <2> QED  BY <2>4, <2>5
<1>4. CASE UNCHANGED <<Holding, proposed, executed>>
  <2>1. (Latest(f, s)' <=> Latest(f, s)) /\ (Fits(f, s)' <=> Fits(f, s))
    BY <1>4 DEF Latest, Fits, DeployedYet
  <2> QED  BY <1>1, <1>4, <2>1
<1> QED
  BY <1>2, <1>3, <1>4 DEF Refuses, Atomic!Veto, Unseen, Atomic!vars, Holding

-----------------------------------------------------------------------------
LEMMA PastAtFirst ==
  ASSUME Init
  PROVE  Past
<1>1. saved = Genesis /\ proposed = 0 /\ executed = {} /\ vetoed = {} /\ last = 0
  BY DEF Init
<1>2. Numbered
  BY <1>1, LengthTyped DEF Numbered
<1>3. InOrder /\ ForcedDone /\ LastHolds
  <2>1. \A p \in Order : ~(p[2] <= 0)
    BY OrderTyped, NumbersTyped
  <2> QED  BY <1>1, <2>1 DEF InOrder, ForcedDone, LastHolds
<1>4. Holding = AtFirst
  BY <1>1 DEF Holding, AtFirst
<1>5. Held
  BY <1>4 DEF Held, EverHeld
<1>6. ASSUME NEW f \in Judged
      PROVE  Latest(f, 0) /\ Fits(f, 0)
  <2>1. Latest(f, 0)
    BY <1>1 DEF Latest
  <2>2. ~DeployedYet(f)
    <3>1. Copied(f) => Deployer(f) \in Nat /\ Deployer(f) # 0
      BY CopiedOnce, NumbersTyped
    <3> QED  BY <1>1, <3>1 DEF DeployedYet
  <2> QED  BY <1>4, <2>1, <2>2 DEF Fits, MayHold, MayLack, Leaves
<1>7. Sourced
  BY <1>6 DEF Sourced
<1> QED  BY <1>2, <1>3, <1>5, <1>7 DEF Past

LEMMA PastStep ==
  ASSUME TypeOK, TypeOK', Tracked, Past, [Next]_vars
  PROVE  Past'
<1>1. Deploys \/ (\E i \in Proposals : Runs(i) \/ Refuses(i)) \/ Unseen
  BY AtomicStep
<1>2. Numbered'
  BY LengthTyped DEF TypeOK, Numbered
<1> HIDE DEF Past
<1>3. Numbered /\ InOrder /\ ForcedDone /\ Held /\ Sourced /\ LastHolds
  BY DEF Past
<1>4. InOrder' /\ ForcedDone' /\ Held' /\ Sourced' /\ LastHolds'
  BY <1>1, <1>3, InOrderStep, ForcedStep, HeldStep, SourcedStep, LastHoldsStep
<1> QED  BY <1>2, <1>4 DEF Past

LEMMA PastAlways == Spec => []Past
<1>1. Init => Past
  BY PastAtFirst
<1>2. TypeOK /\ TypeOK' /\ Tracked /\ Past /\ [Next]_vars => Past'
  BY PastStep
<1> QED  BY <1>1, <1>2, TypeCorrect, TrackedAlways, PTL DEF Spec

-----------------------------------------------------------------------------
(* What holds after the last proposal is between what holds for sure and    *)
(* what may hold.                                                           *)
LEMMA SourceAfterLast ==
  ASSUME Past, last # 0, NEW f \in Judged
  PROVE  \E s \in LastsAfter(f, last) :
           IF f \in Holding THEN MayHold(f, s, DeployedBy(f, last))
                            ELSE MayLack(f, s, DeployedBy(f, last))
<1> DEFINE j == last
<1>1. Numbered /\ InOrder /\ ForcedDone /\ Held /\ Sourced /\ LastHolds
  BY DEF Past
<1>2. j \in executed /\ j \in Proposals /\ j <= proposed
  <2>1. j \in executed
    BY <1>1 DEF LastHolds
  <2> QED  BY <1>1, <2>1, NumberedProposals DEF Numbered
<1>3. CASE j \in Changers(f)
  <2>1. f \in Holding <=> f \in Given[j]
    BY <1>1, <1>3, ChangersTyped DEF LastHolds
  <2>2. j \in LastsAfter(f, j)
    BY <1>3 DEF LastsAfter
  <2> QED  BY <2>1, <2>2 DEF MayHold, MayLack, Leaves
<1>4. CASE j \notin Changers(f)
  <2>1. PICK s \in {0} \cup executed : Latest(f, s) /\ Fits(f, s)
    BY <1>1 DEF Sourced
  <2>2. Earlier(j, Ordered) \subseteq executed
    BY <1>1, <1>2, EarlierForced
  <2>3. s \in Lasts(f, Earlier(j, Ordered), Ordered)
    BY <1>1, <2>1, <2>2, LatestIsLast, NumberedProposals
  <2>4. <<j, s>> \notin Ordered
    BY <1>1, <2>1, OrderedTyped, NumbersTyped DEF LastHolds
  <2>5. s \in LastsAfter(f, j)
    BY <1>4, <2>3, <2>4 DEF LastsAfter
  <2>6. DeployedBy(f, j) => DeployedYet(f)
    <3>1. ASSUME Copied(f), <<Deployer(f), j>> \in Order
          PROVE  Deployer(f) <= proposed
      <4>1. Deployer(f) < j /\ Deployer(f) \in Nat /\ j \in Nat /\ proposed \in Nat
        BY <1>1, <1>2, <3>1, OrderTyped, NumbersTyped DEF Numbered
      <4> QED  BY <1>2, <4>1
    <3> QED  BY <1>2, <3>1 DEF DeployedBy, DeployedYet
  <2>7. IF f \in Holding THEN MayHold(f, s, DeployedBy(f, j)) ELSE MayLack(f, s, DeployedBy(f, j))
    BY <2>1, <2>6 DEF Fits, MayHold, MayLack
  <2> QED  BY <2>5, <2>7
<1> QED  BY <1>3, <1>4

LEMMA SureHolds ==
  ASSUME Past, last # 0
  PROVE  Sure(last) \subseteq Holding /\ Holding \subseteq Possible(last)
<1>1. ASSUME NEW f \in Sure(last)
      PROVE  f \in Holding
  <2>1. f \in Judged /\ \A s \in LastsAfter(f, last) : ~MayLack(f, s, DeployedBy(f, last))
    BY DEF Sure, Judged, Concerned
  <2> QED  BY <2>1, SourceAfterLast
<1>2. ASSUME NEW f \in Holding
      PROVE  f \in Possible(last)
  <2>1. f \in EverHeld /\ f \in Judged
    BY DEF Past, Held, Judged, Concerned
  <2>2. \E s \in LastsAfter(f, last) : MayHold(f, s, DeployedBy(f, last))
    BY <2>1, SourceAfterLast
  <2> QED  BY <2>1, <2>2 DEF Possible
<1> QED  BY <1>1, <1>2

(* When all are settled the vetoed proposals determine what holds.          *)
LEMMA HoldsAtTheEnd ==
  ASSUME Past, Settled = Proposals
  PROVE  /\ vetoed \in SUBSET VetoableProposal
         /\ executed = Proposals \ vetoed
         /\ Holding = FactsAtTheEnd(vetoed)
<1> DEFINE V == vetoed
<1>1. Numbered /\ InOrder /\ Held /\ Sourced
  BY DEF Past
<1>2. V \subseteq VetoableProposal /\ executed = Proposals \ V /\ 0 \notin V
  BY <1>1, NumberedProposals, NumbersTyped DEF InOrder, Settled
<1>3. ASSUME NEW f \in Judged
      PROVE  \E s \in LastsAtTheEnd(f, V) :
               IF f \in Holding THEN MayHold(f, s, TRUE) ELSE MayLack(f, s, TRUE)
  <2>1. PICK s \in {0} \cup executed : Latest(f, s) /\ Fits(f, s)
    BY <1>1 DEF Sourced
  <2>2. s \in Lasts(f, Proposals \ V, Ordered)
    BY <1>1, <1>2, <2>1, LatestIsLast, NumberedProposals
  <2>3. s \in LastsAtTheEnd(f, V)
    BY <1>2, <2>1, <2>2 DEF LastsAtTheEnd
  <2>4. Copied(f) => DeployedYet(f)
    <3>1. \A i \in Proposals : i <= proposed
      <4>1. proposed \in Nat /\ Proposals = executed \cup vetoed
        BY <1>1 DEF Settled, Numbered
      <4>2. Proposals \subseteq 1 .. proposed
        BY <1>1, <4>1 DEF Numbered
      <4> QED  BY <4>1, <4>2
    <3> QED  BY <3>1, CopiedOnce DEF DeployedYet
  <2>5. IF f \in Holding THEN MayHold(f, s, TRUE) ELSE MayLack(f, s, TRUE)
    BY <2>1, <2>4 DEF Fits, MayHold, MayLack
  <2> QED  BY <2>3, <2>5
<1>4. ASSUME NEW f \in Holding
      PROVE  f \in FactsAtTheEnd(V)
  <2>1. f \in EverHeld /\ f \in Judged
    BY <1>1 DEF Held, Judged, Concerned
  <2>2. \E s \in LastsAtTheEnd(f, V) : MayHold(f, s, TRUE)
    BY <1>3, <2>1
  <2> QED  BY <2>1, <2>2 DEF FactsAtTheEnd
<1>5. ASSUME NEW f \in FactsAtTheEnd(V), f \notin Holding
      PROVE  FALSE
  <2>1. f \in Judged
    BY DEF FactsAtTheEnd, Judged, Concerned
  <2>2. \E s \in LastsAtTheEnd(f, V) : MayLack(f, s, TRUE)
    BY <1>3, <1>5, <2>1
  <2>3. f \in OpenAtTheEnd(V)
    BY <2>2 DEF OpenAtTheEnd
  <2> QED  BY <1>2, <2>3, EndAssumption
<1> QED  BY <1>2, <1>4, <1>5

-----------------------------------------------------------------------------
(* A configuration is what its facts show.                                  *)
LEMMA ThirdsOf ==
  ASSUME NEW c \in Configurations
  PROVE  /\ \A r \in Roles : /\ Third(Facts(c), "role", r) = c.roles[r]
                             /\ Third(Facts(c), "roleAdmin", r) = {c.roleAdmin[r]}
         /\ \A t \in Administered : Third(Facts(c), "contractAdmin", t) = {c.contractAdmin[t]}
         /\ Third(Facts(c), "deposit", "counted") = c.oracle
         /\ \A g \in Guardians : Third(Facts(c), "safe", g) = c.safe[g]
<1> DEFINE F == Facts(c)
<1>1. ASSUME NEW part, NEW key, NEW x
      PROVE  x \in Third(F, part, key) <=> \E f \in F : f[1] = part /\ f[2] = key /\ f[3] = x
  BY DEF Third
<1>2. \A f \in F : f = <<f[1], f[2], f[3]>>
  BY FactKinds
<1>3. ASSUME NEW part, NEW key, NEW x
      PROVE  x \in Third(F, part, key) <=> <<part, key, x>> \in F
  <2>1. <<part, key, x>>[1] = part /\ <<part, key, x>>[2] = key /\ <<part, key, x>>[3] = x
    OBVIOUS
  <2> QED  BY <1>1, <1>2, <2>1
<1>4. ASSUME NEW r \in Roles
      PROVE  /\ Third(F, "role", r) = c.roles[r]
             /\ Third(F, "roleAdmin", r) = {c.roleAdmin[r]}
  <2> HIDE DEF F
  <2>1. \A x : x \in Third(F, "role", r) <=> x \in c.roles[r]
    BY <1>3, RoleFact DEF F
  <2>2. \A x : x \in Third(F, "roleAdmin", r) <=> x = c.roleAdmin[r]
    BY <1>3, RoleAdminFact DEF F
  <2> QED  BY <2>1, <2>2
<1>5. ASSUME NEW t \in Administered
      PROVE  Third(F, "contractAdmin", t) = {c.contractAdmin[t]}
  <2>1. \A x : x \in Third(F, "contractAdmin", t) <=> x = c.contractAdmin[t]
    BY <1>3, ContractAdminFact
  <2> QED  BY <2>1
<1>6. Third(F, "deposit", "counted") = c.oracle
  <2>1. \A x : x \in Third(F, "deposit", "counted") <=> x \in c.oracle
    BY <1>3, DepositFact
  <2> QED  BY <2>1
<1>7. ASSUME NEW g \in Guardians
      PROVE  Third(F, "safe", g) = c.safe[g]
  <2>1. \A x : x \in Third(F, "safe", g) <=> x \in c.safe[g]
    BY <1>3, SafeFact
  <2> QED  BY <2>1
<1> QED  BY <1>4, <1>5, <1>6, <1>7

LEMMA OnlyOne ==
  ASSUME NEW x
  PROVE  Only({x}) = x
BY DEF Only

LEMMA PausedShown ==
  ASSUME NEW c \in Configurations
  PROVE  {<<f[2], f[3]>> : f \in {g \in Facts(c) : g[1] = "paused"}} = c.paused
<1> DEFINE S == {<<f[2], f[3]>> : f \in {g \in Facts(c) : g[1] = "paused"}}
<1>1. ASSUME NEW p \in c.paused
      PROVE  p \in S
  <2>1. p = <<p[1], p[2]>>
    BY DEF Configurations
  <2>2. <<"paused", p[1], p[2]>> \in Facts(c)
    BY <2>1, PausedFact
  <2> DEFINE f == <<"paused", p[1], p[2]>>
  <2>3. f[1] = "paused" /\ <<f[2], f[3]>> = p
    BY <2>1
  <2> QED  BY <2>2, <2>3
<1>2. ASSUME NEW p \in S
      PROVE  p \in c.paused
  <2>1. PICK f \in Facts(c) : f[1] = "paused" /\ p = <<f[2], f[3]>>
    BY <1>2
  <2>2. f = <<"paused", f[2], f[3]>>
    BY <2>1, FactKinds
  <2>3. <<"paused", f[2], f[3]>> \in Facts(c)
    BY <2>2
  <2> QED  BY <2>1, <2>3, PausedFact
<1> QED  BY <1>1, <1>2

LEMMA ShownIsItself ==
  ASSUME NEW c \in Configurations
  PROVE  Shown(Facts(c), Facts(c)) = c
<1> DEFINE s == Shown(Facts(c), Facts(c))
<1>1. /\ s.roles = [r \in Roles |-> c.roles[r]]
      /\ s.roleAdmin = [r \in Roles |-> c.roleAdmin[r]]
      /\ s.contractAdmin = [t \in Administered |-> c.contractAdmin[t]]
      /\ s.oracle = c.oracle
      /\ s.safe = [g \in Guardians |-> c.safe[g]]
      /\ s.paused = c.paused
  <2> DEFINE F == Facts(c)
  <2>1. /\ s.roles = [r \in Roles |-> Third(F, "role", r)]
        /\ s.roleAdmin = [r \in Roles |-> Only(Third(F, "roleAdmin", r))]
        /\ s.contractAdmin = [t \in Administered |-> Only(Third(F, "contractAdmin", t))]
        /\ s.oracle = Third(F, "deposit", "counted")
        /\ s.safe = [g \in Guardians |-> Third(F, "safe", g)]
        /\ s.paused = {<<f[2], f[3]>> : f \in {g \in F : g[1] = "paused"}}
    BY DEF Shown
  <2> HIDE DEF s
  <2>2. s.roles = [r \in Roles |-> c.roles[r]] /\ s.safe = [g \in Guardians |-> c.safe[g]]
    BY <2>1, ThirdsOf
  <2>3. s.roleAdmin = [r \in Roles |-> c.roleAdmin[r]]
    <3>1. \A r \in Roles : Only(Third(F, "roleAdmin", r)) = c.roleAdmin[r]
      BY ThirdsOf, OnlyOne
    <3> QED  BY <2>1, <3>1
  <2>4. s.contractAdmin = [t \in Administered |-> c.contractAdmin[t]]
    <3>1. \A t \in Administered : Only(Third(F, "contractAdmin", t)) = c.contractAdmin[t]
      BY ThirdsOf, OnlyOne
    <3> QED  BY <2>1, <3>1
  <2>5. s.oracle = c.oracle /\ s.paused = c.paused
    BY <2>1, ThirdsOf, PausedShown
  <2> QED  BY <2>2, <2>3, <2>4, <2>5
<1>2. /\ c.roles = [r \in Roles |-> c.roles[r]]
      /\ c.roleAdmin = [r \in Roles |-> c.roleAdmin[r]]
      /\ c.contractAdmin = [t \in Administered |-> c.contractAdmin[t]]
      /\ c.safe = [g \in Guardians |-> c.safe[g]]
      /\ c = [roles |-> c.roles, roleAdmin |-> c.roleAdmin, contractAdmin |-> c.contractAdmin,
              oracle |-> c.oracle, safe |-> c.safe, paused |-> c.paused]
  BY DEF Configurations
<1>3. s = [roles |-> s.roles, roleAdmin |-> s.roleAdmin, contractAdmin |-> s.contractAdmin,
           oracle |-> s.oracle, safe |-> s.safe, paused |-> s.paused]
  BY DEF Shown
<1> HIDE DEF s
<1> QED  BY <1>1, <1>2, <1>3 DEF s

(* For every history whose order of execution settles what holds at the     *)
(* end: once every proposal is executed, in whatever order, the protocol is *)
(* as src/protocol-configuration says (the integration tests).              *)
THEOREM EndsAsConfigured == Spec => []ConfiguredAtTheEnd
<1>1. TypeOK /\ Tracked /\ Past => ConfiguredAtTheEnd
  <2> SUFFICES ASSUME TypeOK, Tracked, Past, Done
               PROVE  AsConfigured(config, LeftSafe(executed))
    BY DEF ConfiguredAtTheEnd
  <2>1. tx = Idle /\ config = saved /\ Settled = Proposals /\ saved \in Configurations
    BY DEF Done, Between, Tracked, TypeOK
  <2>2. /\ vetoed \in SUBSET VetoableProposal /\ executed = Proposals \ vetoed
        /\ Facts(saved) = FactsAtTheEnd(vetoed)
    BY <2>1, HoldsAtTheEnd DEF Holding
  <2>3. AtTheEnd(vetoed) = saved
    BY <2>1, <2>2, ShownIsItself DEF AtTheEnd
  <2>4. AsConfigured(AtTheEnd(vetoed), LeftSafe(Proposals \ vetoed))
    BY <2>2, EndAssumption
  <2> QED  BY <2>1, <2>2, <2>3, <2>4
<1> QED  BY <1>1, TypeCorrect, TrackedAlways, PastAlways, PTL

-----------------------------------------------------------------------------
(* What validations ask is kept by every configuration between one that     *)
(* shows what holds for sure and one that shows what may hold.              *)
Within(c, lo, hi) ==
  /\ \A r \in Roles : lo.roles[r] \subseteq c.roles[r] /\ c.roles[r] \subseteq hi.roles[r]
  /\ \A r \in Roles : lo.roleAdmin[r] = "ROLE_ADMIN" => c.roleAdmin[r] = "ROLE_ADMIN"
  /\ \A q \in Roles : \A t : AdminRole(lo, t) = q => AdminRole(c, t) = q
  /\ lo.oracle \subseteq c.oracle /\ c.oracle \subseteq hi.oracle
  /\ \A g \in Guardians : lo.safe[g] \subseteq c.safe[g] /\ c.safe[g] \subseteq hi.safe[g]
  /\ lo.paused \subseteq c.paused /\ c.paused \subseteq hi.paused
  /\ \A g \in Guardians : IsFiniteSet(hi.safe[g])

ValidatedRoles ==
  {"ORACLE_ADMIN_ROLE", "MINTER_ROLE", "TOKEMAK_DEPOSIT_ADMIN_ROLE", "VOTIUM_ADMIN_ROLE",
   "TRIBE_MINTER_ADMIN_ROLE", "optimisticTimelock.EXECUTOR_ROLE", "PCV_CONTROLLER_ROLE",
   "PCV_GUARDIAN_ADMIN_ROLE", "ROLE_ADMIN", "POD_ADMIN", "POD_METADATA_REGISTER_ROLE",
   "GOVERN_ROLE", "POD_VETO_ADMIN", "RATE_LIMITED_MINTER_ADMIN", "PARAMETER_ADMIN",
   "TRIBAL_CHIEF_ADMIN_ROLE", "METAGOVERNANCE_VOTE_ADMIN", "METAGOVERNANCE_TOKEN_STAKING",
   "METAGOVERNANCE_GAUGE_ADMIN", "SWAP_ADMIN_ROLE", "BALANCER_MANAGER_ADMIN_ROLE",
   "FUSE_ADMIN", "FEI_MINT_ADMIN", "PCV_MINOR_PARAM_ROLE", "PSM_ADMIN_ROLE",
   "PCV_SAFE_MOVER_ROLE", "GUARDIAN_ROLE", "tribalCouncilTimelock.EXECUTOR_ROLE",
   "AUTO_REWARDS_DISTRIBUTOR_ROLE"}

LEMMA RolesThere == ValidatedRoles \subseteq Roles
<1> DEFINE Elsewhere == {"optimisticTimelock.EXECUTOR_ROLE", "tribalCouncilTimelock.EXECUTOR_ROLE",
                         "AUTO_REWARDS_DISTRIBUTOR_ROLE"}
<1>1. ValidatedRoles \ Elsewhere \subseteq CoreRoles
  BY DEF ValidatedRoles, CoreRoles, PermissionsConfig
<1>2. CoreRoles \cup Elsewhere \subseteq Roles
  BY NamesAssumption
<1> QED  BY <1>1, <1>2

LEMMA GuardiansThere == "pcvGuardianV1" \in Guardians /\ "pcvGuardian" \in Guardians
BY NamesAssumption

LEMMA WithinKeeps ==
  ASSUME NEW c, NEW lo, NEW hi, Within(c, lo, hi)
  PROVE  /\ \A r \in ValidatedRoles : \A S :
              /\ HoldersOf(lo, r, S) => HoldersOf(c, r, S)
              /\ NoneHolds(hi, r, S) => NoneHolds(c, r, S)
              /\ AdministeredBy(lo, r, S) => AdministeredBy(c, r, S)
         /\ \A r \in ValidatedRoles :
              lo.roleAdmin[r] = "ROLE_ADMIN" => c.roleAdmin[r] = "ROLE_ADMIN"
         /\ \A S : /\ Counted(lo, S) => Counted(c, S)
                   /\ NotCounted(hi, S) => NotCounted(c, S)
         /\ \A kind, S : /\ AllPaused(lo, kind, S) => AllPaused(c, kind, S)
                         /\ NothingPaused(hi, kind, S) => NothingPaused(c, kind, S)
         /\ \A g \in {"pcvGuardianV1", "pcvGuardian"} :
              /\ lo.safe[g] \subseteq c.safe[g] /\ c.safe[g] \subseteq hi.safe[g]
              /\ IsFiniteSet(hi.safe[g])
<1>1. \A r \in ValidatedRoles : r \in Roles
  BY RolesThere
<1>2. ASSUME NEW r \in ValidatedRoles, NEW S
      PROVE  /\ HoldersOf(lo, r, S) => HoldersOf(c, r, S)
             /\ NoneHolds(hi, r, S) => NoneHolds(c, r, S)
             /\ AdministeredBy(lo, r, S) => AdministeredBy(c, r, S)
  BY <1>1 DEF Within, HoldersOf, NoneHolds, AdministeredBy
<1>3. \A r \in ValidatedRoles : lo.roleAdmin[r] = "ROLE_ADMIN" => c.roleAdmin[r] = "ROLE_ADMIN"
  BY <1>1 DEF Within
<1>4. ASSUME NEW S
      PROVE  (Counted(lo, S) => Counted(c, S)) /\ (NotCounted(hi, S) => NotCounted(c, S))
  BY DEF Within, Counted, NotCounted
<1>5. ASSUME NEW kind, NEW S
      PROVE  /\ AllPaused(lo, kind, S) => AllPaused(c, kind, S)
             /\ NothingPaused(hi, kind, S) => NothingPaused(c, kind, S)
  BY DEF Within, AllPaused, NothingPaused
<1>6. ASSUME NEW g \in {"pcvGuardianV1", "pcvGuardian"}
      PROVE  /\ lo.safe[g] \subseteq c.safe[g] /\ c.safe[g] \subseteq hi.safe[g]
             /\ IsFiniteSet(hi.safe[g])
  BY GuardiansThere DEF Within
<1> QED  BY <1>2, <1>3, <1>4, <1>5, <1>6

LEMMA BeforeMergerKept ==
  ASSUME NEW c, NEW lo, NEW hi, Within(c, lo, hi)
  PROVE  /\ fip_37_validate(lo) /\ fip_37_validate(hi) => fip_37_validate(c)
         /\ fip_38_validate(lo) => fip_38_validate(c)
         /\ fip_45_validate(lo) => fip_45_validate(c)
         /\ fip_48_validate(lo) /\ fip_48_validate(hi) => fip_48_validate(c)
         /\ fip_33b_validate(lo) => fip_33b_validate(c)
         /\ fip_53_validate(lo) => fip_53_validate(c)
         /\ fip_54_validate(lo) => fip_54_validate(c)
         /\ fip_56_validate(lo) /\ fip_56_validate(hi) => fip_56_validate(c)
<1>1. fip_37_validate(lo) /\ fip_37_validate(hi) => fip_37_validate(c)
  BY WithinKeeps DEF fip_37_validate, ValidatedRoles
<1>2. fip_38_validate(lo) => fip_38_validate(c)
  BY WithinKeeps DEF fip_38_validate, ValidatedRoles
<1>3. (fip_45_validate(lo) => fip_45_validate(c)) /\ (fip_33b_validate(lo) => fip_33b_validate(c))
      /\ (fip_53_validate(lo) => fip_53_validate(c))
  BY WithinKeeps DEF fip_45_validate, fip_33b_validate, fip_53_validate
<1>4. fip_48_validate(lo) /\ fip_48_validate(hi) => fip_48_validate(c)
  BY WithinKeeps DEF fip_48_validate, ValidatedRoles
<1>5. fip_54_validate(lo) => fip_54_validate(c)
  BY WithinKeeps DEF fip_54_validate, ValidatedRoles
<1>6. fip_56_validate(lo) /\ fip_56_validate(hi) => fip_56_validate(c)
  BY WithinKeeps DEF fip_56_validate, ValidatedRoles
<1> QED  BY <1>1, <1>2, <1>3, <1>4, <1>5, <1>6

(* As many safe addresses for sure as there may be: those, then.            *)
LEMMA SafeCountKept ==
  ASSUME NEW c, NEW lo, NEW hi, Within(c, lo, hi), fip_55_validate(lo), fip_55_validate(hi)
  PROVE  fip_55_validate(c)
<1> DEFINE L == lo.safe["pcvGuardianV1"]  H == hi.safe["pcvGuardianV1"]
           C == c.safe["pcvGuardianV1"]
<1>1. L \subseteq C /\ C \subseteq H /\ IsFiniteSet(H)
  BY WithinKeeps
<1>2. Cardinality(L) = 4 /\ Cardinality(H) = 4
  BY DEF fip_55_validate
<1>3. L \subseteq H
  BY <1>1
<1> HIDE DEF L, H, C
<1>4. L = H
  <2>1. IsFiniteSet(L) /\ (Cardinality(H) = Cardinality(L) => L = H)
    BY <1>1, <1>3, FS_Subset
  <2> QED  BY <1>2, <2>1
<1>5. C = H
  BY <1>1, <1>4
<1> QED  BY <1>2, <1>5 DEF fip_55_validate, C

LEMMA MergerKept ==
  ASSUME NEW c, NEW lo, NEW hi, Within(c, lo, hi)
  PROVE  /\ fip_61_validate(lo) /\ fip_61_validate(hi) => fip_61_validate(c)
         /\ fip_62_validate(lo) => fip_62_validate(c)
         /\ fip_67_validate(lo) => fip_67_validate(c)
         /\ fip_70_validate(lo) => fip_70_validate(c)
         /\ fip_72_validate(lo) => fip_72_validate(c)
         /\ fip_73_validate(lo) => fip_73_validate(c)
         /\ fip_76b_validate(hi) => fip_76b_validate(c)
<1>1. fip_61_validate(lo) /\ fip_61_validate(hi) => fip_61_validate(c)
  BY WithinKeeps DEF fip_61_validate, ValidatedRoles
<1>2. (fip_62_validate(lo) => fip_62_validate(c)) /\ (fip_67_validate(lo) => fip_67_validate(c))
      /\ (fip_72_validate(lo) => fip_72_validate(c))
  BY WithinKeeps DEF fip_62_validate, fip_67_validate, fip_72_validate
<1>3. fip_70_validate(lo) => fip_70_validate(c)
  BY WithinKeeps DEF fip_70_validate, ValidatedRoles
<1>4. fip_73_validate(lo) => fip_73_validate(c)
  BY WithinKeeps DEF fip_73_validate, ValidatedRoles
<1>5. fip_76b_validate(hi) => fip_76b_validate(c)
  BY WithinKeeps DEF fip_76b_validate, ValidatedRoles
<1> QED  BY <1>1, <1>2, <1>3, <1>4, <1>5

LEMMA CouncilKept ==
  ASSUME NEW c, NEW lo, NEW hi, Within(c, lo, hi)
  PROVE  /\ fip_82_validate(lo) => fip_82_validate(c)
         /\ fip_84a_validate(lo) /\ fip_84a_validate(hi) => fip_84a_validate(c)
         /\ fip_94_validate(hi) => fip_94_validate(c)
         /\ fip_98_validate(lo) => fip_98_validate(c)
         /\ fip_99_validate(lo) /\ fip_99_validate(hi) => fip_99_validate(c)
         /\ fip_82b_validate(lo) /\ fip_82b_validate(hi) => fip_82b_validate(c)
         /\ fip_104_validate(lo) => fip_104_validate(c)
         /\ buyback_newpool_validate(lo) /\ buyback_newpool_validate(hi)
              => buyback_newpool_validate(c)
         /\ balancer_gauge_fix_validate(lo) /\ balancer_gauge_fix_validate(hi)
              => balancer_gauge_fix_validate(c)
         /\ oa_cr_fix_validate(lo) /\ oa_cr_fix_validate(hi) => oa_cr_fix_validate(c)
         /\ eth_lbp_validate(lo) => eth_lbp_validate(c)
<1>1. fip_82_validate(lo) => fip_82_validate(c)
  BY WithinKeeps DEF fip_82_validate, ValidatedRoles
<1>2. /\ fip_84a_validate(lo) /\ fip_84a_validate(hi) => fip_84a_validate(c)
      /\ fip_94_validate(hi) => fip_94_validate(c)
  BY WithinKeeps DEF fip_84a_validate, fip_94_validate, ValidatedRoles
<1>3. /\ fip_98_validate(lo) => fip_98_validate(c)
      /\ fip_99_validate(lo) /\ fip_99_validate(hi) => fip_99_validate(c)
  BY WithinKeeps DEF fip_98_validate, fip_99_validate
<1>4. ASSUME fip_82b_validate(lo), fip_82b_validate(hi)
      PROVE  fip_82b_validate(c)
  <2>1. c.safe["pcvGuardian"] = lo.safe["pcvGuardian"]
    <3>1. lo.safe["pcvGuardian"] = hi.safe["pcvGuardian"]
      BY <1>4 DEF fip_82b_validate
    <3>2. /\ lo.safe["pcvGuardian"] \subseteq c.safe["pcvGuardian"]
          /\ c.safe["pcvGuardian"] \subseteq hi.safe["pcvGuardian"]
      BY WithinKeeps
    <3> QED  BY <3>1, <3>2
  <2>2. /\ HoldersOf(c, "GUARDIAN_ROLE", {"pcvGuardian"})
        /\ HoldersOf(c, "PCV_CONTROLLER_ROLE", {"pcvGuardian"})
        /\ NoneHolds(c, "GUARDIAN_ROLE", {"pcvGuardianV1"})
        /\ NoneHolds(c, "PCV_CONTROLLER_ROLE", {"pcvGuardianV1"})
    <3>1. {"GUARDIAN_ROLE", "PCV_CONTROLLER_ROLE"} \subseteq ValidatedRoles
      BY DEF ValidatedRoles
    <3> QED  BY <1>4, <3>1, WithinKeeps DEF fip_82b_validate
  <2>3. validateTransferredRoleAdmins(c)
    <3>1. validateTransferredRoleAdmins(lo)
      BY <1>4 DEF fip_82b_validate
    <3> QED  BY <3>1, WithinKeeps DEF validateTransferredRoleAdmins, ValidatedRoles
  <2>4. validateNewCouncilRoles(c)
    <3>1. validateNewCouncilRoles(lo)
      BY <1>4 DEF fip_82b_validate
    <3> QED  BY <3>1, WithinKeeps DEF validateNewCouncilRoles, ValidatedRoles
  <2>5. validateContractAdmins(c)
    <3>1. validateContractAdmins(lo)
      BY <1>4 DEF fip_82b_validate
    <3> QED  BY <3>1, WithinKeeps DEF validateContractAdmins, ValidatedRoles
  <2>6. validateTribalCouncilRoles(c)
    <3>1. validateTribalCouncilRoles(lo)
      BY <1>4 DEF fip_82b_validate
    <3> QED  BY <3>1, WithinKeeps DEF validateTribalCouncilRoles, ValidatedRoles
  <2>7. validateCallingContractsHaveNewAdmin(c)
    <3>1. validateCallingContractsHaveNewAdmin(lo)
      BY <1>4 DEF fip_82b_validate
    <3> QED  BY <3>1, WithinKeeps DEF validateCallingContractsHaveNewAdmin, ValidatedRoles
  <2> QED  BY <1>4, <2>1, <2>2, <2>3, <2>4, <2>5, <2>6, <2>7 DEF fip_82b_validate
<1>5. fip_104_validate(lo) => fip_104_validate(c)
  BY WithinKeeps DEF fip_104_validate, ValidatedRoles
<1>6. /\ buyback_newpool_validate(lo) /\ buyback_newpool_validate(hi) => buyback_newpool_validate(c)
      /\ balancer_gauge_fix_validate(lo) /\ balancer_gauge_fix_validate(hi)
           => balancer_gauge_fix_validate(c)
  BY WithinKeeps DEF buyback_newpool_validate, balancer_gauge_fix_validate
<1>7. oa_cr_fix_validate(lo) /\ oa_cr_fix_validate(hi) => oa_cr_fix_validate(c)
  BY WithinKeeps DEF oa_cr_fix_validate
<1>8. eth_lbp_validate(lo) => eth_lbp_validate(c)
  BY WithinKeeps DEF eth_lbp_validate, ValidatedRoles
<1> QED  BY <1>1, <1>2, <1>3, <1>4, <1>5, <1>6, <1>7, <1>8

LEMMA ShutdownKept ==
  ASSUME NEW c, NEW lo, NEW hi, Within(c, lo, hi)
  PROVE  /\ register_proposal_validate(lo) => register_proposal_validate(c)
         /\ pod_exec_v2_validate(lo) /\ pod_exec_v2_validate(hi) => pod_exec_v2_validate(c)
         /\ end_tribe_incentives_validate(lo) /\ end_tribe_incentives_validate(hi)
              => end_tribe_incentives_validate(c)
         /\ tip_112_validate(lo) => tip_112_validate(c)
         /\ tip_117_validate(hi) => tip_117_validate(c)
         /\ tip_118_validate(lo) /\ tip_118_validate(hi) => tip_118_validate(c)
         /\ tip_119_validate(hi) => tip_119_validate(c)
<1>1. register_proposal_validate(lo) => register_proposal_validate(c)
  BY WithinKeeps DEF register_proposal_validate, ValidatedRoles
<1>2. pod_exec_v2_validate(lo) /\ pod_exec_v2_validate(hi) => pod_exec_v2_validate(c)
  BY WithinKeeps DEF pod_exec_v2_validate, ValidatedRoles
<1>3. end_tribe_incentives_validate(lo) /\ end_tribe_incentives_validate(hi)
        => end_tribe_incentives_validate(c)
  BY WithinKeeps DEF end_tribe_incentives_validate, ValidatedRoles
<1>4. (tip_112_validate(lo) => tip_112_validate(c)) /\ (tip_119_validate(hi) => tip_119_validate(c))
  BY WithinKeeps DEF tip_112_validate, tip_119_validate
<1>5. tip_117_validate(hi) => tip_117_validate(c)
  BY WithinKeeps DEF tip_117_validate, ValidatedRoles
<1>6. tip_118_validate(lo) /\ tip_118_validate(hi) => tip_118_validate(c)
  BY WithinKeeps DEF tip_118_validate, ValidatedRoles
<1> QED  BY <1>1, <1>2, <1>3, <1>4, <1>5, <1>6

LEMMA ExpectedKept ==
  ASSUME NEW c, NEW lo, NEW hi, Within(c, lo, hi), NEW p, Expected(p, lo), Expected(p, hi)
  PROVE  Expected(p, c)
BY BeforeMergerKept, SafeCountKept, MergerKept, CouncilKept, ShutdownKept DEF Expected

-----------------------------------------------------------------------------
LEMMA SomeThirds ==
  ASSUME NEW c \in Configurations, NEW A, NEW F, A \subseteq Facts(c), Facts(c) \subseteq F
  PROVE  \A part, key : /\ Third(A, part, key) \subseteq Third(Facts(c), part, key)
                        /\ Third(Facts(c), part, key) \subseteq Third(F, part, key)
BY DEF Third

LEMMA OnlyKnown ==
  ASSUME NEW S, NEW x, S \subseteq {x}, Only(S) # "unknown"
  PROVE  Only(S) = x
<1>1. S = {x} \/ S = {}
  OBVIOUS
<1> QED  BY <1>1, OnlyOne DEF Only

LEMMA ShownBetween ==
  ASSUME NEW c \in Configurations, NEW A, NEW F, A \subseteq Facts(c), Facts(c) \subseteq F,
         \A g \in Guardians : IsFiniteSet(Third(F, "safe", g)), "unknown" \notin Roles
  PROVE  Within(c, Shown(A, A), Shown(F, A))
<1> DEFINE lo == Shown(A, A)  hi == Shown(F, A)
<1>1. /\ \A r \in Roles : /\ lo.roles[r] = Third(A, "role", r)
                          /\ hi.roles[r] = Third(F, "role", r)
                          /\ lo.roleAdmin[r] = Only(Third(A, "roleAdmin", r))
      /\ lo.contractAdmin = [t \in Administered |-> Only(Third(A, "contractAdmin", t))]
      /\ lo.oracle = Third(A, "deposit", "counted") /\ hi.oracle = Third(F, "deposit", "counted")
      /\ \A g \in Guardians : /\ lo.safe[g] = Third(A, "safe", g)
                              /\ hi.safe[g] = Third(F, "safe", g)
      /\ lo.paused = {<<f[2], f[3]>> : f \in {g \in A : g[1] = "paused"}}
      /\ hi.paused = {<<f[2], f[3]>> : f \in {g \in F : g[1] = "paused"}}
  BY DEF Shown
<1> HIDE DEF lo, hi
<1>2. \A r \in Roles : lo.roles[r] \subseteq c.roles[r] /\ c.roles[r] \subseteq hi.roles[r]
  BY <1>1, SomeThirds, ThirdsOf
<1>3. ASSUME NEW r \in Roles, lo.roleAdmin[r] = "ROLE_ADMIN"
      PROVE  c.roleAdmin[r] = "ROLE_ADMIN"
  <2>1. Third(A, "roleAdmin", r) \subseteq {c.roleAdmin[r]}
    BY SomeThirds, ThirdsOf
  <2>2. Only(Third(A, "roleAdmin", r)) = "ROLE_ADMIN"
    BY <1>1, <1>3
  <2> QED  BY <2>1, <2>2, OnlyKnown
<1>4. ASSUME NEW q \in Roles, NEW t, AdminRole(lo, t) = q
      PROVE  AdminRole(c, t) = q
  <2>1. DOMAIN lo.contractAdmin = Administered /\ DOMAIN c.contractAdmin = Administered
    BY <1>1 DEF Configurations
  <2>2. CASE t \in Administered
    <3>1. Third(A, "contractAdmin", t) \subseteq {c.contractAdmin[t]}
      BY <2>2, SomeThirds, ThirdsOf
    <3>2. Only(Third(A, "contractAdmin", t)) = q
      BY <1>1, <1>4, <2>1, <2>2 DEF AdminRole
    <3>3. c.contractAdmin[t] = q
      BY <3>1, <3>2, OnlyKnown
    <3> QED  BY <2>1, <2>2, <3>3 DEF AdminRole
  <2>3. CASE t \notin Administered
    BY <1>4, <2>1, <2>3 DEF AdminRole
  <2> QED  BY <2>2, <2>3
<1>5. lo.oracle \subseteq c.oracle /\ c.oracle \subseteq hi.oracle
  BY <1>1, SomeThirds, ThirdsOf
<1>6. \A g \in Guardians : lo.safe[g] \subseteq c.safe[g] /\ c.safe[g] \subseteq hi.safe[g]
                           /\ IsFiniteSet(hi.safe[g])
  BY <1>1, SomeThirds, ThirdsOf
<1>7. lo.paused \subseteq c.paused /\ c.paused \subseteq hi.paused
  BY <1>1, PausedShown
<1> QED  BY <1>2, <1>3, <1>4, <1>5, <1>6, <1>7 DEF Within, lo, hi

LEMMA PossibleSafe ==
  ASSUME NEW j, NEW g
  PROVE  IsFiniteSet(Third(Possible(j), "safe", g))
<1>1. ASSUME NEW a \in Third(Possible(j), "safe", g)
      PROVE  a \in Accounts
  <2>1. PICK f \in Possible(j) : f[1] = "safe" /\ f[3] = a
    BY <1>1 DEF Third
  <2>2. f \in Concerned
    BY DEF Possible, Concerned
  <2> QED  BY <2>1, <2>2, ConcernedSafe
<1>2. IsFiniteSet(Accounts)
  BY NamesAssumption
<1> QED  BY <1>1, <1>2, FS_Subset

(* For every history whose validations hold of what it leaves for sure and  *)
(* of what it may leave: what the script of a proposal validates holds from *)
(* its execution to the next one's, whatever was deployed, executed or      *)
(* undone in between (validate).                                            *)
THEOREM KeepsItsValidation == Spec => []Validated
<1>1. TypeOK /\ Tracked /\ Past => Validated
  <2> SUFFICES ASSUME TypeOK, Tracked, Past, Between, last # 0
               PROVE  Expected(Name(last), config)
    BY DEF Validated
  <2>1. config = saved /\ saved \in Configurations
    BY DEF Between, Tracked, TypeOK
  <2>2. last \in Proposals
    BY NumberedProposals DEF Past, LastHolds
  <2>3. Sure(last) \subseteq Facts(saved) /\ Facts(saved) \subseteq Possible(last)
    BY SureHolds DEF Holding
  <2>4. Within(saved, AtLeast(last), AtMost(last))
    <3>1. "unknown" \notin Roles
      BY NamesAssumption
    <3> QED  BY <2>1, <2>3, <3>1, PossibleSafe, ShownBetween DEF AtLeast, AtMost
  <2>5. Expected(Name(last), AtLeast(last)) /\ Expected(Name(last), AtMost(last))
    BY <2>2, ValidationAssumption
  <2> QED  BY <2>1, <2>4, <2>5, ExpectedKept
<1> QED  BY <1>1, TypeCorrect, TrackedAlways, PastAlways, PTL

-----------------------------------------------------------------------------
(* Deposits that report the same reserves: at most one counts, and none     *)
(* after it was removed, or if there was none, until one is added.          *)
Deposit(a)  == <<"deposit", "counted", a>>
Counting(S) == {a \in S : Deposit(a) \in Holding}

FreeOf(S) == S \cap Genesis.oracle = {} \/ Removers(S) \cap executed # {}

Counts ==
  \A S \in SameReserves :
    /\ AtMostOne(Counting(S))
    /\ Adders(S) \cap executed = {} /\ FreeOf(S) => Counting(S) = {}

LEMMA CountingIsOracle ==
  ASSUME NEW S
  PROVE  Counting(S) = S \cap saved.oracle
BY DepositFact DEF Counting, Deposit, Holding

(* What an execution makes of them.                                         *)
LEMMA RunsCounting ==
  ASSUME NEW j \in Proposals, Runs(j), NEW S
  PROVE  /\ Counting(S)' \subseteq (Counting(S) \ Loses(j, S)) \cup Gains(j, S)
         /\ Loses(j, S) \subseteq Counting(S)
<1>1. /\ Holding' = (Holding \ Taken[j]) \cup Given[j]
      /\ Needed[j] \subseteq Holding
  BY DEF Runs, Atomic!Execute, Holding
<1>2. ASSUME NEW a \in Counting(S)'
      PROVE  a \in (Counting(S) \ Loses(j, S)) \cup Gains(j, S)
  BY <1>1, <1>2 DEF Counting, Deposit, Gains, Loses
<1>3. ASSUME NEW a \in Loses(j, S)
      PROVE  a \in Counting(S)
  BY <1>1 DEF Counting, Deposit, Loses
<1> QED  BY <1>2, <1>3

LEMMA ExecutedBefore ==
  ASSUME Numbered, InOrder, ForcedDone', NEW j \in Proposals, Runs(j)
  PROVE  Earlier(j, Ordered) \subseteq executed /\ j \notin executed
<1>1. j \in Atomic!Pending /\ executed' = executed \cup {j}
  BY DEF Runs, Atomic!Execute
<1>2. j \in 1 .. proposed /\ j \notin executed
  BY <1>1 DEF Atomic!Pending
<1>3. ASSUME NEW k \in Unavoidable, <<k, j>> \in Ordered
      PROVE  k \in executed
  <2>1. CASE <<k, j>> \in Order
    BY <1>2, <2>1, EarlierExecuted DEF Earlier
  <2>2. CASE <<k, j>> \in Forced
    <3>1. <<k, j>>[1] = k /\ <<k, j>>[2] = j
      OBVIOUS
    <3>2. k \in executed'
      BY <1>1, <2>2, <3>1 DEF ForcedDone
    <3>3. k # j
      BY <1>3, OrderedTyped
    <3> QED  BY <1>1, <3>2, <3>3
  <2> QED  BY <1>3, <2>1, <2>2 DEF Ordered
<1> QED  BY <1>2, <1>3 DEF Earlier

LEMMA CountsStep ==
  ASSUME Past, Past', Counts,
         Deploys \/ (\E i \in Proposals : Runs(i) \/ Refuses(i)) \/ Unseen
  PROVE  Counts'
<1>1. CASE Deploys
  <2>1. UNCHANGED executed
    BY <1>1, DeploysFacts DEF Past
  <2>2. ASSUME NEW a
        PROVE  Deposit(a) \in Holding' <=> Deposit(a) \in Holding
    <3>1. ~Copied(Deposit(a))
      BY DEF Copied, Deposit
    <3> QED  BY <1>1, <3>1, DeploysFacts DEF Past
  <2>3. \A S : Counting(S)' = Counting(S)
    BY <2>2 DEF Counting
  <2> QED  BY <2>1, <2>3 DEF Counts, FreeOf
<1>2. ASSUME NEW j \in Proposals, Runs(j)
      PROVE  Counts'
  <2> SUFFICES ASSUME NEW S \in SameReserves
               PROVE  /\ AtMostOne(Counting(S)')
                      /\ Adders(S) \cap executed' = {} /\ FreeOf(S)' => Counting(S)' = {}
    BY DEF Counts
  <2> DEFINE K == Counting(S)  G == Gains(j, S)  L == Loses(j, S)
  <2>1. K' \subseteq (K \ L) \cup G /\ L \subseteq K
    BY <1>2, RunsCounting
  <2>2. AtMostOne(K) /\ (Adders(S) \cap executed = {} /\ FreeOf(S) => K = {})
    BY DEF Counts
  <2>3. /\ AtMostOne(G) /\ AtMostOne(Adders(S))
        /\ j \in Adders(S) => \/ S \cap Genesis.oracle = {}
                              \/ Earlier(j, Ordered) \cap Removers(S) # {}
    BY ReservesAssumption
  <2>4. /\ j \in Adders(S) <=> G # {} /\ L = {}
        /\ j \in Removers(S) <=> L # {} /\ G = {}
    BY DEF Adders, Removers
  <2>5. executed' = executed \cup {j} /\ j \notin executed /\ Earlier(j, Ordered) \subseteq executed
    BY <1>2, ExecutedBefore DEF Past, Runs, Atomic!Execute
  <2>6. L # {} => K = L
    BY <2>1, <2>2 DEF AtMostOne
  <2>7. j \in Adders(S) => K = {}
    <3>1. ASSUME j \in Adders(S)
          PROVE  Adders(S) \cap executed = {} /\ FreeOf(S)
      <4>1. Adders(S) \subseteq {j}
        BY <2>3, <3>1 DEF AtMostOne
      <4>2. FreeOf(S)
        BY <2>3, <2>5, <3>1 DEF FreeOf
      <4> QED  BY <2>5, <4>1, <4>2
    <3> QED  BY <2>2, <3>1
  <2> HIDE DEF K, G, L
  <2>8. AtMostOne(K')
    BY <2>1, <2>2, <2>3, <2>4, <2>6, <2>7 DEF AtMostOne
  <2>9. ASSUME Adders(S) \cap executed' = {}, FreeOf(S)'
        PROVE  K' = {}
    <3>1. j \notin Adders(S) /\ Adders(S) \cap executed = {}
      BY <2>5, <2>9
    <3>2. FreeOf(S) \/ j \in Removers(S)
      BY <2>5, <2>9 DEF FreeOf
    <3> QED  BY <2>1, <2>2, <2>4, <2>6, <3>1, <3>2
  <2> QED  BY <2>8, <2>9 DEF K
<1>3. CASE UNCHANGED <<Holding, executed>>
  BY <1>3 DEF Counts, Counting, FreeOf
<1> QED
  BY <1>1, <1>2, <1>3 DEF Refuses, Atomic!Veto, Unseen, Atomic!vars, Holding

LEMMA CountsAlways == Spec => []Counts
<1>1. Init => Counts
  <2>1. ASSUME Init, NEW S
        PROVE  Counting(S) = S \cap Genesis.oracle /\ executed = {}
    BY <2>1, CountingIsOracle DEF Init
  <2> QED  BY <2>1, ReservesAssumption DEF Counts, FreeOf
<1>2. TypeOK /\ Tracked /\ Past /\ Past' /\ Counts /\ [Next]_vars => Counts'
  BY AtomicStep, CountsStep
<1> QED  BY <1>1, <1>2, TypeCorrect, TrackedAlways, PastAlways, PTL DEF Spec

(* For every history that adds to the same reserves at most once what it    *)
(* does not replace: between transactions no reserves are counted twice     *)
(* (CollateralizationOracle.addDeposits, swapDeposit).                      *)
THEOREM NoReservesTwice == Spec => []CountedOnce
<1>1. TypeOK /\ Tracked /\ Counts => CountedOnce
  <2> SUFFICES ASSUME Tracked, Counts, Between, NEW S \in SameReserves
               PROVE  Cardinality(S \cap config.oracle) <= 1
    BY DEF CountedOnce
  <2> DEFINE K == S \cap config.oracle
  <2>1. AtMostOne(K)
    BY CountingIsOracle DEF Counts, Between, Tracked
  <2>2. K = {} \/ \E a : K = {a}
    <3> HIDE DEF K
    <3> QED  BY <2>1 DEF AtMostOne
  <2> HIDE DEF K
  <2>3. Cardinality({}) = 0 /\ \A a : Cardinality({a}) = 1
    BY FS_EmptySet, FS_Singleton
  <2>4. Cardinality(K) \in {0, 1}
    BY <2>2, <2>3
  <2> QED  BY <2>4 DEF K
<1> QED  BY <1>1, TypeCorrect, TrackedAlways, CountsAlways, PTL

-----------------------------------------------------------------------------
(* A role of Core that is held has an admin, in the middle of a transaction *)
(* too: only who has the admin's role grants it.                            *)
HeldHaveAdmin(c) == \A r \in CoreRoles : c.roles[r] # {} => c.roleAdmin[r] \in Roles

LEMMA PermittedGrant ==
  ASSUME NEW c, NEW x, NEW k, Permitted(c, x, k), k.op \in {"grantMajor", "grant"}
  PROVE  AdministersRole(c, k.arg, x)
BY DEF Permitted, MayChangeRoles, MayChangeDeposits, MayChangeSafe, MayPause, MayMove, MayCall

LEMMA CommandKeepsAdmin ==
  ASSUME TypeOK, Execute, HeldHaveAdmin(config)
  PROVE  HeldHaveAdmin(config')
<1> DEFINE k == Current
<1>1. /\ config \in Configurations /\ k \in AllCommands /\ Running /\ CoreRoles \subseteq Roles
      /\ tx.proposal \in Proposals /\ tx.next \in 1 .. Size(tx.proposal)
      /\ k = Cmd(tx.proposal, tx.next)
  <2>1. Running
    BY CommandFacts
  <2>2. DOMAIN Commands = 1 .. Len(Commands)
    BY <2>1, CurrentTyped, ProposalTyped DEF Commands
  <2> QED  BY <2>1, <2>2, CurrentTyped, NamesAssumption DEF TypeOK, Size, Commands, Cmd, Current
<1>2. ASSUME NEW r \in CoreRoles, config'.roleAdmin = config.roleAdmin,
             config'.roles[r] # {} => config.roles[r] # {}
      PROVE  config'.roles[r] # {} => config'.roleAdmin[r] \in Roles
  BY <1>2 DEF HeldHaveAdmin
<1>3. CASE GrantRole
  <2>1. /\ config'.roleAdmin = config.roleAdmin
        /\ \A r \in Roles \ {k.arg} : config'.roles[r] = config.roles[r]
    BY <1>1, <1>3 DEF GrantRole, Configurations
  <2>2. config.roleAdmin[k.arg] \in Roles
    <3>1. AdministersRole(config, k.arg, Executor)
      BY <1>3, PermittedGrant DEF GrantRole, Accepted
    <3> QED  BY <1>1, <3>1 DEF AdministersRole, Configurations
  <2> QED  BY <1>1, <1>2, <2>1, <2>2 DEF HeldHaveAdmin
<1>4. CASE RevokeRole \/ MoverRetires
  <2>1. /\ config'.roleAdmin = config.roleAdmin
        /\ \A r \in Roles : config'.roles[r] \subseteq config.roles[r]
    BY <1>1, <1>4 DEF RevokeRole, MoverRetires, Configurations
  <2> QED  BY <1>1, <1>2, <2>1 DEF HeldHaveAdmin
<1>5. CASE BecomeAdminOf
  <2>1. k.arg \notin CoreRoles
    BY <1>1, <1>5, AdminsAssumption DEF BecomeAdminOf, Accepted
  <2>2. /\ config'.roleAdmin = config.roleAdmin
        /\ \A r \in Roles \ {k.arg} : config'.roles[r] = config.roles[r]
    BY <1>1, <1>5 DEF BecomeAdminOf, Configurations
  <2> QED  BY <1>1, <1>2, <2>1, <2>2 DEF HeldHaveAdmin
<1>6. CASE SetRoleAdmin
  <2>1. k.arg \in Roles /\ k.to \in Roles
    BY <1>1, <1>6 DEF SetRoleAdmin, Accepted, AllCommands, WellFormed, RoleCommands
  <2>2. /\ config'.roles = config.roles
        /\ \A r \in Roles : config'.roleAdmin[r] = IF r = k.arg THEN k.to ELSE config.roleAdmin[r]
    BY <1>1, <1>6, <2>1 DEF SetRoleAdmin, Configurations
  <2> QED  BY <1>1, <2>1, <2>2 DEF HeldHaveAdmin
<1>7. CASE \/ SetContractAdminRole \/ Deposits \/ Swaps \/ SafeAddresses \/ Pauses \/ SafeMoves
           \/ OtherCalls
  <2>1. config'.roles = config.roles /\ config'.roleAdmin = config.roleAdmin
    BY <1>1, <1>7 DEF SetContractAdminRole, Deposits, Swaps, SafeAddresses, Pauses, SafeMoves,
                      OtherCalls, Configurations
  <2> QED  BY <2>1 DEF HeldHaveAdmin
<1> QED  BY <1>3, <1>4, <1>5, <1>6, <1>7 DEF Execute

LEMMA AdminKept ==
  ASSUME TypeOK, Tracked, HeldHaveAdmin(config), HeldHaveAdmin(saved), [Next]_vars
  PROVE  HeldHaveAdmin(config') /\ HeldHaveAdmin(saved')
<1>1. CASE Propose
  <2>1. /\ config' = AfterDeployment(config, History[proposed + 1].deploys) /\ saved' = config'
    BY <1>1 DEF Propose
  <2>2. config'.roles = config.roles /\ config'.roleAdmin = config.roleAdmin
    BY <2>1 DEF AfterDeployment, TypeOK, Configurations
  <2> QED  BY <2>1, <2>2 DEF HeldHaveAdmin
<1>2. CASE Execute
  BY <1>2, CommandKeepsAdmin, CommandFacts
<1>3. CASE Commit \/ Revert \/ Fault
  BY <1>3 DEF Commit, Revert, Fault, Refused
<1>4. CASE (\E i \in Proposals : Begin(i) \/ Veto(i)) \/ UNCHANGED vars
  BY <1>4 DEF Begin, Veto, vars
<1> QED  BY <1>1, <1>2, <1>3, <1>4 DEF Next, Progress

(* What was ever given and no proposal takes is still there.                *)
KeptHolds ==
  \A k \in {0} \cup executed : \A f \in Leaves(k) : Kept(f) /\ ~Copied(f) => f \in Holding

LEMMA KeptStep ==
  ASSUME Past, KeptHolds,
         Deploys \/ (\E i \in Proposals : Runs(i) \/ Refuses(i)) \/ Unseen
  PROVE  KeptHolds'
<1>1. CASE Deploys
  <2>1. UNCHANGED executed
    BY <1>1, DeploysFacts DEF Past
  <2>2. ASSUME NEW f, ~Copied(f)
        PROVE  f \in Holding' <=> f \in Holding
    BY <1>1, <2>2, DeploysFacts DEF Past
  <2> QED  BY <2>1, <2>2 DEF KeptHolds
<1>2. ASSUME NEW j \in Proposals, Runs(j)
      PROVE  KeptHolds'
  <2>1. executed' = executed \cup {j} /\ Holding' = (Holding \ Taken[j]) \cup Given[j]
    BY <1>2 DEF Runs, Atomic!Execute, Holding
  <2>2. ASSUME NEW k \in {0} \cup executed', NEW f \in Leaves(k), Kept(f), ~Copied(f)
        PROVE  f \in Holding'
    <3>1. CASE k = j
      BY <2>1, <2>2, <3>1, NumbersTyped DEF Leaves
    <3>2. CASE k \in {0} \cup executed
      BY <2>1, <2>2, <3>2 DEF KeptHolds, Kept
    <3> QED  BY <2>1, <3>1, <3>2
  <2> QED  BY <2>2 DEF KeptHolds
<1>3. CASE UNCHANGED <<Holding, executed>>
  BY <1>3 DEF KeptHolds
<1> QED
  BY <1>1, <1>2, <1>3 DEF Refuses, Atomic!Veto, Unseen, Atomic!vars, Holding

AdminsHeld == HeldHaveAdmin(config) /\ HeldHaveAdmin(saved) /\ KeptHolds

LEMMA AdminsHeldAlways == Spec => []AdminsHeld
<1>1. Init => AdminsHeld
  <2>1. ASSUME Init
        PROVE  KeptHolds
    BY <2>1 DEF Init, KeptHolds, Leaves, Holding, AtFirst
  <2> QED  BY <2>1, AdminsAssumption DEF Init, AdminsHeld, HeldHaveAdmin
<1>2. TypeOK /\ Tracked /\ Past /\ AdminsHeld /\ [Next]_vars => AdminsHeld'
  <2> SUFFICES ASSUME TypeOK, Tracked, Past, AdminsHeld, [Next]_vars
               PROVE  AdminsHeld'
    OBVIOUS
  <2>1. KeptHolds'
    BY AtomicStep, KeptStep DEF AdminsHeld
  <2>2. HeldHaveAdmin(config') /\ HeldHaveAdmin(saved')
    BY AdminKept DEF AdminsHeld
  <2> QED  BY <2>1, <2>2 DEF AdminsHeld
<1> QED  BY <1>1, <1>2, TypeCorrect, TrackedAlways, PastAlways, PTL DEF Spec

(* For every history in which what becomes the admin of a role of Core      *)
(* keeps a holder: between transactions no role is left that somebody holds *)
(* and nobody can take back, but the minters' after TIP-121c (Core's        *)
(* createRole, and the proposals that hand roles over).                     *)
THEOREM RolesCanBeTakenBack == Spec => []NoRoleOrphaned
<1>1. TypeOK /\ Tracked /\ Past /\ AdminsHeld => NoRoleOrphaned
  <2> SUFFICES ASSUME TypeOK, Tracked, Past, AdminsHeld, Between, NEW r \in CoreRoles,
                      config.roles[r] # {}
               PROVE  \/ /\ config.roleAdmin[r] # NoRole
                         /\ config.roles[config.roleAdmin[r]] \ {"core"} # {}
                      \/ r = "MINTER_ROLE" /\ Among("tip_121c", executed)
    BY DEF NoRoleOrphaned
  <2>1. /\ config = saved /\ Numbered /\ InOrder /\ ForcedDone /\ Held /\ Sourced
        /\ r \in Roles /\ NoRole \notin Roles
    BY NamesAssumption DEF Between, Tracked, Past
  <2> DEFINE q == config.roleAdmin[r]  f == <<"roleAdmin", r, q>>
  <2>2. q \in Roles /\ q # NoRole
    BY <2>1 DEF AdminsHeld, HeldHaveAdmin
  <2>3. f \in Holding
    BY <2>1, RoleAdminFact DEF Holding
  <2>4. f \in Judged /\ ~Copied(f)
    BY <2>1, <2>3 DEF Held, Judged, Concerned, Copied
  <2>5. PICK s \in {0} \cup executed : f \in Leaves(s)
    BY <2>1, <2>3, <2>4, JudgedSource
  <2>6. \/ NeverHeld(r)
        \/ r = "MINTER_ROLE" /\ s # 0 /\ Name(s) = "tip_121c"
        \/ KeepsHolder(q, s)
    <3>1. s \in {0} \cup Proposals
      BY <2>1, <2>5, NumberedProposals
    <3> HIDE DEF q
    <3> QED  BY <2>2, <2>5, <3>1, AdminsAssumption DEF q
  <2>7. CASE NeverHeld(r)
    <3>1. PICK a : a \in saved.roles[r]
      BY <2>1
    <3>2. <<"role", r, a>> \in EverHeld
      BY <2>1, <3>1, RoleFact DEF Held, Holding
    <3> QED  BY <2>7, <3>2 DEF NeverHeld
  <2>8. CASE r = "MINTER_ROLE" /\ s # 0 /\ Name(s) = "tip_121c"
    BY <2>5, <2>8 DEF Among
  <2>9. CASE KeepsHolder(q, s)
    <3>1. PICK a \in Accounts \ {"core"}, k \in {0, s} \cup Earlier(s, Ordered) :
            <<"role", q, a>> \in Leaves(k) /\ Kept(<<"role", q, a>>)
      BY <2>9 DEF KeepsHolder
    <3>2. Earlier(s, Ordered) \subseteq executed
      <4>1. CASE s = 0
        BY <4>1, OrderedTyped, NumbersTyped DEF Earlier
      <4>2. CASE s \in executed
        BY <2>1, <4>2, EarlierForced
      <4> QED  BY <2>5, <4>1, <4>2
    <3>3. k \in {0} \cup executed
      BY <2>5, <3>1, <3>2
    <3>4. ~Copied(<<"role", q, a>>)
      BY DEF Copied
    <3>5. <<"role", q, a>> \in Holding
      BY <3>1, <3>3, <3>4 DEF AdminsHeld, KeptHolds
    <3>6. a \in saved.roles[q]
      BY <3>5, RoleFact DEF Holding
    <3> QED  BY <2>1, <2>2, <3>1, <3>6
  <2> QED  BY <2>6, <2>7, <2>8, <2>9
<1> QED  BY <1>1, TypeCorrect, TrackedAlways, PastAlways, AdminsHeldAlways, PTL
=============================================================================
