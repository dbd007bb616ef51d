-------------------------- MODULE MainnetUpgrades --------------------------
(***************************************************************************)
(* The proposals of mainnet run through the machine that executes them:     *)
(* what their scripts validate, what the integration tests compare at the   *)
(* end, and what holds of every configuration in between.                   *)
(***************************************************************************)
EXTENDS ProtocolUpgrades, UpgradeHistory

(* What the script of a proposal validates holds after its execution, also  *)
(* when other proposals were executed between its deployment and that, and  *)
(* until the next is executed (validate, called by the upgrade coordinator).*)
Validated == Between /\ last # 0 => Expected(Name(last), config)

Among(p, S) == \E i \in S : Name(i) = p

(* TIP-112 was vetoed: had it been executed its address would still be safe.*)
LeftSafe(S) == IF Among("tip_112", S) THEN {"fuseFixer"} ELSE {}

(* A contract that is filed as deprecated keeps no power over the protocol, *)
(* counts for nothing and is no place reserves may be sent to.              *)
DeprecatedPowerless(c) ==
  \A a \in Deprecated :
    /\ \A r \in CoreRoles : a \notin c.roles[r]
    /\ a \notin c.oracle \cup c.safe["pcvGuardian"]

AsConfigured(c, left) ==
  /\ RolesAsConfigured(c)
  /\ DepositsAsConfigured(c)
  /\ SafeAsConfigured(c.safe["pcvGuardian"] \ left)
  /\ StatesAsConfigured(c)
  /\ DeprecatedPowerless(c)

(* Once every proposal is executed the roles, the deposits, the safe        *)
(* addresses and the pauses are those of src/protocol-configuration, and    *)
(* what it files as deprecated has no power left, whatever the order the    *)
(* proposals were executed in.                                              *)
ConfiguredAtTheEnd == Done => AsConfigured(config, LeftSafe(executed))

(* Deposits and wrappers that report the same reserves.                     *)
SameReserves ==
  {{"rariPool90FeiPCVDeposit", "rariPool90FeiPCVDepositWrapper"},
   {"rariPool91FeiPCVDeposit", "rariPool91FeiPCVDepositWrapper"},
   {"rariPool79FeiPCVDeposit", "rariPool79FeiPCVDepositWrapper"},
   {"rariPool72FeiPCVDeposit", "rariPool72FeiPCVDepositWrapper"},
   {"rariPool28FeiPCVDeposit", "rariPool28FeiPCVDepositWrapper"},
   {"rariPool31FeiPCVDeposit", "rariPool31FeiPCVDepositWrapper"},
   {"rariPool128FeiPCVDeposit", "rariPool128FeiPCVDepositWrapper"},
   {"rariPool22FeiPCVDeposit", "rariPool22FeiPCVDepositWrapper"},
   {"balDepositWrapper", "balancerDepositBalWeth"},
   {"ethLidoPCVDepositOldWrapper", "ethLidoPCVDeposit"},
   {"staticPcvDepositWrapper", "staticPcvDepositWrapper2", "namedStaticPCVDepositWrapper"},
   {"balancerLensBpt30Fei70Weth", "balancerLensBpt30Fei70WethOld",
    "balancerLensBpt30Fei70WethOldest"}}

(* The oracle never counts the same reserves twice between transactions:    *)
(* a deposit and its wrapper are swapped in one.                            *)
CountedOnce ==
  Between => \A S \in SameReserves : Cardinality(S \cap config.oracle) <= 1

(* A role of Core somebody holds has an admin somebody else than Core       *)
(* holds, so that it can be taken back; only the minters' role loses its    *)
(* admin, by TIP-121c and for good.                                         *)
NoRoleOrphaned ==
  Between => \A r \in CoreRoles :
    \/ config.roles[r] = {}
    \/ config.roleAdmin[r] # NoRole /\ config.roles[config.roleAdmin[r]] \ {"core"} # {}
    \/ r = "MINTER_ROLE" /\ Among("tip_121c", executed)
=============================================================================
