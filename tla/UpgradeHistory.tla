--------------------------- MODULE UpgradeHistory ---------------------------
(***************************************************************************)
(* The governance of the protocol from FIP-37 to TIP-121c: the proposals of *)
(* src/proposals in the order they were made, the configuration they start  *)
(* from, and what the scripts and the integration tests of the repository   *)
(* say of the configurations in between and at the end.                     *)
(***************************************************************************)
EXTENDS SequencesExt, ProtocolConfiguration, ProposalsBeforeCouncil, ProposalsOfCouncil

Proposal(by, name, deploys, commands) ==
  [name |-> name, by |-> by, deploys |-> deploys, commands |-> commands]

(* Who executes a proposal (ProposalCategory).                              *)
ByDAO(name, deploys, commands)     == Proposal("feiDAOTimelock", name, deploys, commands)
ByCouncil(name, deploys, commands) == Proposal("tribalCouncilTimelock", name, deploys, commands)
ByRari(name, deploys, commands)    == Proposal("rariTimelock", name, deploys, commands)
ByOptimisticTimelock(name, deploys, commands) ==
  Proposal("optimisticTimelock", name, deploys, commands)
ByGuardian(name, deploys, commands) == Proposal("guardianMultisig", name, deploys, commands)

-----------------------------------------------------------------------------
(* Transactions the proposals rely on and the repository has no script for. *)
deposits_of_optimistic_timelock ==
  << AddDeposits({"rariPool91FeiPCVDeposit", "rariPool79FeiPCVDeposit",
                  "rariPool72FeiPCVDeposit", "rariPool28FeiPCVDeposit",
                  "rariPool31FeiPCVDeposit", "convexPoolPCVDepositWrapper",
                  "compoundFeiPCVDepositWrapper"}),
     RemoveDeposits({"creamFeiPCVDepositWrapper"}) >>

guardian_pauses_mover == << Pause("delayedPCVMoverWethUniToBal") >>

guardian_pauses_minter == << Pause("pcvEquityMinter") >>

guardian_pauses_psms ==
  << Pause("ethPSM"), Pause("raiPriceBoundPSM"),
     Unpause("aaveEthPCVDripController"), Unpause("lusdPCVDripController"),
     Unpause("lusdPSMFeiSkimmer") >>

-----------------------------------------------------------------------------
BeforeMerger ==
  << ByDAO("fip_37", fip_37_deploy, fip_37),
     ByDAO("fip_38", fip_38_deploy, fip_38),
     ByDAO("fip_33", fip_33_deploy, fip_33),
     ByDAO("fip_41", fip_41_deploy, fip_41),
     ByDAO("fip_45", fip_45_deploy, fip_45),
     ByDAO("fip_48", fip_48_deploy, fip_48),
     ByDAO("fip_33b", fip_33b_deploy, fip_33b),
     ByDAO("fip_53", fip_53_deploy, fip_53),
     ByDAO("fip_50", fip_50_deploy, fip_50),
     ByDAO("fip_52", {}, fip_52),
     ByDAO("fip_54", fip_54_deploy, fip_54),
     ByDAO("fip_55", fip_55_deploy, fip_55),
     ByDAO("fip_56", fip_56_deploy, fip_56),
     ByDAO("merger", merger_deploy, merger),
     ByRari("mergerRari", {}, mergerRari) >>

OfMerger ==
  << ByOptimisticTimelock("fip_60", fip_60_deploy, fip_60),
     ByOptimisticTimelock("fip_60b", fip_60b_deploy, fip_60b),
     ByOptimisticTimelock("deposits_of_optimistic_timelock", {}, deposits_of_optimistic_timelock),
     ByOptimisticTimelock("fip_60c", fip_60c_deploy, fip_60c),
     ByDAO("fip_61", fip_61_deploy, fip_61),
     ByDAO("fip_62", fip_62_deploy, fip_62),
     ByOptimisticTimelock("fip_64", {}, fip_64),
     ByDAO("fip_67", fip_67_deploy, fip_67),
     ByDAO("fip_68", fip_68_deploy, fip_68),
     ByDAO("fip_70", fip_70_deploy, fip_70),
     ByDAO("fip_72", fip_72_deploy, fip_72),
     ByDAO("fip_73", fip_73_deploy, fip_73),
     ByOptimisticTimelock("fip_73b", fip_73b_deploy, fip_73b),
     ByOptimisticTimelock("fip_73d", {}, fip_73d),
     ByOptimisticTimelock("fip_visor", {}, fip_visor),
     ByOptimisticTimelock("fip_76a", {}, fip_76a),
     ByGuardian("guardian_pauses_mover", {}, guardian_pauses_mover),
     ByDAO("fip_76b", fip_76b_deploy, fip_76b),
     ByOptimisticTimelock("fip_77", {}, fip_77),
     ByDAO("fip_78a", fip_78a_deploy, fip_78a),
     ByDAO("fip_79", fip_79_deploy, fip_79),
     ByDAO("tokemak_withdraw", {}, tokemak_withdraw) >>

OfCouncil ==
  << ByDAO("fip_82", fip_82_deploy, fip_82),
     ByDAO("fip_83", fip_83_deploy, fip_83),
     ByDAO("fip_84a", {}, fip_84a),
     ByDAO("fip_84b", {}, fip_84b),
     ByDAO("fip_84c", {}, fip_84c),
     ByDAO("fip_85", {}, fip_85),
     ByDAO("fip_87", fip_87_deploy, fip_87),
     ByDAO("fip_92", fip_92_deploy, fip_92),
     ByDAO("fip_94", {}, fip_94),
     ByOptimisticTimelock("fip_97", fip_97_deploy, fip_97),
     ByDAO("fip_98", {}, fip_98),
     ByDAO("fip_99", fip_99_deploy, fip_99),
     ByDAO("fip_82b", fip_82b_deploy, fip_82b),
     ByDAO("fip_104", fip_104_deploy, fip_104),
     ByDAO("fip_104b", {}, fip_104b),
     ByGuardian("guardian_pauses_minter", {}, guardian_pauses_minter),
     ByDAO("buyback_newpool", buyback_newpool_deploy, buyback_newpool),
     ByCouncil("balancer_gauge_fix", balancer_gauge_fix_deploy, balancer_gauge_fix),
     ByCouncil("oa_cr_fix", oa_cr_fix_deploy, oa_cr_fix),
     ByDAO("eth_lbp", eth_lbp_deploy, eth_lbp) >>

OfShutdown ==
  << ByCouncil("register_proposal", {}, register_proposal),
     ByCouncil("pod_exec_v2", pod_exec_v2_deploy, pod_exec_v2),
     ByCouncil("withdraw_d3_pool", {}, withdraw_d3_pool),
     ByDAO("clawback", clawback_deploy, clawback),
     ByDAO("phase_1", phase_1_deploy, phase_1),
     ByCouncil("end_tribe_incentives", {}, end_tribe_incentives),
     ByDAO("tip_111", tip_111_deploy, tip_111),
     ByCouncil("tip_112", tip_112_deploy, tip_112),
     ByCouncil("tip_115", tip_115_deploy, tip_115),
     ByDAO("tip_117", tip_117_deploy, tip_117),
     ByGuardian("guardian_pauses_psms", {}, guardian_pauses_psms),
     ByDAO("tip_118", tip_118_deploy, tip_118),
     ByCouncil("tip_119", tip_119_deploy, tip_119),
     ByCouncil("tc_consolidate", {}, tc_consolidate),
     ByDAO("tip_121a", {}, tip_121a),
     ByDAO("tip_121b", tip_121b_deploy, tip_121b),
     ByDAO("tip_121c", tip_121c_deploy, tip_121c) >>

MainnetHistory == BeforeMerger \o OfMerger \o OfCouncil \o OfShutdown

Made == ToSet(MainnetHistory)

NewContracts == UNION {p.deploys : p \in Made}

OldContracts == MainnetContracts \ NewContracts

AllContracts == MainnetContracts \cup NewContracts

-----------------------------------------------------------------------------
(* The configuration before FIP-37.                                         *)
InitialHolders ==
  [GOVERN_ROLE             |-> {"core", "feiDAOTimelock", "timelock"},
   PCV_CONTROLLER_ROLE     |-> {"feiDAOTimelock", "ratioPCVController",
                                "compoundEthPCVDripController", "aaveEthPCVDripController"},
   GUARDIAN_ROLE           |-> {"guardianMultisig"},
   MINTER_ROLE             |-> {"feiDAOTimelock", "bondingCurve", "dpiBondingCurve",
                                "raiBondingCurve", "daiBondingCurve", "dpiUniswapPCVDeposit",
                                "uniswapPCVDeposit", "optimisticMinter"},
   BURNER_ROLE             |-> {"ethReserveStabilizer"},
   TRIBAL_CHIEF_ADMIN_ROLE |-> {"optimisticTimelock"}]

(* The roles that contracts other than Core keep.                           *)
HoldersElsewhere ==
  ("AUTO_REWARDS_DISTRIBUTOR_ROLE" :> {"autoRewardsDistributor"}) @@
  ("tribalCouncilTimelock.ADMIN" :> {"tribalCouncilTimelock"}) @@
  ("tribalCouncilTimelock.EXECUTOR_ROLE" :> {"tribalCouncilSafe", "podExecutor"}) @@
  ("optimisticTimelock.EXECUTOR_ROLE" :> {"tribalChiefSync"})

CoreRoles ==
  DOMAIN PermissionsConfig \cup {"TRIBE_MINTER_ADMIN_ROLE", "BURN_MINTER_ROLE_TEMPORARY_ROLE"}

UpgradeRoles ==
  CoreRoles \cup DOMAIN HoldersElsewhere \cup
  {"optimisticTimelock.ADMIN", "rewardsDistributorAdmin.ADMIN"}

InitialAdmins ==
  [GOVERN_ROLE |-> "GOVERN_ROLE", MINTER_ROLE |-> "GOVERN_ROLE", BURNER_ROLE |-> "GOVERN_ROLE",
   PCV_CONTROLLER_ROLE |-> "GOVERN_ROLE", GUARDIAN_ROLE |-> "GOVERN_ROLE",
   TRIBAL_CHIEF_ADMIN_ROLE |-> "GOVERN_ROLE"]
  @@ ("tribalCouncilTimelock.ADMIN" :> "tribalCouncilTimelock.ADMIN")
  @@ ("tribalCouncilTimelock.EXECUTOR_ROLE" :> "tribalCouncilTimelock.ADMIN")
  @@ ("optimisticTimelock.ADMIN" :> "optimisticTimelock.ADMIN")
  @@ ("optimisticTimelock.EXECUTOR_ROLE" :> "optimisticTimelock.ADMIN")
  @@ ("rewardsDistributorAdmin.ADMIN" :> "rewardsDistributorAdmin.ADMIN")
  @@ ("AUTO_REWARDS_DISTRIBUTOR_ROLE" :> "rewardsDistributorAdmin.ADMIN")

(* The deposits of FIP-31's collateralization oracle.                       *)
InitialDeposits ==
  {"staticPcvDepositWrapper", "ethReserveStabilizerWrapper", "daiBondingCurveWrapper",
   "raiBondingCurveWrapper", "dpiBondingCurveWrapper", "rariPool19DpiPCVDepositWrapper",
   "ethLidoPCVDepositOldWrapper", "compoundDaiPCVDepositWrapper", "compoundEthPCVDepositWrapper",
   "aaveRaiPCVDepositWrapper", "aaveEthPCVDepositWrapper", "rariPool9RaiPCVDepositWrapper",
   "creamFeiPCVDepositWrapper", "rariPool8FeiPCVDepositWrapper", "rariPool9FeiPCVDepositWrapper",
   "rariPool7FeiPCVDepositWrapper", "rariPool6FeiPCVDepositWrapper",
   "rariPool19FeiPCVDepositWrapper", "rariPool24FeiPCVDepositWrapper",
   "rariPool25FeiPCVDepositWrapper", "rariPool26FeiPCVDepositWrapper",
   "rariPool27FeiPCVDepositWrapper", "rariPool18FeiPCVDepositWrapper",
   "rariPool28FeiPCVDepositWrapper", "rariPool31FeiPCVDepositWrapper", "feiOATimelockWrapper",
   "bondingCurve", "dpiUniswapPCVDeposit", "uniswapPCVDeposit"}

(* The safe list in the constructor of FIP-55's guardian.                   *)
InitialSafe ==
  [pcvGuardianV1 |-> {"feiDAOTimelock", "compoundEthPCVDeposit", "ethReserveStabilizer",
                      "aaveEthPCVDeposit"},
   pcvGuardian   |-> {}]

(* FIP-82b copies the first guardian's list into the second.                *)
GuardianCopies == [pcvGuardian |-> "pcvGuardianV1"]

(* Contracts whose constructor gives the powers of the admin to a role      *)
(* other than the governor's; that of the fuse contracts is the one they    *)
(* were deployed with, which FIP-82b moves to FUSE_ADMIN.                   *)
AdminsByConstructor ==
  [r \in {"SWAP_ADMIN_ROLE", "ORACLE_ADMIN_ROLE", "PSM_ADMIN_ROLE", "TRIBAL_CHIEF_ADMIN_ROLE",
          "PCV_MINOR_PARAM_ROLE"} |->
    CASE r = "SWAP_ADMIN_ROLE" ->
           {"feiTribeLBPSwapper", "noFeeFeiTribeLBPSwapper", "feiLusdLBPSwapper",
            "dpiToDaiLBPSwapper", "ethToDaiLBPSwapper", "lusdToDaiSwapper"}
      [] r = "ORACLE_ADMIN_ROLE" ->
           {"staticPcvDepositWrapper", "staticPcvDepositWrapper2", "namedStaticPCVDepositWrapper"}
      [] r = "PSM_ADMIN_ROLE" ->
           {"daiPSM", "ethPSM", "lusdPSM", "daiFixedPricePSM", "raiPriceBoundPSM"}
      [] r = "TRIBAL_CHIEF_ADMIN_ROLE" ->
           {"tribalChief", "rewardsDistributorAdmin", "fuseGuardian", "fuseAdmin"}
      [] r = "PCV_MINOR_PARAM_ROLE" -> {"ethPSMFeiSkimmer", "lusdPSMFeiSkimmer"}]

(* And those a proposal gives another admin.                                *)
GivenAdmins ==
  {k.on : k \in {k \in UNION {ToSet(p.commands) : p \in Made} : k.op = "setContractAdminRole"}}

AdministeredContracts ==
  GivenAdmins \cup UNION {AdminsByConstructor[r] : r \in DOMAIN AdminsByConstructor}

InitialContractAdmin ==
  [t \in AdministeredContracts |->
    IF \E r \in DOMAIN AdminsByConstructor : t \in AdminsByConstructor[r]
    THEN CHOOSE r \in DOMAIN AdminsByConstructor : t \in AdminsByConstructor[r]
    ELSE "GOVERN_ROLE"]

InitialConfiguration ==
  [roles |-> [r \in UpgradeRoles |-> IF r \in DOMAIN InitialHolders THEN InitialHolders[r]
              ELSE IF r \in DOMAIN HoldersElsewhere THEN HoldersElsewhere[r] ELSE {}],
   roleAdmin |-> [r \in UpgradeRoles |->
                   IF r \in DOMAIN InitialAdmins THEN InitialAdmins[r] ELSE "none"],
   contractAdmin |-> InitialContractAdmin,
   oracle |-> InitialDeposits,
   safe |-> InitialSafe,
   paused |-> {}]

-----------------------------------------------------------------------------
(* The second of a pair fails for ever, or leaves something behind that a   *)
(* script does not expect, unless it is made after the first was executed:  *)
MadeAfter ==
  {<<"fip_53", "fip_50">>,    \* FIP-50 retires the controller FIP-53 moves reserves with
   <<"fip_55", "fip_56">>,    \* FIP-56 adds to the four safe addresses of FIP-55
   <<"fip_98", "fip_82b">>,   \* FIP-82b copies the safe list when it is deployed,
   <<"fip_99", "fip_82b">>,   \*   with what FIP-98 and FIP-99 add to it
   <<"fip_82b", "fip_104">>,  \* FIP-104 adds to the list FIP-82b compares
   <<"tip_115", "guardian_pauses_psms">>,  \* a safe withdrawal unpauses its source
   <<"tip_121b", "tip_121c">>}             \* TIP-121c ends the DAO's power to mint

VetoableProposals == {"tip_112"}

-----------------------------------------------------------------------------
(* What the script of a proposal validates after it was executed.           *)
Expected(p, c) ==
  /\ p = "fip_37" => fip_37_validate(c)
  /\ p = "fip_38" => fip_38_validate(c)
  /\ p = "fip_45" => fip_45_validate(c)
  /\ p = "fip_48" => fip_48_validate(c)
  /\ p = "fip_33b" => fip_33b_validate(c)
  /\ p = "fip_53" => fip_53_validate(c)
  /\ p = "fip_54" => fip_54_validate(c)
  /\ p = "fip_55" => fip_55_validate(c)
  /\ p = "fip_56" => fip_56_validate(c)
  /\ p = "fip_61" => fip_61_validate(c)
  /\ p = "fip_62" => fip_62_validate(c)
  /\ p = "fip_67" => fip_67_validate(c)
  /\ p = "fip_70" => fip_70_validate(c)
  /\ p = "fip_72" => fip_72_validate(c)
  /\ p = "fip_73" => fip_73_validate(c)
  /\ p = "fip_76b" => fip_76b_validate(c)
  /\ p = "fip_82" => fip_82_validate(c)
  /\ p = "fip_84a" => fip_84a_validate(c)
  /\ p = "fip_94" => fip_94_validate(c)
  /\ p = "fip_98" => fip_98_validate(c)
  /\ p = "fip_99" => fip_99_validate(c)
  /\ p = "fip_82b" => fip_82b_validate(c)
  /\ p = "fip_104" => fip_104_validate(c)
  /\ p = "buyback_newpool" => buyback_newpool_validate(c)
  /\ p = "balancer_gauge_fix" => balancer_gauge_fix_validate(c)
  /\ p = "oa_cr_fix" => oa_cr_fix_validate(c)
  /\ p = "eth_lbp" => eth_lbp_validate(c)
  /\ p = "register_proposal" => register_proposal_validate(c)
  /\ p = "pod_exec_v2" => pod_exec_v2_validate(c)
  /\ p = "end_tribe_incentives" => end_tribe_incentives_validate(c)
  /\ p = "tip_112" => tip_112_validate(c)
  /\ p = "tip_117" => tip_117_validate(c)
  /\ p = "tip_118" => tip_118_validate(c)
  /\ p = "tip_119" => tip_119_validate(c)
=============================================================================
