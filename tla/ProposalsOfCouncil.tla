------------------------- MODULE ProposalsOfCouncil --------------------------
(***************************************************************************)
(* src/proposals: the founding of the Tribal Council, the transfer of its   *)
(* roles and the proposals of its first months; then the last proposals,    *)
(* which wind the protocol down. For each, in the order they were executed: *)
(* the contracts its script deploys, the commands its timelock executes, and *)
(* what of the configuration its script validates afterwards.               *)
(***************************************************************************)
EXTENDS UpgradeCommands

(* FIP-82: Deploy TribalCouncil                                            *)
fip_82_deploy ==
  {"podExecutor", "podFactory", "tribalCouncilTimelock", "podAdminGateway", "tribalCouncilSafe",
   "governanceMetadataRegistry", "roleBastion", "nopeDAO"}

fip_82_roles ==
  << CreateRole("ROLE_ADMIN", "GOVERN_ROLE"),
     CreateRole("POD_ADMIN", "ROLE_ADMIN"),
     CreateRole("POD_VETO_ADMIN", "ROLE_ADMIN"),
     CreateRole("POD_METADATA_REGISTER_ROLE", "ROLE_ADMIN"),
     Grant("ROLE_ADMIN", "feiDAOTimelock"),
     Grant("ROLE_ADMIN", "tribalCouncilTimelock"),
     Grant("POD_ADMIN", "tribalCouncilTimelock"),
     Grant("POD_METADATA_REGISTER_ROLE", "tribalCouncilSafe"),
     Grant("GOVERN_ROLE", "roleBastion"),
     Grant("POD_VETO_ADMIN", "nopeDAO"),
     Grant("POD_ADMIN", "podFactory") >>

fip_82_pods ==
  << ByRole(PodAdmins, "podAdminGateway", "batchAddPodMember"),
     ByRole(PodAdmins, "podAdminGateway", "batchRemovePodMember"),
     ByRole(PodAdmins, "podAdminGateway", "lockMembershipTransfers") >>

fip_82 == fip_82_roles \o fip_82_pods

fip_82_validate(c) ==
  /\ HoldersOf(c, "ROLE_ADMIN", {"feiDAOTimelock", "tribalCouncilTimelock"})
  /\ HoldersOf(c, "POD_ADMIN", {"tribalCouncilTimelock", "podFactory"})
  /\ HoldersOf(c, "POD_METADATA_REGISTER_ROLE", {"tribalCouncilSafe"})
  /\ HoldersOf(c, "GOVERN_ROLE", {"roleBastion"})
  /\ HoldersOf(c, "POD_VETO_ADMIN", {"nopeDAO"})

(* FIP-83: La Tribu (hiring devs from DAO)                                 *)
fip_83_deploy == {"laTribuFeiTimelock", "laTribuTribeTimelock"}

fip_83 ==
  << ByGovernor("core", "allocateTribe"),
     Mint("laTribuFeiTimelock") >>

(* FIP-84a: Change FEI DAO timelock to previous timelock. Grant Rari
   timelock governor *)
fip_84a ==
  << Grant("GOVERN_ROLE", "rariTimelock"),
     RevokeGovernor("timelock"),
     Call("feiDAO", "updateTimelock") >>

fip_84a_validate(c) ==
  /\ HoldersOf(c, "GOVERN_ROLE", {"rariTimelock"})
  /\ NoneHolds(c, "GOVERN_ROLE", {"timelock"})

(* FIP-84b: Restore newTimelock to FeiDAO                                  *)
fip_84b ==
  << Call("proxyAdmin", "transferOwnership"),
     Call("timelock", "setDelay"),
     Call("timelock", "setPendingAdmin"),
     Call("feiDAO", "updateTimelock") >>

(* FIP-84c: Accept newTimelock admin as the admin for the oldTimelock      *)
fip_84c == << Call("timelock", "acceptAdmin") >>

(* FIP-85: Kill RGT rewards on RGT/ETH SushiSwap pair                      *)
fip_85 ==
  << Call("rariGovernanceProxyAdmin", "upgrade"),
     Call("rariGovernanceTokenSushiSwapDistributor", "setDistributionEndBlock"),
     Call("rariGovernanceTokenSushiSwapDistributor", "setDisabled"),
     Call("rariGovernanceTokenSushiSwapDistributor", "upgrade"),
     Call("rariGovernanceTokenSushiSwapDistributor", "setDisabled") >>

(* FIP-87: PCV Sentinel                                                    *)
fip_87_deploy == {"pcvSentinel"}

fip_87 == << Grant("GUARDIAN_ROLE", "pcvSentinel") >>

(* FIP-92: Vote-escrow BAL                                                 *)
fip_92_deploy ==
  {"veBalDelegatorPCVDeposit", "gaugeLensBpt30Fei70WethGauge",
   "balancerLensBpt30Fei70WethOldest", "balancerLensVeBalBal", "balancerLensVeBalWeth"}

fip_92 ==
  << Move("balancerDepositFeiWeth", "balancerDepositBalWeth"),
     WhenNotPaused("balancerDepositBalWeth", "deposit"),
     Move("balancerDepositBalWeth", "veBalDelegatorPCVDeposit"),
     ByRole({"METAGOVERNANCE_TOKEN_STAKING"}, "veBalDelegatorPCVDeposit", "lock"),
     ByRole({"METAGOVERNANCE_GAUGE_ADMIN"}, "veBalDelegatorPCVDeposit", "setTokenToGauge"),
     ByRole({"METAGOVERNANCE_VOTE_ADMIN"}, "veBalDelegatorPCVDeposit", "voteForGaugeWeight"),
     Move("balancerDepositFeiWeth", "veBalDelegatorPCVDeposit"),
     ByRole({"METAGOVERNANCE_GAUGE_ADMIN"}, "veBalDelegatorPCVDeposit", "stakeAllInGauge"),
     AddDeposits({"balancerLensBpt30Fei70WethOldest", "balancerLensVeBalBal",
                  "balancerLensVeBalWeth"}),
     SetSafe("pcvGuardianV1", {"balancerDepositBalWeth", "balancerDepositFeiWeth",
                               "veBalDelegatorPCVDeposit"}) >>

(* FIP-94: Remove GOVERN_ROLE role from Rari timelock                      *)
fip_94 == << Revoke("GOVERN_ROLE", "rariTimelock") >>

fip_94_validate(c) == NoneHolds(c, "GOVERN_ROLE", {"rariTimelock"})

(* FIP-97: Seed Turbo fuse pool with 10M Fei                               *)
fip_97_deploy == {"turboFusePCVDeposit"}

fip_97 ==
  << Call("fei", "transfer"),
     WhenNotPaused("turboFusePCVDeposit", "deposit"),
     AddDeposits({"turboFusePCVDeposit"}) >>

(* FIP-98: Purchase 10m VOLT                                               *)
fip_98 ==
  << Mint("feiDAOTimelock"),
     Call("fei", "approve"),
     Call("voltFeiSwapContract", "swap"),
     ByGovernorOrAdmin("collateralizationOracle", "setOracle"),
     AddDeposits({"voltDepositWrapper"}),
     SetSafe("pcvGuardianV1", {"turboFusePCVDeposit"}) >>

fip_98_validate(c) ==
  /\ Counted(c, {"voltDepositWrapper"})
  /\ "turboFusePCVDeposit" \in c.safe["pcvGuardianV1"]

(* FIP-99: Sell RAI                                                        *)
fip_99_deploy == {"raiUsdChainlinkOracleWrapper", "raiPriceBoundPSM", "raiPCVDripController"}

fip_99 ==
  << Move("rariPool9RaiPCVDeposit", "aaveRaiPCVDeposit"),
     WhenNotPaused("aaveRaiPCVDeposit", "deposit"),
     GrantPCVController("raiPCVDripController"),
     PauseMint("raiPriceBoundPSM"),
     SetSafe("pcvGuardianV1", {"rariPool9RaiPCVDeposit", "aaveRaiPCVDeposit", "raiPriceBoundPSM"}),
     AddDeposits({"raiPriceBoundPSM"}) >>

fip_99_validate(c) ==
  /\ AllPaused(c, "mint", {"raiPriceBoundPSM"})
  /\ NothingPaused(c, "redeem", {"raiPriceBoundPSM"})
  /\ {"rariPool9RaiPCVDeposit", "aaveRaiPCVDeposit"} \subseteq c.safe["pcvGuardianV1"]

(* FIP-82b: Authorise the TribalCouncil with necessary roles               *)
fip_82b_deploy == {"pcvGuardian"}

fip_82b_roleAdmins ==
  << CreateRole("RATE_LIMITED_MINTER_ADMIN", "ROLE_ADMIN"),
     CreateRole("PARAMETER_ADMIN", "ROLE_ADMIN"),
     CreateRole("ORACLE_ADMIN_ROLE", "ROLE_ADMIN"),
     CreateRole("BALANCER_MANAGER_ADMIN_ROLE", "ROLE_ADMIN"),
     CreateRole("TRIBAL_CHIEF_ADMIN_ROLE", "ROLE_ADMIN"),
     CreateRole("PCV_GUARDIAN_ADMIN_ROLE", "ROLE_ADMIN"),
     CreateRole("METAGOVERNANCE_VOTE_ADMIN", "ROLE_ADMIN"),
     CreateRole("METAGOVERNANCE_TOKEN_STAKING", "ROLE_ADMIN"),
     CreateRole("METAGOVERNANCE_GAUGE_ADMIN", "ROLE_ADMIN"),
     CreateRole("SWAP_ADMIN_ROLE", "ROLE_ADMIN") >>

fip_82b_councilRoles ==
  << CreateRole("VOTIUM_ADMIN_ROLE", "ROLE_ADMIN"),
     CreateRole("FUSE_ADMIN", "ROLE_ADMIN"),
     CreateRole("FEI_MINT_ADMIN", "ROLE_ADMIN"),
     CreateRole("PCV_MINOR_PARAM_ROLE", "ROLE_ADMIN"),
     CreateRole("PSM_ADMIN_ROLE", "ROLE_ADMIN"),
     CreateRole("PCV_SAFE_MOVER_ROLE", "ROLE_ADMIN") >>

fip_82b_contractAdmins ==
  << SetContractAdmin("fuseGuardian", "FUSE_ADMIN"),
     SetContractAdmin("optimisticMinter", "FEI_MINT_ADMIN"),
     SetContractAdmin("pcvEquityMinter", "FEI_MINT_ADMIN"),
     SetContractAdmin("ethTokemakPCVDeposit", "TOKEMAK_DEPOSIT_ADMIN_ROLE"),
     SetContractAdmin("uniswapPCVDeposit", "PCV_MINOR_PARAM_ROLE"),
     SetContractAdmin("lusdPSMFeiSkimmer", "PCV_MINOR_PARAM_ROLE"),
     SetContractAdmin("ethPSMFeiSkimmer", "PCV_MINOR_PARAM_ROLE"),
     SetContractAdmin("aaveEthPCVDripController", "PCV_MINOR_PARAM_ROLE"),
     SetContractAdmin("daiPCVDripController", "PCV_MINOR_PARAM_ROLE"),
     SetContractAdmin("lusdPCVDripController", "PCV_MINOR_PARAM_ROLE") >>

fip_82b_grants ==
  << Grant("FUSE_ADMIN", "tribalCouncilTimelock"),
     Grant("METAGOVERNANCE_VOTE_ADMIN", "tribalCouncilTimelock"),
     Grant("TOKEMAK_DEPOSIT_ADMIN_ROLE", "tribalCouncilTimelock"),
     Grant("TOKEMAK_DEPOSIT_ADMIN_ROLE", "feiDAOTimelock"),
     Grant("FEI_MINT_ADMIN", "tribalCouncilTimelock"),
     Grant("PCV_MINOR_PARAM_ROLE", "tribalCouncilTimelock"),
     Grant("ORACLE_ADMIN_ROLE", "tribalCouncilTimelock"),
     Grant("PSM_ADMIN_ROLE", "tribalCouncilTimelock"),
     Grant("PCV_MINOR_PARAM_ROLE", "feiDAOTimelock"),
     Grant("PCV_MINOR_PARAM_ROLE", "optimisticTimelock"),
     Grant("FUSE_ADMIN", "optimisticTimelock"),
     Grant("FUSE_ADMIN", "tribalChiefSyncV2"),
     Grant("FEI_MINT_ADMIN", "feiDAOTimelock"),
     Grant("TOKEMAK_DEPOSIT_ADMIN_ROLE", "optimisticTimelock") >>

fip_82b_guardian ==
  << Grant("PCV_SAFE_MOVER_ROLE", "tribalCouncilTimelock"),
     Grant("PCV_GUARDIAN_ADMIN_ROLE", "tribalCouncilTimelock"),
     Grant("PCV_CONTROLLER_ROLE", "pcvGuardian"),
     Grant("GUARDIAN_ROLE", "pcvGuardian"),
     Revoke("PCV_CONTROLLER_ROLE", "pcvGuardianV1"),
     Revoke("GUARDIAN_ROLE", "pcvGuardianV1") >>

fip_82b ==
  fip_82b_roleAdmins \o fip_82b_councilRoles \o fip_82b_contractAdmins \o fip_82b_grants \o
  fip_82b_guardian

validateTransferredRoleAdmins(c) ==
  \A r \in {"RATE_LIMITED_MINTER_ADMIN", "PARAMETER_ADMIN", "ORACLE_ADMIN_ROLE",
            "TRIBAL_CHIEF_ADMIN_ROLE", "PCV_GUARDIAN_ADMIN_ROLE", "METAGOVERNANCE_VOTE_ADMIN",
            "METAGOVERNANCE_TOKEN_STAKING", "METAGOVERNANCE_GAUGE_ADMIN", "SWAP_ADMIN_ROLE",
            "VOTIUM_ADMIN_ROLE", "BALANCER_MANAGER_ADMIN_ROLE"} :
    c.roleAdmin[r] = "ROLE_ADMIN"

validateNewCouncilRoles(c) ==
  \A r \in {"FUSE_ADMIN", "FEI_MINT_ADMIN", "PCV_MINOR_PARAM_ROLE", "PSM_ADMIN_ROLE",
            "PCV_SAFE_MOVER_ROLE", "PCV_GUARDIAN_ADMIN_ROLE"} :
    c.roleAdmin[r] = "ROLE_ADMIN"

validateContractAdmins(c) ==
  /\ AdministeredBy(c, "FUSE_ADMIN", {"fuseGuardian"})
  /\ AdministeredBy(c, "FEI_MINT_ADMIN", {"optimisticMinter", "pcvEquityMinter"})
  /\ AdministeredBy(c, "METAGOVERNANCE_VOTE_ADMIN", {"indexDelegator"})
  /\ AdministeredBy(c, "TOKEMAK_DEPOSIT_ADMIN_ROLE", {"ethTokemakPCVDeposit"})
  /\ AdministeredBy(c, "PCV_MINOR_PARAM_ROLE",
       {"uniswapPCVDeposit", "lusdPSMFeiSkimmer", "ethPSMFeiSkimmer",
        "aaveEthPCVDripController", "daiPCVDripController", "lusdPCVDripController"})

validateCallingContractsHaveNewAdmin(c) ==
  /\ HoldersOf(c, "FUSE_ADMIN", {"optimisticTimelock", "tribalChiefSyncV2"})
  /\ HoldersOf(c, "FEI_MINT_ADMIN", {"feiDAOTimelock"})
  /\ HoldersOf(c, "PCV_MINOR_PARAM_ROLE", {"feiDAOTimelock", "optimisticTimelock"})
  /\ HoldersOf(c, "TOKEMAK_DEPOSIT_ADMIN_ROLE", {"optimisticTimelock", "feiDAOTimelock"})

validateTribalCouncilRoles(c) ==
  \A r \in {"FUSE_ADMIN", "FEI_MINT_ADMIN", "PCV_MINOR_PARAM_ROLE", "PCV_GUARDIAN_ADMIN_ROLE",
            "ORACLE_ADMIN_ROLE", "PSM_ADMIN_ROLE", "PCV_SAFE_MOVER_ROLE",
            "TOKEMAK_DEPOSIT_ADMIN_ROLE"} :
    HoldersOf(c, r, {"tribalCouncilTimelock"})

fip_82b_validate(c) ==
  /\ c.safe["pcvGuardian"] =
       {"feiDAOTimelock", "compoundEthPCVDeposit", "ethPSM", "aaveEthPCVDeposit",
        "daiFixedPricePSM", "lusdPSM", "d3poolCurvePCVDeposit", "d3poolConvexPCVDeposit",
        "agEurUniswapPCVDeposit", "balancerDepositBalWeth", "balancerDepositFeiWeth",
        "veBalDelegatorPCVDeposit", "turboFusePCVDeposit", "rariPool9RaiPCVDeposit",
        "aaveRaiPCVDeposit", "raiPriceBoundPSM"}
  /\ HoldersOf(c, "GUARDIAN_ROLE", {"pcvGuardian"})
  /\ HoldersOf(c, "PCV_CONTROLLER_ROLE", {"pcvGuardian"})
  /\ NoneHolds(c, "GUARDIAN_ROLE", {"pcvGuardianV1"})
  /\ NoneHolds(c, "PCV_CONTROLLER_ROLE", {"pcvGuardianV1"})
  /\ validateTransferredRoleAdmins(c)
  /\ validateNewCouncilRoles(c)
  /\ validateContractAdmins(c)
  /\ validateTribalCouncilRoles(c)
  /\ validateCallingContractsHaveNewAdmin(c)

(* FIP-104: Reinforce PCV by consolidating assets and perform technical
   maintenance *)
fip_104_deploy ==
  {"daiFixedPricePSMFeiSkimmer", "dpiToDaiLBPSwapper", "dpiToDaiLensDai", "dpiToDaiLensDpi"}

fip_104 ==
  << SetSafe("pcvGuardian", {"uniswapPCVDeposit", "dpiToDaiLBPSwapper"}),
     Call("dpi", "transfer"),
     Withdraw("compoundDaiPCVDeposit", "dpiToDaiLBPSwapper"),
     ByGovernor("dpiToDaiLBPSwapper", "setDoInvert"),
     ForceSwap("dpiToDaiLBPSwapper"),
     AddDeposits({"dpiToDaiLensDai"}),
     AddDeposits({"dpiToDaiLensDpi"}),
     RemoveDeposits({"rariPool31FeiPCVDepositWrapper", "rariPool25FeiPCVDepositWrapper",
                     "rariPool9RaiPCVDepositWrapper", "aaveRaiPCVDepositWrapper",
                     "rariPool19DpiPCVDepositWrapper", "liquityFusePoolLusdPCVDeposit",
                     "rariPool72FeiPCVDepositWrapper", "raiDepositWrapper", "dpiDepositWrapper"}),
     Grant("SWAP_ADMIN_ROLE", "tribalCouncilTimelock"),
     ByGovernor("nopeDAO", "setVotingPeriod"),
     Call("cream", "transfer"),
     Call("weth", "transfer"),
     WhenNotPaused("aaveEthPCVDeposit", "deposit"),
     Withdraw("compoundEthPCVDeposit", "tribalCouncilSafe") >>

fip_104_validate(c) ==
  /\ {"uniswapPCVDeposit", "dpiToDaiLBPSwapper"} \subseteq c.safe["pcvGuardian"]
  /\ HoldersOf(c, "SWAP_ADMIN_ROLE", {"tribalCouncilTimelock"})
  /\ c.roleAdmin["SWAP_ADMIN_ROLE"] = "ROLE_ADMIN"

(* FIP_104b: Withdraw LBP liquidity                                        *)
fip_104b ==
  << ByController("dpiToDaiLBPSwapper", "exitPool"),
     Move("compoundDaiPCVDeposit", "tribalCouncilSafe"),
     WhenNotPaused("compoundDaiPCVDeposit", "deposit") >>

(* Update the TRIBE buyback Balancer LBP                                   *)
buyback_newpool_deploy == {"feiBuybackLensNoFee", "noFeeFeiTribeLBPSwapper"}

buyback_newpool ==
  << ByGovernor("pcvEquityMinter", "setTarget"),
     ByController("feiTribeLBPSwapper", "exitPool"),
     Mint("noFeeFeiTribeLBPSwapper"),
     Unpause("pcvEquityMinter"),
     ForceSwap("noFeeFeiTribeLBPSwapper"),
     SwapDeposit("feiBuybackLens", "feiBuybackLensNoFee") >>

buyback_newpool_validate(c) ==
  /\ NothingPaused(c, "all", {"pcvEquityMinter"})
  /\ NotCounted(c, {"feiBuybackLens"})
  /\ Counted(c, {"feiBuybackLensNoFee"})

(* Balancer Gauge Staker                                                   *)
balancer_gauge_fix_deploy ==
  {"balancerGaugeStakerImplementation", "balancerGaugeStaker", "gaugeLensBpt30Fei70WethGauge",
   "balancerLensBpt30Fei70WethOld"}

balancer_gauge_fix ==
  << SetSafe("pcvGuardian", {"balancerGaugeStaker"}),
     Grant("METAGOVERNANCE_GAUGE_ADMIN", "tribalCouncilTimelock"),
     ByRole({"METAGOVERNANCE_GAUGE_ADMIN"}, "balancerGaugeStaker", "setTokenToGauge"),
     SafeMove("pcvGuardian", "balancerDepositFeiWeth", "balancerGaugeStaker"),
     ByRole({"METAGOVERNANCE_GAUGE_ADMIN"}, "balancerGaugeStaker", "stakeInGauge"),
     SwapDeposit("balancerLensBpt30Fei70WethOldest", "balancerLensBpt30Fei70WethOld"),
     AddDeposits({"balancerGaugeStaker"}) >>

balancer_gauge_fix_validate(c) ==
  /\ Counted(c, {"balancerLensBpt30Fei70WethOld"})
  /\ NotCounted(c, {"balancerLensBpt30Fei70WethOldest"})

(* OA CR Fixes                                                             *)
oa_cr_fix_deploy == {"balancerLensBpt30Fei70Weth"}

oa_cr_fix ==
  << SwapDeposit("balancerLensBpt30Fei70WethOld", "balancerLensBpt30Fei70Weth"),
     RemoveDeposits({"rariPool8FeiPCVDepositWrapper", "rariPool8DaiPCVDeposit",
                     "rariPool8LusdPCVDeposit", "rariPool18FeiPCVDepositWrapper",
                     "rariPool27FeiPCVDepositWrapper", "rariPool90FeiPCVDepositWrapper",
                     "rariPool146EthPCVDeposit", "convexPoolPCVDepositWrapper"}) >>

oa_cr_fix_validate(c) ==
  /\ NotCounted(c, {"rariPool8FeiPCVDepositWrapper", "rariPool8DaiPCVDeposit",
                    "rariPool8LusdPCVDeposit", "rariPool18FeiPCVDepositWrapper",
                    "rariPool27FeiPCVDepositWrapper", "rariPool90FeiPCVDepositWrapper",
                    "rariPool146EthPCVDeposit", "convexPoolPCVDepositWrapper",
                    "balancerLensBpt30Fei70WethOld"})
  /\ Counted(c, {"balancerLensBpt30Fei70Weth"})

(* FIP-111: Reinforce PCV via ETH LBP and tighter spread                   *)
eth_lbp_deploy == {"ethToDaiLBPSwapper", "ethToDaiLensDai", "ethToDaiLensEth"}

eth_lbp ==
  << SetSafe("pcvGuardian", {"ethToDaiLBPSwapper"}),
     SafeMove("pcvGuardian", "aaveEthPCVDeposit", "ethToDaiLBPSwapper"),
     SafeMove("pcvGuardian", "compoundDaiPCVDeposit", "ethToDaiLBPSwapper"),
     Swap("ethToDaiLBPSwapper"),
     AddDeposits({"ethToDaiLensDai"}),
     AddDeposits({"ethToDaiLensEth"}),
     ByGovernorOrAdmin("ethPSM", "setRedeemFee") >>

eth_lbp_validate(c) ==
  /\ "ethToDaiLBPSwapper" \in c.safe["pcvGuardian"]
  /\ HoldersOf(c, "PSM_ADMIN_ROLE", {"tribalCouncilTimelock"})
  /\ c.roleAdmin["PSM_ADMIN_ROLE"] = "ROLE_ADMIN"

-----------------------------------------------------------------------------
(* Register TC Proposal and grant pod metadata roles                       *)
register_proposal ==
  << Grant("POD_METADATA_REGISTER_ROLE", "tribeDev1Deployer"),
     Grant("POD_METADATA_REGISTER_ROLE", "tribeDev4Deployer"),
     Grant("POD_METADATA_REGISTER_ROLE", "tribeDev2Deployer"),
     Grant("POD_METADATA_REGISTER_ROLE", "tribeDev3Deployer") >>

register_proposal_validate(c) ==
  /\ HoldersOf(c, "POD_METADATA_REGISTER_ROLE", {"tribeDev1Deployer", "tribeDev2Deployer",
                                   "tribeDev3Deployer", "tribeDev4Deployer"})

(* Pod Executor V2                                                         *)
pod_exec_v2_deploy == {"podExecutorV2"}

pod_exec_v2 ==
  << GrantAt("tribalCouncilTimelock", "tribalCouncilTimelock.EXECUTOR_ROLE", "podExecutorV2"),
     RevokeAt("tribalCouncilTimelock", "tribalCouncilTimelock.EXECUTOR_ROLE", "podExecutor") >>

pod_exec_v2_validate(c) ==
  /\ HoldersOf(c, "tribalCouncilTimelock.EXECUTOR_ROLE", {"podExecutorV2"})
  /\ NoneHolds(c, "tribalCouncilTimelock.EXECUTOR_ROLE", {"podExecutor"})

(* Withdraw from the D3Pool                                                *)
withdraw_d3_pool ==
  << SafeMove("pcvGuardian", "d3poolConvexPCVDeposit", "d3poolCurvePCVDeposit"),
     SafeMove("pcvGuardian", "d3poolCurvePCVDeposit", "daiFixedPricePSM") >>

(* FIP-113: End Departed Rari Founders Vesting of TRIBE                    *)
clawback_deploy == {"newRariInfraFeiTimelock", "newRariInfraTribeTimelock"}

clawback ==
  << Mint("newRariInfraFeiTimelock"),
     ByGovernor("core", "allocateTribe"),
     Call("clawbackVestingContractA", "clawback"),
     Call("clawbackVestingContractB", "clawback"),
     Call("clawbackVestingContractC", "clawback"),
     Call("tribe", "approve") >>

(* TIP-120: Return Unvested Tokens                                         *)
phase_1_deploy == {"uniswapLiquidityRemover", "investorUniswapFeiTribeTimelock"}

phase_1 ==
  << Call("feiLabsVestingTimelock", "acceptBeneficiary"),
     Call("uniswapFeiTribeLiquidityTimelock", "acceptBeneficiary"),
     ByGovernor("uniswapFeiTribeLiquidityTimelock", "unlockLiquidity"),
     Call("feiTribePair", "transfer"),
     Call("feiTribePair", "transfer"),
     ByGovernor("uniswapLiquidityRemover", "redeemLiquidity"),
     Call("tribe", "approve"),
     Call("tribe", "transfer") >>

(* TIP-109: Discontinue Tribe Incentives                                   *)
end_tribe_incentives_pools ==
  << Grant("TRIBAL_CHIEF_ADMIN_ROLE", "tribalCouncilTimelock") >>
  \o Times(18, ByGovernorOrAdmin("tribalChief", "set"))

end_tribe_incentives_distributors ==
  << ByGovernorOrAdmin("tribalChief", "updateBlockReward"),
     Call("autoRewardsDistributor", "setAutoRewardsDistribution"),
     Call("d3AutoRewardsDistributor", "setAutoRewardsDistribution"),
     Call("fei3CrvAutoRewardsDistributor", "setAutoRewardsDistribution"),
     Call("feiDaiAutoRewardsDistributor", "setAutoRewardsDistribution"),
     Call("feiUsdcAutoRewardsDistributor", "setAutoRewardsDistribution"),
     Revoke("FUSE_ADMIN", "tribalChiefSyncV2"),
     Revoke("TRIBAL_CHIEF_ADMIN_ROLE", "tribalChiefSyncV2"),
     BecomeAdmin("rewardsDistributorAdmin", "rewardsDistributorAdmin.ADMIN"),
     RevokeAt("rewardsDistributorAdmin", "AUTO_REWARDS_DISTRIBUTOR_ROLE",
              "feiDaiAutoRewardsDistributor"),
     RevokeAt("rewardsDistributorAdmin", "AUTO_REWARDS_DISTRIBUTOR_ROLE",
              "feiUsdcAutoRewardsDistributor"),
     RevokeAt("rewardsDistributorAdmin", "AUTO_REWARDS_DISTRIBUTOR_ROLE",
              "autoRewardsDistributor"),
     RevokeAt("rewardsDistributorAdmin", "AUTO_REWARDS_DISTRIBUTOR_ROLE",
              "d3AutoRewardsDistributor"),
     RevokeAt("rewardsDistributorAdmin", "AUTO_REWARDS_DISTRIBUTOR_ROLE",
              "fei3CrvAutoRewardsDistributor"),
     Revoke("VOTIUM_ADMIN_ROLE", "opsOptimisticTimelock"),
     RemoveDeposits({"creamDepositWrapper"}) >>

end_tribe_incentives == end_tribe_incentives_pools \o end_tribe_incentives_distributors

end_tribe_incentives_validate(c) ==
  /\ HoldersOf(c, "TRIBAL_CHIEF_ADMIN_ROLE", {"tribalCouncilTimelock"})
  /\ NoneHolds(c, "TRIBAL_CHIEF_ADMIN_ROLE", {"tribalChiefSyncV2"})
  /\ NoneHolds(c, "FUSE_ADMIN", {"tribalChiefSyncV2"})
  /\ NoneHolds(c, "VOTIUM_ADMIN_ROLE", {"opsOptimisticTimelock"})
  /\ NoneHolds(c, "AUTO_REWARDS_DISTRIBUTOR_ROLE", {"feiDaiAutoRewardsDistributor",
                                   "feiUsdcAutoRewardsDistributor", "autoRewardsDistributor",
                                   "d3AutoRewardsDistributor", "fei3CrvAutoRewardsDistributor"})

(* TIP-111: Increase FEI Stable backing to 90-100%                         *)
tip_111_deploy ==
  {"compositeStEthEthOracle", "chainlinkStEthUsdOracleWrapper", "ethLidoPCVDeposit"}

tip_111 ==
  << Move("ethLidoPCVDepositOld", "ethLidoPCVDeposit"),
     ByRole({"METAGOVERNANCE_GAUGE_ADMIN"}, "balancerGaugeStaker", "unstakeFromGauge"),
     Move("balancerGaugeStaker", "balancerDepositFeiWeth"),
     ByController("balancerDepositFeiWeth", "exitPool"),
     Move("balancerDepositFeiWeth", "aaveEthPCVDeposit"),
     WhenNotPaused("aaveEthPCVDeposit", "deposit"),
     Move("aaveEthPCVDeposit", "ethPSM"),
     SwapDeposit("ethLidoPCVDepositOldWrapper", "ethLidoPCVDeposit"),
     ByController("dpiToDaiLBPSwapper", "exitPool"),
     Move("compoundDaiPCVDeposit", "tribalCouncilSafe"),
     WhenNotPaused("compoundDaiPCVDeposit", "deposit") >>

(* Repay Fuse Bad Debt                                                     *)
tip_112_deploy == {"fuseFixer"}

tip_112 == << SetSafe("pcvGuardian", {"fuseFixer"}) >>

tip_112_validate(c) == "fuseFixer" \in c.safe["pcvGuardian"]

(* TIP-115: Collateralization and Operations Updates                       *)
tip_115_deploy == {"rariTimelockFeiOldLens", "tribalCouncilTimelockFeiLens"}

tip_115 ==
  << AddDeposits({"rariTimelockFeiOldLens"}),
     AddDeposits({"tribalCouncilTimelockFeiLens"}),
     RemoveDeposits({"namedStaticPCVDepositWrapper"}),
     ByAnyGuardian("namedStaticPCVDepositWrapper", "removeDeposit"),
     ByAnyGuardian("namedStaticPCVDepositWrapper", "removeDeposit"),
     Call("rariInfraFeiTimelock", "acceptBeneficiary"),
     Call("rariInfraTribeTimelock", "acceptBeneficiary"),
     SafeMove("pcvGuardian", "daiFixedPricePSM", "ethToDaiLBPSwapper"),
     SafeMove("pcvGuardian", "ethPSM", "ethToDaiLBPSwapper"),
     Swap("ethToDaiLBPSwapper"),
     Grant("SWAP_ADMIN_ROLE", "tribalCouncilSafe") >>

(* TIP-117: Oracles, Roles, and OA Cleanup                                 *)
tip_117_deploy == {"voltOracle"}

tip_117_roles ==
  << Revoke("MINTER_ROLE", "collateralizationOracleKeeper"),
     Revoke("MINTER_ROLE", "dpiUniswapPCVDeposit"),
     Revoke("MINTER_ROLE", "uniswapPCVDeposit"),
     Revoke("MINTER_ROLE", "balancerDepositFeiWeth"),
     Revoke("MINTER_ROLE", "optimisticMinter"),
     Revoke("PCV_CONTROLLER_ROLE", "raiPCVDripController"),
     Revoke("PCV_CONTROLLER_ROLE", "lusdPCVDripController"),
     Pause("bammDeposit"),
     Move("aaveEthPCVDeposit", "ethPSM"),
     Revoke("PCV_CONTROLLER_ROLE", "aaveEthPCVDripController"),
     Pause("aaveEthPCVDeposit"),
     Revoke("ORACLE_ADMIN_ROLE", "collateralizationOracleGuardian"),
     Revoke("ORACLE_ADMIN_ROLE", "optimisticTimelock"),
     Revoke("SWAP_ADMIN_ROLE", "optimisticTimelock"),
     Revoke("FUSE_ADMIN", "optimisticTimelock"),
     Revoke("PCV_GUARDIAN_ADMIN_ROLE", "optimisticTimelock"),
     Revoke("METAGOVERNANCE_GAUGE_ADMIN", "optimisticTimelock"),
     Revoke("PCV_MINOR_PARAM_ROLE", "optimisticTimelock"),
     Revoke("TOKEMAK_DEPOSIT_ADMIN_ROLE", "optimisticTimelock") >>

tip_117_reserves ==
  << ByGovernor("tribeReserveStabilizer", "setCollateralizationOracle"),
     ByGovernor("pcvEquityMinter", "setCollateralizationOracle"),
     ByGovernorOrAdmin("collateralizationOracle", "setOracle"),
     Move("uniswapPCVDeposit", "ethPSM"),
     Move("ethTokemakPCVDeposit", "tribalCouncilSafe"),
     ByController("d3poolCurvePCVDeposit", "exitPool"),
     Move("d3poolCurvePCVDeposit", "daiFixedPricePSM"),
     Move("d3poolCurvePCVDeposit", "tribalCouncilSafe"),
     Move("d3poolCurvePCVDeposit", "tribalCouncilSafe"),
     Move("compoundEthPCVDeposit", "tribalCouncilSafe"),
     Move("compoundDaiPCVDeposit", "tribalCouncilSafe"),
     Move("aaveEthPCVDeposit", "tribalCouncilSafe"),
     Move("d3poolConvexPCVDeposit", "tribalCouncilSafe"),
     Move("d3poolConvexPCVDeposit", "tribalCouncilSafe"),
     Move("bammDeposit", "tribalCouncilTimelock"),
     Move("raiPriceBoundPSM", "tribalCouncilSafe"),
     Move("raiPriceBoundPSM", "daiFixedPricePSM") >>

(* The script's pcvGuardian still names the guardian that FIP-82b retired:  *)
(* it speaks of the other as pcvGuardianNew up to TIP-115. The list in use  *)
(* loses these addresses by TIP-118.                                        *)
tip_117_books ==
  << RemoveDeposits({"dpiToDaiLensDai", "dpiToDaiLensDpi", "bammDeposit",
                     "rariPool7LusdPCVDeposit", "rariPool6FeiPCVDepositWrapper",
                     "rariPool19FeiPCVDepositWrapper", "rariPool24FeiPCVDepositWrapper",
                     "agEurDepositWrapper", "wethDepositWrapper", "d3poolConvexPCVDeposit",
                     "d3poolCurvePCVDeposit", "uniswapPCVDeposit", "compoundEthPCVDepositWrapper",
                     "raiPriceBoundPSM", "balancerDepositFeiWeth", "balancerLensBpt30Fei70Weth",
                     "ethTokemakPCVDeposit"}),
     UnsetSafe("pcvGuardianV1", {"raiPriceBoundPSM", "aaveRaiPCVDeposit",
                                 "rariPool9RaiPCVDeposit", "balancerDepositFeiWeth",
                                 "d3poolConvexPCVDeposit", "d3poolCurvePCVDeposit",
                                 "compoundEthPCVDeposit"}),
     Revoke("METAGOVERNANCE_VOTE_ADMIN", "opsOptimisticTimelock"),
     Revoke("METAGOVERNANCE_TOKEN_STAKING", "opsOptimisticTimelock"),
     Revoke("ORACLE_ADMIN_ROLE", "opsOptimisticTimelock") >>

tip_117 == tip_117_roles \o tip_117_reserves \o tip_117_books

tip_117_validate(c) ==
  /\ NoneHolds(c, "METAGOVERNANCE_VOTE_ADMIN", {"opsOptimisticTimelock"})
  /\ NoneHolds(c, "METAGOVERNANCE_TOKEN_STAKING", {"opsOptimisticTimelock"})
  /\ NoneHolds(c, "ORACLE_ADMIN_ROLE", {"opsOptimisticTimelock"})

(* TIP_118: PSM deprecation, Incentives withdrawal, agEUR redemption       *)
tip_118_deploy ==
  {"vlAuraDelegatorPCVDepositImplementation", "angleEuroRedeemer", "wethHoldingPCVDeposit",
   "lusdHoldingPCVDeposit", "voltHoldingPCVDeposit", "daiHoldingPCVDeposit",
   "gOHMHoldingPCVDeposit"}

tip_118_psms ==
  << Move("ethPSM", "wethHoldingPCVDeposit"),
     Move("ethPSM", "daiFixedPricePSM"),
     Move("lusdPSM", "lusdHoldingPCVDeposit"),
     Move("lusdPSM", "daiFixedPricePSM"),
     Revoke("MINTER_ROLE", "ethPSM"),
     Revoke("MINTER_ROLE", "lusdPSM"),
     PauseRedeem("raiPriceBoundPSM"),
     Pause("aaveEthPCVDripController"),
     Pause("raiPCVDripController"),
     Pause("lusdPCVDripController"),
     Pause("lusdPSMFeiSkimmer"),
     Revoke("PCV_CONTROLLER_ROLE", "lusdPSMFeiSkimmer"),
     Pause("ethPSMFeiSkimmer"),
     Revoke("PCV_CONTROLLER_ROLE", "ethPSMFeiSkimmer") >>

tip_118_holdings ==
  << Grant("PCV_CONTROLLER_ROLE", "daiFixedPricePSMFeiSkimmer"),
     WhenNotPaused("daiFixedPricePSMFeiSkimmer", "skim"),
     AddDeposits({"wethHoldingPCVDeposit", "lusdHoldingPCVDeposit", "daiHoldingPCVDeposit",
                  "voltHoldingPCVDeposit"}),
     SetSafe("pcvGuardian", {"wethHoldingPCVDeposit", "lusdHoldingPCVDeposit",
                             "daiHoldingPCVDeposit", "voltHoldingPCVDeposit",
                             "gOHMHoldingPCVDeposit"}),
     Call("volt", "transfer"),
     Call("gOHM", "transfer"),
     Withdraw("erc20Dripper", "core"),
     Withdraw("votiumBriber3Crvpool", "core"),
     Withdraw("votiumBriberD3pool", "core"),
     ByGovernor("rewardsDistributorAdmin", "_grantComp"),
     ByGovernor("tribalChief", "governorWithdrawTribe"),
     Revoke("TRIBAL_CHIEF_ADMIN_ROLE", "optimisticTimelock"),
     Revoke("TRIBAL_CHIEF_ADMIN_ROLE", "tribalCouncilTimelock") >>

tip_118_books ==
  << Call("angleDelegatorPCVDeposit", "claimGaugeRewards"),
     Move("angleDelegatorPCVDeposit", "tribalCouncilSafe"),
     ByRole({"METAGOVERNANCE_GAUGE_ADMIN"}, "angleDelegatorPCVDeposit", "unstakeFromGauge"),
     Move("angleDelegatorPCVDeposit", "agEurUniswapPCVDeposit"),
     Move("agEurUniswapPCVDeposit", "agEurUniswapPCVDeposit"),
     Move("agEurUniswapPCVDeposit", "angleEuroRedeemer"),
     ByRole(SafeMovers, "angleEuroRedeemer", "redeemAgEurToDai"),
     UnsetSafe("pcvGuardian", {"ethPSM", "lusdPSM", "raiPriceBoundPSM", "agEurUniswapPCVDeposit",
                               "aaveEthPCVDeposit", "turboFusePCVDeposit", "aaveRaiPCVDeposit",
                               "rariPool9RaiPCVDeposit", "balancerDepositFeiWeth",
                               "d3poolConvexPCVDeposit", "d3poolCurvePCVDeposit",
                               "compoundEthPCVDeposit", "dpiToDaiLBPSwapper",
                               "uniswapPCVDeposit"}),
     RemoveDeposits({"agEurUniswapPCVDeposit", "uniswapLensAgEurUniswapGauge", "lusdPSM",
                     "ethPSM", "aaveEthPCVDepositWrapper", "voltDepositWrapper",
                     "turboFusePCVDeposit", "feiOATimelockWrapper",
                     "rariPool128FeiPCVDepositWrapper", "rariPool22FeiPCVDepositWrapper"}) >>

tip_118_cleanup ==
  << Call("proxyAdmin", "changeProxyAdmin"),
     ByGovernorOrAdmin("daiFixedPricePSM", "setRedeemFee"),
     ByGovernorOrAdmin("daiFixedPricePSM", "setMintFee"),
     Call("proxyAdmin", "upgrade"),
     Call("vlAuraDelegatorPCVDeposit", "initialize"),
     Call("vlAuraDelegatorPCVDeposit", "claimAirdropAndLock"),
     ByRole({"METAGOVERNANCE_VOTE_ADMIN"}, "vlAuraDelegatorPCVDeposit", "setDelegate") >>

tip_118 == tip_118_psms \o tip_118_holdings \o tip_118_books \o tip_118_cleanup

tip_118_validate(c) ==
  /\ NoneHolds(c, "MINTER_ROLE", {"ethPSM", "raiPriceBoundPSM", "lusdPSM"})
  /\ AllPaused(c, "all", {"ethPSM", "lusdPSM", "raiPriceBoundPSM"})
  /\ AllPaused(c, "redeem", {"ethPSM", "lusdPSM", "raiPriceBoundPSM"})
  /\ AllPaused(c, "mint", {"raiPriceBoundPSM"})
  /\ AllPaused(c, "all", {"ethPSMFeiSkimmer", "lusdPSMFeiSkimmer"})
  /\ NoneHolds(c, "PCV_CONTROLLER_ROLE", {"ethPSMFeiSkimmer", "lusdPSMFeiSkimmer"})
  /\ HoldersOf(c, "PCV_CONTROLLER_ROLE", {"daiFixedPricePSMFeiSkimmer"})

(* TIP-119: Collaterisation Oracle updates, Swap USDC, Perform FEI <> VOLT
   OTC *)
tip_119_deploy == {"chainlinkOhmV2EthOracleWrapper", "gOhmUSDOracle", "gOhmEthOracle"}

tip_119 ==
  << ByGovernorOrAdmin("collateralizationOracle", "setOracle"),
     AddDeposits({"gOHMHoldingPCVDeposit"}),
     Call("usdc", "approve"),
     Call("makerUSDCPSM", "sellGem"),
     WhenNotPaused("compoundDaiPCVDeposit", "deposit"),
     SafeMove("pcvGuardian", "rariPool146EthPCVDeposit", "wethHoldingPCVDeposit"),
     Call("wethHoldingPCVDeposit", "wrapETH"),
     SetSafe("pcvGuardian", {"tribalCouncilTimelock"}),
     SafeMove("pcvGuardian", "voltHoldingPCVDeposit", "tribalCouncilTimelock"),
     UnsetSafe("pcvGuardian", {"tribalCouncilTimelock"}),
     Call("volt", "approve"),
     Call("voltOTCEscrow", "swap"),
     Call("fei", "burn"),
     RemoveDeposits({"voltHoldingPCVDeposit"}) >>

tip_119_validate(c) == "tribalCouncilTimelock" \notin c.safe["pcvGuardian"]

(* TIP-122: End Rari team vesting and consolidate Tribal Council assets    *)
tc_consolidate ==
  << Call("fei", "burn"),
     Call("newRariInfraFeiTimelock", "clawback"),
     Call("newRariInfraTribeTimelock", "clawback"),
     Call("fei", "approve"),
     Call("tribe", "approve"),
     Call("idle", "transfer"),
     Call("lqty", "transfer"),
     Call("fox", "transfer") >>

(* TIP-121a: Consolidation                                                 *)
tip_121a_auctions ==
  << ByGovernorOrAdmin("ethToDaiLBPSwapper", "setReceivingAddress"),
     Withdraw("compoundDaiPCVDeposit", "ethToDaiLBPSwapper"),
     Move("wethHoldingPCVDeposit", "ethToDaiLBPSwapper"),
     Move("rariPool146EthPCVDeposit", "ethToDaiLBPSwapper"),
     Swap("ethToDaiLBPSwapper"),
     Withdraw("compoundDaiPCVDeposit", "lusdToDaiSwapper"),
     Move("lusdHoldingPCVDeposit", "lusdToDaiSwapper"),
     ByGovernorOrAdmin("lusdToDaiSwapper", "setSwapFrequency"),
     ForceSwap("lusdToDaiSwapper"),
     ByGovernorOrAdmin("daiFixedPricePSM", "setSurplusTarget"),
     ByGovernor("daiPCVDripController", "setSource"),
     Move("compoundDaiPCVDeposit", "daiHoldingPCVDeposit"),
     ByController("noFeeFeiTribeLBPSwapper", "exitPool"),
     Move("daiFixedPricePSM", "core") >>

tip_121a_fuse ==
  << Withdraw("gOHMHoldingPCVDeposit", "ohmEscrowUnwind"),
     ByRole({"GOVERN_ROLE", "GUARDIAN_ROLE"}, "pcvSentinel", "knight") >>
  \o Times(3, ByRole(SafeMovers, "fuseWithdrawalGuard", "setWithdrawInfo"))
  \o << AddDeposits({"lusdToDaiLensDai", "lusdToDaiLensLusd"}),
        RemoveDeposits({"compoundDaiPCVDepositWrapper", "lusdHoldingPCVDeposit",
                        "feiBuybackLensNoFee", "gOHMHoldingPCVDeposit"}) >>

tip_121a == tip_121a_auctions \o tip_121a_fuse

(* Part 2: RariFuse Hack Repayment                                         *)
tip_121b_deploy == {"rariMerkleRedeemer", "merkleRedeemerDripper"}

tip_121b ==
  << Mint("rariMerkleRedeemer"),
     Mint("merkleRedeemerDripper") >>

(* TIP-121: PCV Consolidation (phase 1.c)                                  *)
tip_121c_deploy == {"simpleFeiDaiPSM"}

tip_121c_redemption ==
  << RevokeMinter("daiFixedPricePSM"),
     RevokePCVController("daiFixedPricePSMFeiSkimmer"),
     RevokePCVController("daiPCVDripController"),
     GrantMinter("simpleFeiDaiPSM"),
     Move("daiFixedPricePSM", "simpleFeiDaiPSM"),
     Move("daiFixedPricePSM", "simpleFeiDaiPSM"),
     Call("simpleFeiDaiPSM", "burnFeiHeld"),
     RevokeMinter("feiDAOTimelock"),
     RevokeMinter("pcvEquityMinter") >>

tip_121c_burning ==
  << CreateRole("BURN_MINTER_ROLE_TEMPORARY_ROLE", "GOVERN_ROLE"),
     Grant("BURN_MINTER_ROLE_TEMPORARY_ROLE", "feiDAOTimelock"),
     CreateRole("BURN_MINTER_ROLE_TEMPORARY_ROLE", "BURN_MINTER_ROLE_TEMPORARY_ROLE"),
     CreateRole("MINTER_ROLE", "BURN_MINTER_ROLE_TEMPORARY_ROLE"),
     Renounce("BURN_MINTER_ROLE_TEMPORARY_ROLE", "feiDAOTimelock") >>

tip_121c_books ==
  << SwapDeposit("daiFixedPricePSM", "simpleFeiDaiPSM"),
     SetSafe("pcvGuardian", {"simpleFeiDaiPSM"}),
     UnsetSafe("pcvGuardian", {"daiFixedPricePSM", "balancerDepositBalWeth",
                               "veBalDelegatorPCVDeposit", "balancerGaugeStaker",
                               "ethToDaiLBPSwapper", "wethHoldingPCVDeposit",
                               "lusdHoldingPCVDeposit", "daiHoldingPCVDeposit",
                               "voltHoldingPCVDeposit", "gOHMHoldingPCVDeposit"}) >>

tip_121c == tip_121c_redemption \o tip_121c_burning \o tip_121c_books
=============================================================================
