----------------------- MODULE ProposalsBeforeCouncil ------------------------
(***************************************************************************)
(* src/proposals: the proposals up to the founding of the Tribal Council:   *)
(* those of 2021 up to the merger with Rari, then those that came after it. *)
(* For each, in the order they were executed: the contracts its script      *)
(* deploys, the commands its timelock executes, and what of the             *)
(* configuration its script validates afterwards.                           *)
(***************************************************************************)
EXTENDS UpgradeCommands

(* FIP-37: TRIBE buybacks                                                  *)
fip_37_deploy ==
  {"collateralizationOracleKeeper", "collateralizationOracleGuardian",
   "chainlinkTribeEthOracleWrapper", "chainlinkTribeUsdCompositeOracle", "feiTribeLBPSwapper",
   "pcvEquityMinter"}

fip_37 ==
  << GrantMinter("pcvEquityMinter"),
     GrantMinter("collateralizationOracleKeeper"),
     ByGovernor("core", "allocateTribe"),
     CreateRole("ORACLE_ADMIN_ROLE", "GOVERN_ROLE"),
     SetContractAdmin("collateralizationOracle", "ORACLE_ADMIN_ROLE"),
     SetContractAdmin("collateralizationOracleWrapper", "ORACLE_ADMIN_ROLE"),
     Grant("ORACLE_ADMIN_ROLE", "collateralizationOracleGuardian"),
     CreateRole("SWAP_ADMIN_ROLE", "GOVERN_ROLE"),
     Grant("SWAP_ADMIN_ROLE", "pcvEquityMinter"),
     Grant("ORACLE_ADMIN_ROLE", "optimisticTimelock"),
     Mint("feiTribeLBPSwapper"),
     Swap("feiTribeLBPSwapper") >>

fip_37_validate(c) ==
  /\ AdministeredBy(c, "ORACLE_ADMIN_ROLE", {"collateralizationOracle",
                                   "collateralizationOracleWrapper"})
  /\ NoneHolds(c, "ORACLE_ADMIN_ROLE", {"guardianMultisig"})
  /\ HoldersOf(c, "ORACLE_ADMIN_ROLE", {"collateralizationOracleGuardian", "optimisticTimelock"})
  /\ HoldersOf(c, "MINTER_ROLE", {"collateralizationOracleKeeper", "pcvEquityMinter"})

(* FIP-38: Tokemak Reactor and Swap                                        *)
fip_38_deploy == {"ethTokemakPCVDeposit", "tokeTokemakPCVDeposit"}

fip_38 ==
  << ByGovernor("core", "allocateTribe"),
     Withdraw("aaveEthPCVDeposit", "aaveEthPCVDeposit"),
     Withdraw("aaveEthPCVDeposit", "ethTokemakPCVDeposit"),
     Withdraw("compoundEthPCVDeposit", "ethTokemakPCVDeposit"),
     WhenNotPaused("ethTokemakPCVDeposit", "deposit"),
     CreateRole("TOKEMAK_DEPOSIT_ADMIN_ROLE", "GOVERN_ROLE"),
     SetContractAdmin("ethTokemakPCVDeposit", "TOKEMAK_DEPOSIT_ADMIN_ROLE"),
     SetContractAdmin("tokeTokemakPCVDeposit", "TOKEMAK_DEPOSIT_ADMIN_ROLE"),
     Grant("TOKEMAK_DEPOSIT_ADMIN_ROLE", "optimisticTimelock") >>

fip_38_validate(c) ==
  /\ AdministeredBy(c, "TOKEMAK_DEPOSIT_ADMIN_ROLE", {"ethTokemakPCVDeposit",
                                   "tokeTokemakPCVDeposit"})
  /\ HoldersOf(c, "TOKEMAK_DEPOSIT_ADMIN_ROLE", {"optimisticTimelock"})

(* FIP-33: Balancer Treasury Swap                                          *)
fip_33_deploy == {"tribeBalOtcEscrow", "feiBalOtcEscrow"}

fip_33 ==
  << ByGovernor("core", "allocateTribe"),
     Mint("feiBalOtcEscrow"),
     Call("tribeBalOtcEscrow", "swap"),
     Call("feiBalOtcEscrow", "swap"),
     AddDeposits({"ethTokemakPCVDeposit"}) >>

(* FIP-41: LUSD Auction                                                    *)
fip_41_deploy == {"liquityFusePoolLusdPCVDeposit", "feiLusdLBPSwapper", "feiLusdLBP"}

fip_41 ==
  << Mint("feiDAOTimelock"),
     Call("fei", "approve"),
     Call("saddleD4Pool", "swap"),
     Call("lusd", "transfer"),
     Mint("feiLusdLBPSwapper"),
     ForceSwap("feiLusdLBPSwapper") >>

(* FIP-45: Angle Protocol Partnership                                      *)
fip_45_deploy == {"agEurAngleUniswapPCVDeposit", "chainlinkEurUsdOracleWrapper"}

fip_45 ==
  << GrantMinter("agEurAngleUniswapPCVDeposit"),
     ByController("agEurAngleUniswapPCVDeposit", "mintAgToken"),
     WhenNotPaused("agEurAngleUniswapPCVDeposit", "deposit"),
     ByGovernorOrAdmin("collateralizationOracle", "setOracle"),
     AddDeposits({"agEurAngleUniswapPCVDeposit"}) >>

fip_45_validate(c) == Counted(c, {"agEurAngleUniswapPCVDeposit"})

(* FIP-48: Update Collateralization Oracle                                 *)
fip_48_deploy ==
  {"chainlinkLUSDOracle", "chainlinkCREAMEthOracle", "chainlinkBALEthOracle",
   "balUsdCompositeOracle", "creamUsdCompositeOracle", "feiLusdLens",
   "aaveFeiPCVDepositWrapper", "creamDepositWrapper", "balDepositWrapper",
   "staticPcvDepositWrapper2", "feiBuybackLens"}

fip_48 ==
  << ByGovernorOrAdmin("collateralizationOracle", "setOracles"),
     AddDeposits({"feiLusdLens", "aaveFeiPCVDepositWrapper", "creamDepositWrapper",
                  "balDepositWrapper", "rariPool7LusdPCVDeposit", "staticPcvDepositWrapper2",
                  "feiBuybackLens", "liquityFusePoolLusdPCVDeposit", "rariPool90FeiPCVDeposit"}),
     RemoveDeposits({"rariPool28FeiPCVDepositWrapper", "rariPool31FeiPCVDepositWrapper",
                     "staticPcvDepositWrapper"}) >>

fip_48_validate(c) ==
  /\ AdministeredBy(c, "ORACLE_ADMIN_ROLE", {"staticPcvDepositWrapper2"})
  /\ HoldersOf(c, "ORACLE_ADMIN_ROLE", {"optimisticTimelock"})
  /\ Counted(c, {"feiLusdLens", "rariPool7LusdPCVDeposit", "liquityFusePoolLusdPCVDeposit",
                 "aaveFeiPCVDepositWrapper", "feiBuybackLens", "rariPool90FeiPCVDeposit",
                 "creamDepositWrapper", "balDepositWrapper", "staticPcvDepositWrapper2"})
  /\ NotCounted(c, {"rariPool28FeiPCVDepositWrapper", "rariPool31FeiPCVDepositWrapper",
                    "staticPcvDepositWrapper"})

(* FIP-33b: Deposit 200,000 BAL in the BAL/WETH pool                       *)
fip_33b_deploy == {"balancerDepositBalWeth"}

fip_33b ==
  << Withdraw("aaveEthPCVDeposit", "balancerDepositBalWeth"),
     Call("bal", "transfer"),
     WhenNotPaused("balancerDepositBalWeth", "deposit"),
     SwapDeposit("balDepositWrapper", "balancerDepositBalWeth") >>

fip_33b_validate(c) == Counted(c, {"balancerDepositBalWeth"})

(* FIP-53: Farm d3Pool on Convex                                           *)
fip_53_deploy == {"d3poolCurvePCVDeposit", "d3poolConvexPCVDeposit"}

fip_53 ==
  << Mint("d3poolCurvePCVDeposit"),
     WhenNotPaused("d3poolCurvePCVDeposit", "deposit"),
     MoveBy("ratioPCVController", "d3poolCurvePCVDeposit", "d3poolConvexPCVDeposit"),
     WhenNotPaused("d3poolConvexPCVDeposit", "deposit"),
     AddDeposits({"d3poolCurvePCVDeposit"}),
     AddDeposits({"d3poolConvexPCVDeposit"}) >>

fip_53_validate(c) == Counted(c, {"d3poolCurvePCVDeposit", "d3poolConvexPCVDeposit"})

(* FIP-50: Yield improvements                                              *)
fip_50_deploy == {"bammDeposit", "ratioPCVControllerV2"}

fip_50 ==
  << GrantPCVController("ratioPCVControllerV2"),
     Grant("SWAP_ADMIN_ROLE", "optimisticTimelock"),
     ByController("feiLusdLBPSwapper", "exitPool"),
     Call("lusd", "transfer"),
     WhenNotPaused("rariPool7LusdPCVDeposit", "deposit"),
     Call("fei", "approve"),
     ByController("ratioPCVControllerV2", "transferFromRatio"),
     Call("lusd", "approve"),
     ByController("ratioPCVControllerV2", "transferFromRatio"),
     Move("aaveEthPCVDeposit", "ethLidoPCVDepositOld"),
     Withdraw("compoundEthPCVDeposit", "ethLidoPCVDepositOld"),
     WhenNotPaused("ethLidoPCVDepositOld", "deposit"),
     RemoveDeposits({"feiLusdLens"}),
     AddDeposits({"bammDeposit"}),
     RevokePCVController("ratioPCVController") >>

(* FIP-52: Increase DAI allocation                                         *)
fip_52 ==
  << ByGovernor("daiBondingCurve", "setScale"),
     ByGovernor("daiBondingCurve", "setMintCap"),
     ByGovernor("daiBondingCurve", "setBuffer") >>

(* FIP-54: Permanently Revoke Burner, FIP-63: Rari Infra Funding,
   Maintenance *)
fip_54_deploy ==
  {"restrictedPermissions", "opsOptimisticTimelock", "ethPSMFeiSkimmer", "daiPSMFeiSkimmer",
   "rariInfraFeiTimelock", "rariInfraTribeTimelock"}

fip_54 ==
  << ByGovernor("fei", "setCore"),
     GrantPCVController("ethPSMFeiSkimmer"),
     GrantPCVController("daiPSMFeiSkimmer"),
     ByGovernor("core", "allocateTribe"),
     Mint("rariInfraFeiTimelock"),
     SetContractAdmin("votiumBriberD3pool", "VOTIUM_ADMIN_ROLE"),
     CreateRole("VOTIUM_ADMIN_ROLE", "GOVERN_ROLE"),
     Grant("VOTIUM_ADMIN_ROLE", "opsOptimisticTimelock") >>

fip_54_validate(c) ==
  /\ AdministeredBy(c, "VOTIUM_ADMIN_ROLE", {"votiumBriberD3pool"})
  /\ HoldersOf(c, "VOTIUM_ADMIN_ROLE", {"opsOptimisticTimelock"})

(* FIP-55: PCV Guardian                                                    *)
fip_55_deploy == {"pcvGuardianV1"}

fip_55 ==
  << GrantGuardian("pcvGuardianV1"),
     GrantPCVController("pcvGuardianV1") >>

fip_55_validate(c) == Cardinality(c.safe["pcvGuardianV1"]) = 4

(* FIP-56: Fei v2 Deployment                                               *)
fip_56_deploy == {"tribeMinter", "tribeReserveStabilizer", "daiPSM", "daiPCVDripController"}

fip_56 ==
  << CreateRole("TRIBE_MINTER_ADMIN_ROLE", "GOVERN_ROLE"),
     Grant("TRIBE_MINTER_ADMIN_ROLE", "tribeReserveStabilizer"),
     SetContractAdmin("tribeMinter", "TRIBE_MINTER_ADMIN_ROLE"),
     Call("tribe", "setMinter"),
     GrantMinter("daiPSM"),
     GrantPCVController("daiPCVDripController"),
     CreateRole("PSM_ADMIN_ROLE", "GOVERN_ROLE"),
     Withdraw("compoundDaiPCVDeposit", "daiPSM"),
     RevokeMinter("dpiBondingCurve"),
     RevokeMinter("raiBondingCurve"),
     RemoveDeposits({"dpiBondingCurveWrapper", "raiBondingCurveWrapper"}),
     AddDeposits({"daiPSM"}),
     ByGovernor("bondingCurve", "setBuffer"),
     ByGovernorOrAdmin("ethReserveStabilizer", "setUsdPerFeiRate"),
     SetSafe("pcvGuardianV1", {"daiPSM"}) >>

fip_56_validate(c) ==
  /\ HoldersOf(c, "TRIBE_MINTER_ADMIN_ROLE", {"tribeReserveStabilizer"})
  /\ AdministeredBy(c, "TRIBE_MINTER_ADMIN_ROLE", {"tribeMinter"})
  /\ NotCounted(c, {"dpiBondingCurveWrapper", "raiBondingCurveWrapper"})
  /\ Counted(c, {"daiPSM"})
  /\ "daiPSM" \in c.safe["pcvGuardianV1"]

(* FIP-51: FeiRari Merger                                                  *)
merger_deploy ==
  {"tribeRariDAO", "pegExchanger", "tribeRagequit", "mergerGate", "pegExchangerDripper"}

merger ==
  << Call("mergerGate", "floop"),
     ByGovernor("core", "allocateTribe"),
     ByGovernor("core", "allocateTribe"),
     GrantMinter("tribeRagequit"),
     Call("pegExchanger", "tribeAccept"),
     Call("tribeRagequit", "tribeAccept"),
     Mint("gfxAddress") >>

(* FIP-51: FeiRari Merger                                                  *)
mergerRari ==
  << Call("pegExchanger", "rgtAccept"),
     Call("tribeRagequit", "rgtAccept"),
     Call("rariTimelock", "setPendingAdmin"),
     Call("tribeRariDAO", "__acceptAdmin") >>

-----------------------------------------------------------------------------
(* FIP-60: FeiRari Rewards Upgrade                                         *)
fip_60_deploy ==
  {"tribalChiefSyncExtension", "d3StakingTokenWrapper", "fei3CrvStakingtokenWrapper",
   "d3AutoRewardsDistributor", "fei3CrvAutoRewardsDistributor", "fuseGuardian"}

fip_60 ==
  << Call("rariPool8Comptroller", "_setPriceOracle"),
     Call("rariPool8Comptroller", "_deployMarket"),
     Call("rariPool8Comptroller", "_deployMarket"),
     Call("rariPool8Comptroller", "_setPauseGuardian"),
     ByAnyGuardian("fuseGuardian", "_setBorrowPausedByUnderlying"),
     ByAnyGuardian("fuseGuardian", "_setBorrowPausedByUnderlying"),
     Call("rariPool8Comptroller", "_setBorrowCapGuardian"),
     ByAnyGuardian("fuseGuardian", "_setMarketSupplyCapsByUnderlying"),
     ByGovernorOrAdmin("tribalChief", "add"),
     ByGovernorOrAdmin("tribalChief", "add"),
     Call("d3StakingTokenWrapper", "init"),
     Call("fei3CrvStakingtokenWrapper", "init"),
     Call("d3AutoRewardsDistributor", "init"),
     Call("fei3CrvAutoRewardsDistributor", "init"),
     BecomeAdmin("rewardsDistributorAdmin", "rewardsDistributorAdmin.ADMIN"),
     GrantAt("rewardsDistributorAdmin", "AUTO_REWARDS_DISTRIBUTOR_ROLE",
             "d3AutoRewardsDistributor"),
     GrantAt("rewardsDistributorAdmin", "AUTO_REWARDS_DISTRIBUTOR_ROLE",
             "fei3CrvAutoRewardsDistributor") >>

(* FIP-60b: FeiRari Rewards Upgrade                                        *)
fip_60b_deploy ==
  {"feiDaiStakingTokenWrapper", "feiUsdcStakingTokenWrapper", "feiDaiAutoRewardsDistributor",
   "feiUsdcAutoRewardsDistributor", "fuseAdmin"}

fip_60b_markets ==
  << Call("rariPool8Comptroller", "_setPendingAdmin"),
     Call("fuseAdmin", "_acceptAdmin"),
     Call("rariPool8MasterOracle", "changeAdmin"),
     ByGovernorOrAdmin("fuseAdmin", "oracleAdd"),
     ByGovernorOrAdmin("fuseAdmin", "_deployMarket"),
     ByGovernorOrAdmin("fuseAdmin", "_deployMarket"),
     ByAnyGuardian("fuseGuardian", "_setBorrowPausedByUnderlying"),
     ByAnyGuardian("fuseGuardian", "_setBorrowPausedByUnderlying"),
     ByAnyGuardian("fuseGuardian", "_setMarketSupplyCapsByUnderlying") >>

fip_60b_rewards ==
  << ByGovernorOrAdmin("tribalChief", "add"),
     ByGovernorOrAdmin("tribalChief", "add"),
     Call("feiDaiStakingTokenWrapper", "init"),
     Call("feiUsdcStakingTokenWrapper", "init"),
     Call("feiDaiAutoRewardsDistributor", "init"),
     Call("feiUsdcAutoRewardsDistributor", "init"),
     GrantAt("rewardsDistributorAdmin", "AUTO_REWARDS_DISTRIBUTOR_ROLE",
             "feiDaiAutoRewardsDistributor"),
     GrantAt("rewardsDistributorAdmin", "AUTO_REWARDS_DISTRIBUTOR_ROLE",
             "feiUsdcAutoRewardsDistributor") >>

fip_60b == fip_60b_markets \o fip_60b_rewards

(* FIP-60c: FeiRari Rewards Upgrade                                        *)
fip_60c_deploy ==
  {"rariPool90FeiPCVDepositWrapper", "rariPool91FeiPCVDepositWrapper",
   "rariPool79FeiPCVDepositWrapper", "rariPool72FeiPCVDepositWrapper",
   "rariPool128FeiPCVDepositWrapper", "rariPool22FeiPCVDepositWrapper"}

fip_60c ==
  << ByGovernorOrAdmin("tribalChief", "set"),
     Call("fei", "transfer"),
     WhenNotPaused("rariPool128FeiPCVDeposit", "deposit"),
     AddDeposits({"rariPool90FeiPCVDepositWrapper", "rariPool91FeiPCVDepositWrapper",
                  "rariPool79FeiPCVDepositWrapper", "rariPool72FeiPCVDepositWrapper",
                  "rariPool128FeiPCVDepositWrapper", "rariPool22FeiPCVDepositWrapper",
                  "rariPool28FeiPCVDepositWrapper", "rariPool31FeiPCVDepositWrapper"}),
     RemoveDeposits({"rariPool90FeiPCVDeposit", "rariPool91FeiPCVDeposit",
                     "rariPool79FeiPCVDeposit", "rariPool72FeiPCVDeposit",
                     "rariPool28FeiPCVDeposit", "rariPool31FeiPCVDeposit"}) >>

(* FIP-61: Maintenance and Peg Updates                                     *)
fip_61_deploy == {"namedStaticPCVDepositWrapper", "tribalChiefSyncV2"}

fip_61 ==
  << SwapDeposit("staticPcvDepositWrapper2", "namedStaticPCVDepositWrapper"),
     RemoveDeposits({"daiBondingCurveWrapper"}),
     RevokeMinter("daiBondingCurve"),
     Pause("daiBondingCurve"),
     RevokeMinter("tribeRagequit"),
     Grant("TRIBAL_CHIEF_ADMIN_ROLE", "tribalChiefSyncV2"),
     BecomeAdmin("optimisticTimelock", "optimisticTimelock.ADMIN"),
     GrantAt("optimisticTimelock", "optimisticTimelock.EXECUTOR_ROLE", "tribalChiefSyncV2"),
     RevokeAt("optimisticTimelock", "optimisticTimelock.EXECUTOR_ROLE", "tribalChiefSync"),
     ByGovernorOrAdmin("daiPSM", "setMintFee"),
     ByGovernorOrAdmin("daiPSM", "setRedeemFee") >>

fip_61_validate(c) ==
  /\ Counted(c, {"namedStaticPCVDepositWrapper"})
  /\ NotCounted(c, {"staticPcvDepositWrapper2", "daiBondingCurveWrapper"})
  /\ AllPaused(c, "all", {"daiBondingCurve"})
  /\ HoldersOf(c, "optimisticTimelock.EXECUTOR_ROLE", {"tribalChiefSyncV2"})
  /\ NoneHolds(c, "optimisticTimelock.EXECUTOR_ROLE", {"tribalChiefSync"})

(* FIP-62: Create ETH PSM and Deprecate Eth Reserve Stabilizer and Bonding
   Curve *)
fip_62_deploy == {"ethPSM", "ethPSMRouter"}

fip_62 ==
  << RemoveDeposits({"ethReserveStabilizerWrapper"}),
     RemoveDeposits({"bondingCurve"}),
     AddDeposits({"ethPSM"}),
     Move("ethReserveStabilizer", "aaveEthPCVDeposit"),
     WhenNotPaused("bondingCurve", "allocate"),
     Pause("ethReserveStabilizer"),
     Pause("bondingCurve"),
     Pause("aaveEthPCVDripController"),
     Pause("compoundEthPCVDripController"),
     PauseRedeem("ethPSM"),
     RevokeMinter("bondingCurve"),
     GrantMinter("ethPSM"),
     RevokeBurner("ethReserveStabilizer"),
     RevokePCVController("compoundEthPCVDripController"),
     ByGovernor("aaveEthPCVDripController", "setTarget"),
     ByGovernor("aaveEthPCVDripController", "setIncentiveAmount"),
     SetSafe("pcvGuardianV1", {"ethPSM"}),
     UnsetSafe("pcvGuardianV1", {"ethReserveStabilizer"}) >>

fip_62_validate(c) ==
  /\ AllPaused(c, "redeem", {"ethPSM"})
  /\ "ethPSM" \in c.safe["pcvGuardianV1"]

(* FIP-60b: FeiRari Rewards Upgrade                                        *)
fip_64 ==
  << ByGovernorOrAdmin("fuseAdmin", "_deployMarket"),
     ByAnyGuardian("fuseGuardian", "_setBorrowPausedByUnderlying"),
     ByAnyGuardian("fuseGuardian", "_setMarketSupplyCapsByUnderlying") >>

(* FIP-65: Tribe ETH Fuse Pool, FIP-67: Create Backup LUSD PSM             *)
fip_67_deploy == {"lusdPSM", "lusdPCVDripController", "lusdPSMFeiSkimmer"}

fip_67 ==
  << AddDeposits({"lusdPSM"}),
     Pause("lusdPCVDripController"),
     Pause("lusdPSMFeiSkimmer"),
     Pause("lusdPSM"),
     PauseRedeem("lusdPSM"),
     GrantMinter("lusdPSM"),
     GrantPCVController("lusdPCVDripController"),
     GrantPCVController("lusdPSMFeiSkimmer"),
     SetSafe("pcvGuardianV1", {"lusdPSM"}),
     Withdraw("compoundEthPCVDeposit", "rariPool146EthPCVDeposit"),
     WhenNotPaused("rariPool146EthPCVDeposit", "deposit"),
     AddDeposits({"rariPool146EthPCVDeposit"}) >>

fip_67_validate(c) ==
  /\ AllPaused(c, "all", {"lusdPCVDripController", "lusdPSM", "lusdPSMFeiSkimmer"})
  /\ AllPaused(c, "redeem", {"lusdPSM"})
  /\ "lusdPSM" \in c.safe["pcvGuardianV1"]

(* FIP-68: REPT-B Redemption and RGT Migration Future Expiry               *)
fip_68_deploy == {"reptbRedeemer"}

fip_68 ==
  << Mint("reptbRedeemer"),
     Call("pegExchanger", "setExpirationTimestamp") >>

(* FIP-70: ETH/FEI Liquidity migration to Balancer                         *)
fip_70_deploy ==
  {"weightedBalancerPoolManagerBase", "balancerFeiWethPool", "balancerDepositFeiWeth",
   "delayedPCVMoverWethUniToBal"}

fip_70 ==
  << GrantMinter("balancerDepositFeiWeth"),
     AddDeposits({"balancerDepositFeiWeth"}),
     Move("uniswapPCVDeposit", "balancerDepositFeiWeth"),
     WhenNotPaused("balancerDepositFeiWeth", "deposit"),
     GrantPCVController("delayedPCVMoverWethUniToBal") >>

fip_70_validate(c) ==
  /\ Counted(c, {"balancerDepositFeiWeth"})
  /\ HoldersOf(c, "PCV_CONTROLLER_ROLE", {"delayedPCVMoverWethUniToBal"})

(* FIP-72: New DAI PSM                                                     *)
fip_72_deploy == {"daiFixedPricePSM"}

fip_72 ==
  << GrantMinter("daiFixedPricePSM"),
     RevokeMinter("daiPSM"),
     RevokePCVController("daiPSMFeiSkimmer"),
     ByGovernor("daiPCVDripController", "setTarget"),
     SetSafe("pcvGuardianV1", {"daiFixedPricePSM"}),
     UnsetSafe("pcvGuardianV1", {"daiPSM"}),
     Move("daiPSM", "daiFixedPricePSM"),
     Move("daiPSM", "daiFixedPricePSM"),
     ByGovernorOrAdmin("daiFixedPricePSM", "setBackupOracle"),
     SwapDeposit("daiPSM", "daiFixedPricePSM"),
     Pause("daiPSM") >>

fip_72_validate(c) == AllPaused(c, "all", {"daiPSM"})

(* FIP-73: Fei Peg Policy Changes                                          *)
fip_73_deploy ==
  {"wethDepositWrapper", "dpiDepositWrapper", "raiDepositWrapper", "agEurDepositWrapper"}

fip_73 ==
  << CreateRole("PCV_GUARDIAN_ADMIN_ROLE", "GOVERN_ROLE"),
     Grant("PCV_GUARDIAN_ADMIN_ROLE", "optimisticTimelock"),
     SetSafe("pcvGuardianV1", {"d3poolCurvePCVDeposit"}),
     SetSafe("pcvGuardianV1", {"d3poolConvexPCVDeposit"}),
     ByGovernorOrAdmin("ethPSM", "setReservesThreshold"),
     AddDeposits({"wethDepositWrapper"}),
     AddDeposits({"dpiDepositWrapper"}),
     AddDeposits({"raiDepositWrapper"}),
     AddDeposits({"agEurDepositWrapper"}),
     Grant("ORACLE_ADMIN_ROLE", "opsOptimisticTimelock") >>

fip_73_validate(c) ==
  /\ {"d3poolCurvePCVDeposit", "d3poolConvexPCVDeposit"} \subseteq c.safe["pcvGuardianV1"]
  /\ HoldersOf(c, "PCV_GUARDIAN_ADMIN_ROLE", {"optimisticTimelock"})
  /\ Counted(c, {"wethDepositWrapper", "dpiDepositWrapper", "raiDepositWrapper",
                 "agEurDepositWrapper"})
  /\ HoldersOf(c, "ORACLE_ADMIN_ROLE", {"opsOptimisticTimelock"})

(* FIP-73b: Contractionary Monetary Policy                                 *)
fip_73b_deploy == {"kashiRedeemer", "idleTranchesRedeemer", "idleRedeemer", "bbRedeemer"}

fip_73b ==
  << Call("barnbridgeAFei", "transfer"),
     Call("idleBestYield", "transfer"),
     Call("idleTranches", "transfer"),
     Call("kashiFeiDPI", "transfer"),
     Call("kashiFeiEth", "transfer"),
     Call("kashiFeiTribe", "transfer"),
     Call("kashiFeiXSushi", "transfer") >>
  \o Times(8, ByAnyGuardian("namedStaticPCVDepositWrapper", "removeDeposit"))

(* FIP-73d: Withdraw BentoBox                                              *)
fip_73d == << Call("bentoBox", "withdraw") >>

(* Visor redemption                                                        *)
fip_visor == << Call("hypervisor", "withdraw") >>

(* FIP-76a: Add LUSD to FeiRari                                            *)
fip_76a ==
  << ByGovernorOrAdmin("fuseAdmin", "oracleAdd"),
     ByGovernorOrAdmin("fuseAdmin", "_deployMarket"),
     ByAnyGuardian("fuseGuardian", "_setMarketSupplyCapsByUnderlying") >>

(* FIP-76b: Add LUSD to FeiRari                                            *)
fip_76b_deploy == {"rariPool8Lusd", "rariPool8LusdPCVDeposit", "rariPool8DaiPCVDeposit"}

fip_76b ==
  << Unpause("delayedPCVMoverWethUniToBal"),
     MoverWithdraw("delayedPCVMoverWethUniToBal"),
     WhenNotPaused("balancerDepositFeiWeth", "deposit"),
     Withdraw("aaveEthPCVDeposit", "uniswapPCVDeposit"),
     WhenNotPaused("uniswapPCVDeposit", "deposit"),
     Withdraw("compoundDaiPCVDeposit", "rariPool8DaiPCVDeposit"),
     WhenNotPaused("rariPool8DaiPCVDeposit", "deposit"),
     Withdraw("bammDeposit", "rariPool8LusdPCVDeposit"),
     WhenNotPaused("rariPool8LusdPCVDeposit", "deposit"),
     Move("dpiUniswapPCVDeposit", "feiDAOTimelock"),
     RemoveDeposits({"rariPool7FeiPCVDepositWrapper", "rariPool9FeiPCVDepositWrapper",
                     "rariPool26FeiPCVDepositWrapper", "rariPool28FeiPCVDepositWrapper",
                     "rariPool91FeiPCVDepositWrapper", "dpiUniswapPCVDeposit"}),
     AddDeposits({"rariPool8DaiPCVDeposit", "rariPool8LusdPCVDeposit"}),
     SetContractAdmin("votiumBriber3Crvpool", "VOTIUM_ADMIN_ROLE") >>

fip_76b_validate(c) == NoneHolds(c, "PCV_CONTROLLER_ROLE", {"delayedPCVMoverWethUniToBal"})

(* FIP-77: FEI-3Crv rewards                                                *)
fip_77 ==
  << ByGovernorOrAdmin("tribalChief", "set"),
     ByGovernorOrAdmin("tribalChief", "set"),
     ByAnyGuardian("fuseGuardian", "_setMarketSupplyCapsByUnderlying") >>

(* FIP-45a: ANGLE Meta-governance                                          *)
fip_78a_deploy ==
  {"uniswapLensAgEurUniswapGauge", "gaugeLensAgEurUniswapGauge", "angleDelegatorPCVDeposit",
   "agEurUniswapPCVDeposit"}

fip_78a_roles ==
  << CreateRole("METAGOVERNANCE_VOTE_ADMIN", "GOVERN_ROLE"),
     SetContractAdmin("indexDelegator", "METAGOVERNANCE_VOTE_ADMIN"),
     Grant("METAGOVERNANCE_VOTE_ADMIN", "feiDAOTimelock"),
     Grant("METAGOVERNANCE_VOTE_ADMIN", "opsOptimisticTimelock"),
     CreateRole("METAGOVERNANCE_TOKEN_STAKING", "GOVERN_ROLE"),
     Grant("METAGOVERNANCE_TOKEN_STAKING", "feiDAOTimelock"),
     Grant("METAGOVERNANCE_TOKEN_STAKING", "opsOptimisticTimelock"),
     CreateRole("METAGOVERNANCE_GAUGE_ADMIN", "GOVERN_ROLE"),
     Grant("METAGOVERNANCE_GAUGE_ADMIN", "feiDAOTimelock"),
     Grant("METAGOVERNANCE_GAUGE_ADMIN", "optimisticTimelock") >>

fip_78a_agEur ==
  << Move("agEurAngleUniswapPCVDeposit", "angleDelegatorPCVDeposit"),
     Move("agEurAngleUniswapPCVDeposit", "agEurUniswapPCVDeposit"),
     RevokeMinter("agEurAngleUniswapPCVDeposit"),
     Mint("agEurUniswapPCVDeposit"),
     WhenNotPaused("agEurUniswapPCVDeposit", "deposit"),
     Move("agEurUniswapPCVDeposit", "angleDelegatorPCVDeposit"),
     ByRole({"METAGOVERNANCE_TOKEN_STAKING"}, "angleDelegatorPCVDeposit", "lock"),
     ByRole({"METAGOVERNANCE_GAUGE_ADMIN"}, "angleDelegatorPCVDeposit", "setTokenToGauge"),
     ByRole({"METAGOVERNANCE_VOTE_ADMIN"}, "angleDelegatorPCVDeposit", "voteForGaugeWeight"),
     ByRole({"METAGOVERNANCE_GAUGE_ADMIN"}, "angleDelegatorPCVDeposit", "stakeAllInGauge"),
     AddDeposits({"uniswapLensAgEurUniswapGauge", "agEurUniswapPCVDeposit"}),
     SetSafe("pcvGuardianV1", {"agEurUniswapPCVDeposit"}),
     RemoveDeposits({"agEurAngleUniswapPCVDeposit"}) >>

fip_78a == fip_78a_roles \o fip_78a_agEur

(* FIP-79: Tribe x Olympus Partnership                                     *)
fip_79_deploy == {"ohmEscrow"}

fip_79 ==
  << ByGovernor("core", "allocateTribe"),
     Call("tribe", "approve"),
     Call("ohmEscrow", "swap") >>

(* Withdraw from Tokemak                                                   *)
tokemak_withdraw == << ByGovernorOrAdmin("ethTokemakPCVDeposit", "requestWithdrawal") >>
=============================================================================
