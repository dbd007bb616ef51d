------------------------ MODULE ProtocolConfiguration ------------------------
(***************************************************************************)
(* src/protocol-configuration: the contracts the proposals call by name, by *)
(* the category each is filed under (one is filed twice, under gohm and     *)
(* gOHM); and what the protocol is configured to be once the proposals of   *)
(* its last months are executed, as its integration tests compare it with   *)
(* mainnet.                                                                 *)
(***************************************************************************)
EXTENDS FiniteSets, UpgradeCommands

Core ==
  {"core", "fei", "proxyAdmin", "tribe", "tribeMinter", "restrictedPermissions"}

Security ==
  {"pcvSentinel", "pcvGuardian", "guardianMultisig", "fuseWithdrawalGuard",
   "maxFeiWithdrawalGuard"}

Utility ==
  {"ratioPCVControllerV2", "ethToDaiLBPSwapper", "fuseFixer", "pcvEquityMinter",
   "daiPCVDripController", "lusdToDaiSwapper"}

Governance ==
  {"feiDAO", "feiDAOTimelock", "optimisticMultisig", "optimisticTimelock", "rariTimelock",
   "tribeRariDAO", "weightedBalancerPoolManagerBase", "veBalDelegatorPCVDeposit",
   "balancerGaugeStaker", "balancerGaugeStakerImpl", "angleDelegatorPCVDeposit",
   "rariGovernanceProxyAdmin", "podExecutorV2", "podAdminGateway", "podFactory",
   "governanceMetadataRegistry", "nopeDAO", "tribalCouncilTimelock", "tribalCouncilSafe",
   "roleBastion"}

Peg ==
  {"tribeReserveStabilizer"}

Deprecated_1 ==
  {"daiFixedPricePSM", "daiFixedPricePSMFeiSkimmer"}

PCV_1 ==
  {"tribalCouncilTimelockFeiLens", "rariTimelockFeiOldLens", "ethToDaiLensDai",
   "ethToDaiLensEth", "lusdToDaiLensDai", "lusdToDaiLensLusd", "ethLidoPCVDeposit",
   "balancerDepositFeiWeth", "balancerDepositBalWeth", "balancerLensBpt30Fei70Weth",
   "balancerLensVeBalBal", "balancerLensVeBalWeth", "aaveFeiPCVDepositWrapper",
   "daiHoldingPCVDeposit", "rariPool79FeiPCVDepositWrapper", "lusdHoldingPCVDeposit",
   "compoundFeiPCVDepositWrapper"}

PCV_V1 ==
  {"aaveFeiPCVDeposit", "indexDelegator", "rariPool22FeiPCVDeposit", "rariPool128FeiPCVDeposit",
   "rariPool8FeiPCVDeposit", "rariPool79FeiPCVDeposit", "gaugeLensBpt30Fei70WethGauge",
   "convexPoolPCVDeposit", "compoundFeiPCVDeposit"}

Collateralization ==
  {"collateralizationOracle"}

Distribution ==
  {"investorUniswapFeiTribeTimelock", "laTribuFeiTimelock", "laTribuTribeTimelock",
   "rariInfraFeiTimelock", "rariInfraTribeTimelock"}

Oracle ==
  {"balUsdCompositeOracle", "chainlinkBALEthOracle", "chainlinkCREAMEthOracle",
   "chainlinkDaiUsdOracleWrapper", "chainlinkDpiUsdOracleWrapper",
   "chainlinkEthUsdOracleWrapper", "chainlinkStEthUsdOracleWrapper", "compositeStEthEthOracle",
   "chainlinkEurUsdOracleWrapper", "chainlinkFeiEthOracleWrapper", "chainlinkLUSDOracleWrapper",
   "chainlinkRaiEthOracleWrapper", "chainlinkRaiUsdOracleWrapper",
   "chainlinkRaiUsdCompositeOracle", "chainlinkTribeEthOracleWrapper", "compositeOracle",
   "creamUsdCompositeOracle", "oneConstantOracle", "tribeUsdCompositeOracle",
   "zeroConstantOracle"}

Turbo ==
  {"rariTurboFusePool", "turboAdmin", "turboBooster", "turboMaster"}

Fuse ==
  {"fuseERC4626Pool8Fei", "fuseERC4626Pool18Fei"}

FeiRari ==
  {"rariPool8ConvexD3Plugin", "rariCErc20PluginImpl", "rariPool8Comptroller",
   "rariPool8MasterOracle", "rariChainlinkPriceOracleV3", "curveLPTokenOracle",
   "gUniFuseOracle", "rariPool8Lusd", "rariPool8Dai", "rariPool8DaiIrm", "rariPool8Eth",
   "rariPool8EthIrm", "rariPool8Fei", "rariPool8FeiIrm", "rariPool8Tribe", "rariPool8TribeIrm",
   "rariPool8CTokenImpl", "rariPool8Fei3Crv", "rariPool8FeiD3", "rariPool146Comptroller",
   "rariPool146FuseAdmin", "rariPool146Eth", "fuseAdmin", "fuseGuardian"}

Volt ==
  {"volt", "voltFusePCVDeposit", "voltSafe", "voltOptimisticTimelock"}

External_1 ==
  {"aaveLendingPoolAddressesProvider", "dpiToDaiLBPPool", "ethToDaiLBPPool", "lusdToDaiLBPPool",
   "veBal", "bpt80Bal20Weth", "bpt30Fei70Weth", "balancerMinter", "balancerGaugeController",
   "balancerGaugeBpt30Fei70Weth", "tokemakManagerRollover", "tokemakManager", "rariOpsMultisig",
   "aave", "aaveGovernanceV2", "aaveIncentivesController", "aaveLendingPool", "aFei", "cFei",
   "aFeiStableDebt", "aFeiVariableDebt", "agEUR", "alusd", "angleMultisig", "angle"}

External_2 ==
  {"angleAgEurFeiPool", "anglePoolManager", "angleStableMaster", "angleGaugeController",
   "angleGaugeUniswapV2FeiAgEur", "anglePoolManagerUsdc", "angleStrategyUsdc1", "veAngle",
   "comp", "aRai", "aWETH", "bal", "usdc", "balancerAdmin", "balancerAuthorizer",
   "balancerWeightedPoolFactory", "balancerLBPoolFactory", "balancerLBPoolFactoryNoFee",
   "balancerVault", "balancerRewards", "barnbridgeAFei", "bamm", "bentoBox",
   "chainlinkDaiUsdOracle", "chainlinkDpiUsdOracle"}

External_3 ==
  {"chainlinkEthUsdOracle", "chainlinkOHMV2EthOracle", "chainlinkStEthUsdOracle",
   "chainlinkEurUsdOracle", "chainlinkFeiEthOracle", "chainlinkRaiEthOracle",
   "chainlinkTribeEthOracle", "communalFarm", "compoundDai", "compoundEth", "convexBooster",
   "convexD3poolRewards", "cream", "creamFei", "crv", "curve3crv", "curve3pool", "curveD3pool",
   "curveStethPool", "curveFei3crvMetapool", "cvx", "dai", "dpi", "feiEthPair", "feiLusdLBP"}

External_4 ==
  {"feiTribeLBP", "feiTribePair", "fuseFeeDistributor", "fuseMultisig", "frax", "gfxAddress",
   "gohm", "gUniFeiDaiLP", "gUniFeiUsdcLP", "idleBestYield", "idleTranches",
   "idleTranchesMinter", "hypervisor", "index", "kashiFeiDPI", "kashiFeiEth", "kashiFeiTribe",
   "kashiFeiXSushi", "liquityFusePoolLusd", "lqty", "lusd", "masterKashi", "multisend", "rai",
   "rariPool18Fei"}

External_5 ==
  {"rariPool19Dpi", "rariPool19Fei", "rariPool22Fei", "rariPool24Fei", "rariPool25Fei",
   "rariPool26Fei", "rariPool27Fei", "rariPool6Fei", "rariPool7Fei", "rariPool9Fei",
   "rariPool9Rai", "reptb", "rgt", "saddleD4Pool", "snapshotDelegateRegistry", "stAAVE",
   "wstEth", "steth", "sushiswapDpiFei", "sushiswapRouter", "usd", "toke", "tToke", "tWETH",
   "votiumBribe"}

External_6 ==
  {"weth"}

PCV_2 ==
  {"wethHoldingPCVDeposit"}

External_7 ==
  {"orcaPodController", "orcaMemberToken", "orcaShipToken", "tribeDev1Deployer",
   "tribeDev2Deployer", "tribeDev3Deployer", "tribeDev4Deployer", "voltOTCEscrow", "gOHM",
   "makerUSDCPSM", "makerUSDCGemJoin", "aura", "vlAura", "auraMerkleDrop", "eswak",
   "olympusMultisig"}

Deprecated_2 ==
  {"noFeeFeiTribeLBPSwapper", "compoundDaiPCVDepositWrapper", "feiBuybackLensNoFee",
   "compoundDaiPCVDeposit", "namedStaticPCVDepositWrapper", "uniswapFeiTribeLiquidityTimelock",
   "chainlinkOhmV2EthOracleWrapper", "uniswapLiquidityRemover", "dpiToDaiLBPSwapper",
   "optimisticMinter", "aaveEthPCVDripController", "gOhmUSDOracle", "gOhmEthOracle",
   "raiPCVDripController", "lusdPSMFeiSkimmer", "lusdPCVDripController",
   "collateralizationOracleKeeper", "opsOptimisticTimelock", "lusdPSM", "raiPriceBoundPSM",
   "ethPSM", "ethPSMRouter", "ethPSMFeiSkimmer", "dpiToDaiLensDai", "dpiToDaiLensDpi",
   "agEurUniswapPCVDeposit", "bammDeposit", "d3poolConvexPCVDeposit"}

Deprecated_3 ==
  {"d3poolCurvePCVDeposit", "ethTokemakPCVDeposit", "rariPool7LusdPCVDeposit",
   "uniswapPCVDeposit", "aaveEthPCVDepositWrapper", "compoundEthPCVDepositWrapper",
   "feiOATimelockWrapper", "rariPool19FeiPCVDepositWrapper", "rariPool24FeiPCVDepositWrapper",
   "rariPool6FeiPCVDepositWrapper", "rariPool128FeiPCVDepositWrapper",
   "rariPool22FeiPCVDepositWrapper", "wethDepositWrapper", "agEurDepositWrapper",
   "voltDepositWrapper", "uniswapLensAgEurUniswapGauge", "aaveEthPCVDeposit",
   "compoundEthPCVDeposit", "rariPool24FeiPCVDeposit", "rariPool19FeiPCVDeposit",
   "rariPool6FeiPCVDeposit", "agEurAngleUniswapPCVDeposit", "gaugeLensAgEurUniswapGauge",
   "collateralizationOracleGuardian", "collateralizationOracleWrapper",
   "collateralizationOracleWrapperImpl", "turboFusePCVDeposit", "aaveTribeIncentivesController",
   "aaveTribeIncentivesControllerImpl", "erc20Dripper"}

Deprecated_4 ==
  {"rariRewardsDistributorDelegate", "rariRewardsDistributorDelegator", "tribalChief",
   "tribalChiefImpl", "votiumBriber3Crvpool", "voltHoldingPCVDeposit", "voltCore",
   "voltFeiSwapContract", "voltOraclePassthrough", "voltOracle"}

External_8 ==
  {"tribeFeiLabsDel1", "tribeFeiLabsDel2", "tribeFeiLabsDel3", "tribeFeiLabsDel4",
   "tribeFeiLabsDel5", "tribeFeiLabsDel6"}

Deprecated_5 ==
  {"feiTribeLBPSwapper", "delayedPCVMoverWethUniToBal",
   "rariGovernanceTokenSushiSwapDistributor", "pcvGuardianV1", "daiPSM", "aaveRaiPCVDeposit",
   "ethLidoPCVDepositOld", "rariPool18FeiPCVDeposit", "rariPool25FeiPCVDeposit",
   "rariPool26FeiPCVDeposit", "rariPool27FeiPCVDeposit", "rariPool19DpiPCVDeposit",
   "rariPool7FeiPCVDeposit", "rariPool9FeiPCVDeposit", "rariPool9RaiPCVDeposit",
   "rariPool28FeiPCVDeposit", "rariPool31FeiPCVDeposit", "rariPool72FeiPCVDeposit",
   "rariPool90FeiPCVDeposit", "rariPool91FeiPCVDeposit", "gaugeLensBpt30Fei70WethGaugeOld",
   "balancerLensBpt30Fei70WethOld", "dpiUniswapPCVDeposit", "liquityFusePoolLusdPCVDeposit",
   "aaveRaiPCVDepositWrapper", "creamDepositWrapper", "ethLidoPCVDepositOldWrapper",
   "ethReserveStabilizerWrapper", "rariPool146EthPCVDeposit", "rariPool8DaiPCVDeposit"}

Deprecated_6 ==
  {"rariPool8LusdPCVDeposit", "rariPool18FeiPCVDepositWrapper",
   "rariPool19DpiPCVDepositWrapper", "rariPool25FeiPCVDepositWrapper",
   "rariPool26FeiPCVDepositWrapper", "rariPool27FeiPCVDepositWrapper",
   "rariPool7FeiPCVDepositWrapper", "rariPool8FeiPCVDepositWrapper",
   "rariPool9FeiPCVDepositWrapper", "rariPool28FeiPCVDepositWrapper",
   "rariPool31FeiPCVDepositWrapper", "rariPool90FeiPCVDepositWrapper",
   "rariPool91FeiPCVDepositWrapper", "rariPool72FeiPCVDepositWrapper",
   "rariPool9RaiPCVDepositWrapper", "dpiDepositWrapper", "raiDepositWrapper",
   "autoRewardsDistributor", "d3AutoRewardsDistributor", "fei3CrvAutoRewardsDistributor",
   "rewardsDistributorAdmin", "stakingTokenWrapperBribeD3pool", "stakingTokenWrapperFOXLaaS",
   "stakingTokenWrapperGROLaaS", "stakingTokenWrapperKYLINLaaS",
   "stakingTokenWrapperMStableLaaS", "stakingTokenWrapperNEARLaaS",
   "stakingTokenWrapperPoolTogetherLaaS", "stakingTokenWrapperRari",
   "stakingTokenWrapperSYNLaaS"}

Deprecated_7 ==
  {"stakingTokenWrapperUMALaaS", "fei3CrvStakingtokenWrapper", "feiDaiStakingTokenWrapper",
   "feiUsdcStakingTokenWrapper", "feiDaiAutoRewardsDistributor",
   "feiUsdcAutoRewardsDistributor"}

External_9 ==
  {"fox"}

Deprecated_8 ==
  {"d3StakingTokenWrapper", "stwBulkHarvest", "tribalChiefSyncV2", "tribalChiefSyncExtension",
   "stakingTokenWrapperBribe3Crvpool", "votiumBriberD3pool", "aavePassthroughETH",
   "balDepositWrapper", "compoundPassthroughETH", "daiBondingCurve", "daiBondingCurveWrapper",
   "creamFeiPCVDeposit", "bondingCurve", "compoundEthPCVDripController", "ethReserveStabilizer",
   "creamFeiPCVDepositWrapper", "daiPSMFeiSkimmer", "defiPulseOTC", "dpiBondingCurve",
   "dpiBondingCurveWrapper", "ethOTCEscrow", "ethPCVDripper", "feiBalOtcEscrow",
   "feiBuybackLens", "feiLusdLens", "feiLusdLBPSwapper", "feiOTCEscrow",
   "feiRewardsDistributor", "genesisGroup", "governorAlpha"}

Deprecated_9 ==
  {"governorAlphaBackup", "oldEthBondingCurve", "oldEthReserveStabilizer", "ratioPCVController",
   "oldRatioPCVController", "raiBondingCurve", "raiBondingCurveWrapper",
   "staticPcvDepositWrapper", "staticPcvDepositWrapper2", "tribalChiefOptimisticTimelock",
   "tribalChiefSync", "tribeBalOtcEscrow", "tribeOTCEscrow", "tribeRagequit", "uniswapOracle",
   "uniswapPCVController", "uniswapRouter", "convexPoolPCVDepositWrapper", "timelock",
   "ohmEscrow", "ohmEscrowUnwind", "gOHMHoldingPCVDeposit", "mergerGate",
   "rariPool54FeiPCVDeposit", "reptbRedeemer", "kashiRedeemer", "idleTranchesRedeemer",
   "idleRedeemer"}

External_10 ==
  {"idle"}

Deprecated_10 ==
  {"bbRedeemer", "podExecutor", "clawbackVestingContractA", "clawbackVestingContractB",
   "clawbackVestingContractC", "clawbackVestingContractBeneficiary", "feiLabsVestingTimelock",
   "pegExchanger", "pegExchangerDripper", "newRariInfraFeiTimelock",
   "newRariInfraTribeTimelock", "angleEuroRedeemer"}

TBD ==
  {"vlAuraDelegatorPCVDeposit", "vlAuraDelegatorPCVDepositImplementation",
   "vlAuraDelegatorPCVDepositImplementationOld"}

-----------------------------------------------------------------------------
Deprecated == Deprecated_1 \cup Deprecated_2 \cup Deprecated_3 \cup Deprecated_4 \cup
    Deprecated_5 \cup Deprecated_6 \cup Deprecated_7 \cup Deprecated_8 \cup Deprecated_9 \cup
    Deprecated_10

PCV == PCV_1 \cup PCV_2

External == External_1 \cup External_2 \cup External_3 \cup External_4 \cup External_5 \cup
    External_6 \cup External_7 \cup External_8 \cup External_9 \cup External_10

(* All of them.                                                             *)
MainnetContracts == Core \cup Security \cup Utility \cup Governance \cup Peg \cup Deprecated
    \cup PCV \cup PCV_V1 \cup Collateralization \cup Distribution \cup Oracle \cup Turbo \cup
    Fuse \cup FeiRari \cup Volt \cup External \cup TBD

-----------------------------------------------------------------------------
(* Who holds each role; a role that is not listed is not compared.          *)
PermissionsConfig ==
  [MINTER_ROLE                  |-> {"simpleFeiDaiPSM"},
   BURNER_ROLE                  |-> {},
   GOVERN_ROLE                  |-> {"core", "feiDAOTimelock", "roleBastion"},
   PCV_CONTROLLER_ROLE          |-> {"feiDAOTimelock", "ratioPCVControllerV2", "pcvGuardian"},
   GUARDIAN_ROLE                |-> {"guardianMultisig", "pcvGuardian", "pcvSentinel"},
   ORACLE_ADMIN_ROLE            |-> {"tribalCouncilTimelock"},
   SWAP_ADMIN_ROLE              |-> {"pcvEquityMinter", "tribalCouncilTimelock",
                                     "tribalCouncilSafe"},
   BALANCER_MANAGER_ADMIN_ROLE  |-> {},
   RATE_LIMITED_MINTER_ADMIN    |-> {},
   PARAMETER_ADMIN              |-> {},
   PSM_ADMIN_ROLE               |-> {"tribalCouncilTimelock"},
   TRIBAL_CHIEF_ADMIN_ROLE      |-> {},
   FUSE_ADMIN                   |-> {"tribalCouncilTimelock"},
   VOTIUM_ADMIN_ROLE            |-> {},
   PCV_GUARDIAN_ADMIN_ROLE      |-> {"tribalCouncilTimelock"},
   PCV_SAFE_MOVER_ROLE          |-> {"tribalCouncilTimelock"},
   METAGOVERNANCE_VOTE_ADMIN    |-> {"feiDAOTimelock", "tribalCouncilTimelock"},
   METAGOVERNANCE_TOKEN_STAKING |-> {"feiDAOTimelock"},
   METAGOVERNANCE_GAUGE_ADMIN   |-> {"feiDAOTimelock", "tribalCouncilTimelock"},
   ROLE_ADMIN                   |-> {"feiDAOTimelock", "tribalCouncilTimelock"},
   POD_METADATA_REGISTER_ROLE   |-> {"tribalCouncilSafe", "tribeDev1Deployer",
                                     "tribeDev2Deployer", "tribeDev3Deployer",
                                     "tribeDev4Deployer"},
   FEI_MINT_ADMIN               |-> {"feiDAOTimelock", "tribalCouncilTimelock"},
   POD_VETO_ADMIN               |-> {"nopeDAO"},
   POD_ADMIN                    |-> {"tribalCouncilTimelock", "podFactory"},
   PCV_MINOR_PARAM_ROLE         |-> {"feiDAOTimelock", "tribalCouncilTimelock"},
   TOKEMAK_DEPOSIT_ADMIN_ROLE   |-> {"feiDAOTimelock", "tribalCouncilTimelock"}]

(* The deposits that are counted, by token.                                 *)
CollateralizationOracleConfig ==
  [fei  |-> {"aaveFeiPCVDepositWrapper", "rariPool79FeiPCVDepositWrapper",
             "compoundFeiPCVDepositWrapper", "rariTimelockFeiOldLens",
             "tribalCouncilTimelockFeiLens"},
   lusd |-> {"lusdToDaiLensLusd"},
   dai  |-> {"simpleFeiDaiPSM", "ethToDaiLensDai", "daiHoldingPCVDeposit", "lusdToDaiLensDai"},
   bal  |-> {"balancerDepositBalWeth", "balancerLensVeBalBal", "balancerGaugeStaker"},
   weth |-> {"ethLidoPCVDeposit", "balancerLensVeBalWeth", "ethToDaiLensEth",
             "wethHoldingPCVDeposit"}]

SafeAddressesConfig == {"feiDAOTimelock", "simpleFeiDaiPSM"}

(* What is paused of the peg stability modules.                             *)
StateConfig ==
  [ethPSM           |-> {"all", "redeem"},
   daiFixedPricePSM |-> {},
   lusdPSM          |-> {"all", "redeem"},
   raiPriceBoundPSM |-> {"all", "redeem", "mint"}]

(* mintPaused of ethPSM and lusdPSM is not compared.                        *)
Compared(p) == IF p \in {"ethPSM", "lusdPSM"} THEN {"all", "redeem"} ELSE {"all", "redeem", "mint"}

-----------------------------------------------------------------------------
RolesAsConfigured(c) ==
  \A r \in DOMAIN PermissionsConfig : c.roles[r] = PermissionsConfig[r]

DepositsAsConfigured(c) ==
  c.oracle = UNION {CollateralizationOracleConfig[t] : t \in DOMAIN CollateralizationOracleConfig}

SafeAsConfigured(safe) == safe = SafeAddressesConfig

StatesAsConfigured(c) ==
  \A p \in DOMAIN StateConfig :
    {kind \in Compared(p) : <<p, kind>> \in c.paused} = StateConfig[p]
=============================================================================
