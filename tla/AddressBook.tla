---------------------------- MODULE AddressBook -----------------------------
(* The address book of the protocol: every name that a proposal can use, with  *)
(* its category.                                                               *)
EXTENDS TLC

Named(category, names) == [n \in names |-> category]

BookCore ==
  Named("Core", {
    "core", "fei", "proxyAdmin", "tribe", "tribeMinter", "restrictedPermissions"}) @@
  Named("Security", {
    "pcvSentinel", "pcvGuardian", "guardianMultisig", "fuseWithdrawalGuard"})

BookUtility ==
  Named("Utility", {
    "ratioPCVControllerV2", "ethToDaiLBPSwapper", "fuseFixer", "noFeeFeiTribeLBPSwapper",
    "pcvEquityMinter", "daiPCVDripController", "lusdPSMFeiSkimmer"}) @@
  Named("Deprecated", {
    "dpiToDaiLBPSwapper", "optimisticMinter", "aaveEthPCVDripController",
    "raiPCVDripController", "lusdPCVDripController", "collateralizationOracleKeeper"})

BookGovernance ==
  Named("Governance", {
    "feiDAO", "feiDAOTimelock", "optimisticMultisig", "optimisticTimelock", "rariTimelock",
    "tribeRariDAO", "weightedBalancerPoolManagerBase", "veBalDelegatorPCVDeposit",
    "balancerGaugeStaker", "balancerGaugeStakerImpl", "angleDelegatorPCVDeposit",
    "rariGovernanceProxyAdmin", "podExecutorV2", "podAdminGateway", "podFactory",
    "governanceMetadataRegistry", "nopeDAO", "tribalCouncilTimelock", "tribalCouncilSafe",
    "roleBastion"}) @@
  Named("Deprecated", {
    "opsOptimisticTimelock"})

BookPcv ==
  Named("PCV", {
    "tribalCouncilTimelockFeiLens", "rariTimelockFeiOldLens", "ethToDaiLensDai",
    "ethToDaiLensEth", "ethLidoPCVDeposit", "agEurUniswapPCVDeposit", "balancerDepositFeiWeth",
    "balancerDepositBalWeth", "balancerLensBpt30Fei70Weth", "balancerLensVeBalBal",
    "balancerLensVeBalWeth"}) @@
  Named("Peg", {
    "lusdPSM", "ethPSM", "ethPSMRouter", "tribeReserveStabilizer", "ethPSMFeiSkimmer",
    "daiFixedPricePSM", "daiFixedPricePSMFeiSkimmer"}) @@
  Named("Deprecated", {
    "raiPriceBoundPSM", "dpiToDaiLensDai", "dpiToDaiLensDpi", "bammDeposit"})

BookPcvMoved ==
  Named("Deprecated", {
    "d3poolConvexPCVDeposit", "d3poolCurvePCVDeposit", "ethTokemakPCVDeposit",
    "rariPool7LusdPCVDeposit", "uniswapPCVDeposit", "compoundEthPCVDepositWrapper",
    "rariPool19FeiPCVDepositWrapper", "rariPool24FeiPCVDepositWrapper",
    "rariPool6FeiPCVDepositWrapper", "wethDepositWrapper", "agEurDepositWrapper",
    "aaveEthPCVDeposit"}) @@
  Named("PCV", {
    "aaveEthPCVDepositWrapper", "aaveFeiPCVDepositWrapper", "compoundDaiPCVDepositWrapper",
    "feiBuybackLensNoFee", "feiOATimelockWrapper", "rariPool79FeiPCVDepositWrapper",
    "rariPool128FeiPCVDepositWrapper", "rariPool22FeiPCVDepositWrapper", "voltDepositWrapper",
    "uniswapLensAgEurUniswapGauge", "compoundFeiPCVDepositWrapper"})

BookPcvWrapped ==
  Named("PCV_V1", {
    "aaveFeiPCVDeposit", "compoundDaiPCVDeposit", "indexDelegator", "rariPool22FeiPCVDeposit",
    "rariPool128FeiPCVDeposit", "rariPool8FeiPCVDeposit", "rariPool79FeiPCVDeposit",
    "gaugeLensBpt30Fei70WethGauge", "convexPoolPCVDeposit", "compoundFeiPCVDeposit",
    "agEurAngleUniswapPCVDeposit"}) @@
  Named("Deprecated", {
    "compoundEthPCVDeposit", "rariPool24FeiPCVDeposit", "rariPool19FeiPCVDeposit",
    "rariPool6FeiPCVDeposit"})

BookOracles ==
  Named("Oracle", {
    "balUsdCompositeOracle", "chainlinkBALEthOracle", "chainlinkCREAMEthOracle",
    "chainlinkDaiUsdOracleWrapper", "chainlinkDpiUsdOracleWrapper",
    "chainlinkEthUsdOracleWrapper", "chainlinkStEthUsdOracleWrapper",
    "compositeStEthEthOracle", "chainlinkEurUsdOracleWrapper", "chainlinkFeiEthOracleWrapper",
    "chainlinkLUSDOracleWrapper", "chainlinkRaiEthOracleWrapper",
    "chainlinkRaiUsdOracleWrapper", "chainlinkRaiUsdCompositeOracle",
    "chainlinkTribeEthOracleWrapper", "compositeOracle", "creamUsdCompositeOracle",
    "oneConstantOracle", "tribeUsdCompositeOracle", "zeroConstantOracle",
    "gaugeLensAgEurUniswapGauge"})

BookRewards ==
  Named("Collateralization", {
    "collateralizationOracle", "namedStaticPCVDepositWrapper"}) @@
  Named("Deprecated", {
    "collateralizationOracleGuardian", "collateralizationOracleWrapper",
    "collateralizationOracleWrapperImpl"}) @@
  Named("Turbo", {
    "rariTurboFusePool", "turboAdmin", "turboBooster", "turboMaster", "turboFusePCVDeposit"}) @@
  Named("Rewards", {
    "aaveTribeIncentivesController", "aaveTribeIncentivesControllerImpl", "erc20Dripper",
    "rariRewardsDistributorDelegate", "rariRewardsDistributorDelegator", "tribalChief",
    "tribalChiefImpl", "votiumBriber3Crvpool"}) @@
  Named("Fuse", {
    "fuseERC4626Pool8Fei", "fuseERC4626Pool18Fei"})

BookFeiRari ==
  Named("FeiRari", {
    "rariPool8ConvexD3Plugin", "rariCErc20PluginImpl", "rariPool8Comptroller",
    "rariPool8MasterOracle", "rariChainlinkPriceOracleV3", "curveLPTokenOracle",
    "gUniFuseOracle", "rariPool8Lusd", "rariPool8Dai", "rariPool8DaiIrm", "rariPool8Eth",
    "rariPool8EthIrm", "rariPool8Fei", "rariPool8FeiIrm", "rariPool8Tribe",
    "rariPool8TribeIrm", "rariPool8CTokenImpl", "rariPool8Fei3Crv", "rariPool8FeiD3",
    "rariPool146Comptroller", "rariPool146FuseAdmin", "rariPool146Eth", "fuseAdmin",
    "fuseGuardian"})

BookVolt ==
  Named("Volt", {
    "volt", "voltCore", "voltFeiSwapContract", "voltFusePCVDeposit", "voltOraclePassthrough"}) @@
  Named("Oracle", {
    "voltOracle"})

BookExternal1 ==
  Named("External", {
    "dpiToDaiLBPPool", "ethToDaiLBPPool", "veBal", "bpt80Bal20Weth", "bpt30Fei70Weth",
    "balancerMinter", "balancerGaugeController", "balancerGaugeBpt30Fei70Weth",
    "tokemakManagerRollover", "tokemakManager", "rariOpsMultisig", "aave", "aaveGovernanceV2",
    "aaveIncentivesController", "aaveLendingPool", "aFei", "aFeiStableDebt",
    "aFeiVariableDebt", "agEUR", "alusd", "angle", "angleAgEurFeiPool", "anglePoolManager",
    "angleStableMaster", "angleGaugeController"})

BookExternal2 ==
  Named("External", {
    "angleGaugeUniswapV2FeiAgEur", "veAngle", "comp", "aRai", "aWETH", "bal", "usdc",
    "balancerAdmin", "balancerAuthorizer", "balancerWeightedPoolFactory",
    "balancerLBPoolFactory", "balancerLBPoolFactoryNoFee", "balancerVault", "balancerRewards",
    "barnbridgeAFei", "bamm", "bentoBox", "chainlinkDaiUsdOracle", "chainlinkDpiUsdOracle",
    "chainlinkEthUsdOracle", "chainlinkStEthUsdOracle", "chainlinkEurUsdOracle",
    "chainlinkFeiEthOracle", "chainlinkRaiEthOracle", "chainlinkTribeEthOracle"})

BookExternal3 ==
  Named("External", {
    "communalFarm", "compoundDai", "compoundEth", "convexBooster", "convexD3poolRewards",
    "cream", "creamFei", "crv", "curve3crv", "curve3pool", "curveD3pool", "curveStethPool",
    "curveFei3crvMetapool", "cvx", "dai", "dpi", "feiEthPair", "feiLusdLBP", "feiTribeLBP",
    "feiTribePair", "fuseFeeDistributor", "fuseMultisig", "frax", "gfxAddress", "gUniFeiDaiLP"})

BookExternal4 ==
  Named("External", {
    "gUniFeiUsdcLP", "idleBestYield", "idleTranches", "idleTranchesMinter", "hypervisor",
    "index", "kashiFeiDPI", "kashiFeiEth", "kashiFeiTribe", "kashiFeiXSushi",
    "liquityFusePoolLusd", "lqty", "lusd", "masterKashi", "multisend", "rai", "rariPool18Fei",
    "rariPool19Dpi", "rariPool19Fei", "rariPool22Fei", "rariPool24Fei", "rariPool25Fei",
    "rariPool26Fei", "rariPool27Fei", "rariPool6Fei"})

BookExternal5 ==
  Named("External", {
    "rariPool7Fei", "rariPool9Fei", "rariPool9Rai", "reptb", "rgt", "saddleD4Pool",
    "snapshotDelegateRegistry", "stAAVE", "wstEth", "steth", "sushiswapDpiFei",
    "sushiswapRouter", "usd", "toke", "tToke", "tWETH", "votiumBribe", "weth",
    "orcaPodController", "orcaMemberToken", "orcaShipToken", "tribeDev1Deployer",
    "tribeDev2Deployer", "tribeDev3Deployer", "tribeDev4Deployer"})

BookDeprecated1 ==
  Named("Deprecated", {
    "feiTribeLBPSwapper", "delayedPCVMoverWethUniToBal",
    "rariGovernanceTokenSushiSwapDistributor", "pcvGuardianV1", "daiPSM", "aaveRaiPCVDeposit",
    "ethLidoPCVDepositOld", "rariPool18FeiPCVDeposit", "rariPool25FeiPCVDeposit",
    "rariPool26FeiPCVDeposit", "rariPool27FeiPCVDeposit", "rariPool19DpiPCVDeposit",
    "rariPool7FeiPCVDeposit", "rariPool9FeiPCVDeposit", "rariPool9RaiPCVDeposit",
    "rariPool28FeiPCVDeposit", "rariPool31FeiPCVDeposit", "rariPool72FeiPCVDeposit",
    "rariPool90FeiPCVDeposit", "rariPool91FeiPCVDeposit", "gaugeLensBpt30Fei70WethGaugeOld",
    "balancerLensBpt30Fei70WethOld", "dpiUniswapPCVDeposit", "liquityFusePoolLusdPCVDeposit",
    "aaveRaiPCVDepositWrapper", "creamDepositWrapper", "ethLidoPCVDepositOldWrapper",
    "ethReserveStabilizerWrapper", "rariPool146EthPCVDeposit", "rariPool8DaiPCVDeposit"})

BookDeprecated2 ==
  Named("Deprecated", {
    "rariPool8LusdPCVDeposit", "rariPool18FeiPCVDepositWrapper",
    "rariPool19DpiPCVDepositWrapper", "rariPool25FeiPCVDepositWrapper",
    "rariPool26FeiPCVDepositWrapper", "rariPool27FeiPCVDepositWrapper",
    "rariPool7FeiPCVDepositWrapper", "rariPool8FeiPCVDepositWrapper",
    "rariPool9FeiPCVDepositWrapper", "rariPool28FeiPCVDepositWrapper",
    "rariPool31FeiPCVDepositWrapper", "rariPool90FeiPCVDepositWrapper",
    "rariPool91FeiPCVDepositWrapper", "rariPool72FeiPCVDepositWrapper",
    "rariPool9RaiPCVDepositWrapper", "dpiDepositWrapper", "raiDepositWrapper",
    "autoRewardsDistributor", "d3AutoRewardsDistributor", "fei3CrvAutoRewardsDistributor",
    "rewardsDistributorAdmin", "stakingTokenWrapperBribeD3pool", "stakingTokenWrapperFOXLaaS",
    "stakingTokenWrapperGROLaaS", "stakingTokenWrapperKYLINLaaS",
    "stakingTokenWrapperMStableLaaS", "stakingTokenWrapperNEARLaaS",
    "stakingTokenWrapperPoolTogetherLaaS", "stakingTokenWrapperRari",
    "stakingTokenWrapperSYNLaaS"})

BookDeprecated3 ==
  Named("Deprecated", {
    "stakingTokenWrapperUMALaaS", "fei3CrvStakingtokenWrapper", "feiDaiStakingTokenWrapper",
    "feiUsdcStakingTokenWrapper", "feiDaiAutoRewardsDistributor",
    "feiUsdcAutoRewardsDistributor", "d3StakingTokenWrapper", "stwBulkHarvest",
    "tribalChiefSyncV2", "tribalChiefSyncExtension", "stakingTokenWrapperBribe3Crvpool",
    "votiumBriberD3pool", "aavePassthroughETH", "balDepositWrapper", "compoundPassthroughETH",
    "daiBondingCurve", "daiBondingCurveWrapper", "creamFeiPCVDeposit", "bondingCurve",
    "compoundEthPCVDripController", "ethReserveStabilizer", "creamFeiPCVDepositWrapper",
    "daiPSMFeiSkimmer", "defiPulseOTC", "dpiBondingCurve", "dpiBondingCurveWrapper",
    "ethOTCEscrow", "ethPCVDripper", "feiBalOtcEscrow", "feiBuybackLens"})

BookDeprecated4 ==
  Named("Deprecated", {
    "feiLusdLens", "feiLusdLBPSwapper", "feiOTCEscrow", "feiRewardsDistributor",
    "genesisGroup", "governorAlpha", "governorAlphaBackup", "oldEthBondingCurve",
    "oldEthReserveStabilizer", "ratioPCVController", "oldRatioPCVController",
    "raiBondingCurve", "raiBondingCurveWrapper", "staticPcvDepositWrapper",
    "staticPcvDepositWrapper2", "tribalChiefOptimisticTimelock", "tribalChiefSync",
    "tribeBalOtcEscrow", "tribeOTCEscrow", "tribeRagequit", "uniswapOracle",
    "uniswapPCVController", "uniswapRouter", "convexPoolPCVDepositWrapper", "timelock",
    "ohmEscrow", "mergerGate", "rariPool54FeiPCVDeposit", "reptbRedeemer", "kashiRedeemer"})

BookDeprecated5 ==
  Named("Deprecated", {
    "idleTranchesRedeemer", "idleRedeemer", "bbRedeemer", "podExecutor",
    "clawbackVestingContractA", "clawbackVestingContractB", "clawbackVestingContractC",
    "clawbackVestingContractBeneficiary"})

BookTBD ==
  Named("TBD", {
    "pegExchanger", "pegExchangerDripper", "newRariInfraFeiTimelock",
    "newRariInfraTribeTimelock", "laTribuFeiTimelock", "laTribuTribeTimelock",
    "rariInfraFeiTimelock", "rariInfraTribeTimelock"})

Book ==
  BookCore @@ BookUtility @@ BookGovernance @@ BookPcv @@
  BookPcvMoved @@ BookPcvWrapped @@ BookOracles @@ BookRewards @@
  BookFeiRari @@ BookVolt @@ BookExternal1 @@ BookExternal2 @@
  BookExternal3 @@ BookExternal4 @@ BookExternal5 @@ BookDeprecated1 @@
  BookDeprecated2 @@ BookDeprecated3 @@ BookDeprecated4 @@ BookDeprecated5 @@
  BookTBD

\* What the address book says is not in use any more.
Retired == {n \in DOMAIN Book : Book[n] = "Deprecated"}
=============================================================================
