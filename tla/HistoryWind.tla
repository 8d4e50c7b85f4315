----------------------------- MODULE HistoryWind -----------------------------
(* What the council and the optimistic timelock executed themselves, and the  *)
(* proposals that wound the protocol down: up to TIP-117.  Names are those of *)
(* today's address book.                                                      *)
EXTENDS HistoryFuse

----------------------------------------------------------------------------
(* Register TC Proposal and grant pod metadata roles                          *)
RegisterProposalCommands == <<
  Grant("POD_METADATA_REGISTER_ROLE", "tribeDev1Deployer"),
  Grant("POD_METADATA_REGISTER_ROLE", "tribeDev4Deployer"),
  Grant("POD_METADATA_REGISTER_ROLE", "tribeDev2Deployer"),
  Grant("POD_METADATA_REGISTER_ROLE", "tribeDev3Deployer") >>

----------------------------------------------------------------------------
(* OA CR Fixes                                                                *)
OaCrFixDeploys == <<
  New("balancerLensBpt30Fei70WethOld", {"bpt30Fei70Weth", "chainlinkEthUsdOracleWrapper",
    "gaugeLensBpt30Fei70WethGaugeOld", "oneConstantOracle", "weth"}) >>

OaCrFixCommands == <<
  CountInstead("balancerLensBpt30Fei70WethV1", "balancerLensBpt30Fei70WethOld"),
  Uncount({"rariPool8FeiPCVDepositWrapper", "rariPool8DaiPCVDeposit",
    "rariPool8LusdPCVDeposit", "rariPool18FeiPCVDepositWrapper",
    "rariPool27FeiPCVDepositWrapper", "rariPool90FeiPCVDepositWrapper",
    "rariPool146EthPCVDeposit", "convexPoolPCVDepositWrapper"}) >>

OaCrFixValid ==
  Checks(
    {Counted("balancerLensBpt30Fei70WethOld")},
    {Counted(x) : x \in {"rariPool8FeiPCVDepositWrapper", "rariPool8DaiPCVDeposit",
         "rariPool8LusdPCVDeposit", "rariPool18FeiPCVDepositWrapper",
         "rariPool27FeiPCVDepositWrapper", "rariPool90FeiPCVDepositWrapper",
         "rariPool146EthPCVDeposit", "convexPoolPCVDepositWrapper",
         "balancerLensBpt30Fei70WethV1"}})

----------------------------------------------------------------------------
(* Update the TRIBE buyback Balancer LBP                                      *)
BuybackNewpoolDeploys == <<
  Born("noFeeFeiTribeLBPSwapper", {"core", "fei", "tribe", "tribeUsdCompositeOracle"},
    {AdminOf("noFeeFeiTribeLBPSwapper", "SWAP_ADMIN_ROLE")}),
  New("feiBuybackLensNoFee", {"fei", "oneConstantOracle", "tribeUsdCompositeOracle"}) >>

BuybackNewpoolCommands == <<
  Configure("pcvEquityMinter", {"noFeeFeiTribeLBPSwapper"}),
  ExitPool("feiTribeLBPSwapper", "noFeeFeiTribeLBPSwapper"),
  MintFei("noFeeFeiTribeLBPSwapper"),
  Unpause("pcvEquityMinter"),
  ForceAuction("noFeeFeiTribeLBPSwapper"),
  CountInstead("feiBuybackLens", "feiBuybackLensNoFee") >>

BuybackNewpoolValid ==
  Checks(
    {},
    {Paused("pcvEquityMinter", "all")})

BuybackNewpoolLensValid ==
  Checks(
    {Counted("feiBuybackLensNoFee")},
    {Counted("feiBuybackLens")})

----------------------------------------------------------------------------
(* Balancer Gauge Staker                                                      *)
BalancerGaugeFixDeploys == <<
  New("balancerGaugeStakerImplementation", {"balancerGaugeController", "balancerMinter",
    "core"}),
  New("balancerGaugeStaker", {"balancerGaugeController", "balancerGaugeStakerImplementation",
    "balancerMinter", "core", "proxyAdmin"}),
  New("gaugeLensBpt30Fei70WethGauge", {"balancerGaugeBpt30Fei70Weth", "balancerGaugeStaker"}),
  New("balancerLensBpt30Fei70Weth", {"chainlinkEthUsdOracleWrapper",
    "gaugeLensBpt30Fei70WethGauge", "oneConstantOracle", "weth"}) >>

BalancerGaugeFixCommands == <<
  SetSafe("pcvGuardian", {"balancerGaugeStaker"}),
  Grant("METAGOVERNANCE_GAUGE_ADMIN", "tribalCouncilTimelock"),
  ByRole("METAGOVERNANCE_GAUGE_ADMIN", "balancerGaugeStaker"),
  SafeMove("pcvGuardian", "balancerDepositFeiWeth", "balancerGaugeStaker"),
  ByRole("METAGOVERNANCE_GAUGE_ADMIN", "balancerGaugeStaker"),
  CountInstead("balancerLensBpt30Fei70WethOld", "balancerLensBpt30Fei70Weth"),
  Count({"balancerGaugeStaker"}) >>

BalancerGaugeFixValid ==
  Checks(
    {Counted("balancerLensBpt30Fei70Weth")},
    {Counted("balancerLensBpt30Fei70WethOld")})

----------------------------------------------------------------------------
(* Withdraw from the D3Pool                                                   *)
WithdrawD3PoolCommands == <<
  SafeMove("pcvGuardian", "d3poolConvexPCVDeposit", "d3poolCurvePCVDeposit"),
  SafeMove("pcvGuardian", "d3poolCurvePCVDeposit", "daiFixedPricePSM") >>

----------------------------------------------------------------------------
(* FIP-111: Reinforce PCV via ETH LBP and tighter spread                      *)
EthLbpDeploys == <<
  Born("ethToDaiLBPSwapper", {"chainlinkEthUsdOracleWrapper", "compoundDaiPCVDeposit", "core",
    "dai", "weth"}, {AdminOf("ethToDaiLBPSwapper", "SWAP_ADMIN_ROLE")}),
  New("ethToDaiLensDai", {"chainlinkDaiUsdOracleWrapper", "chainlinkEthUsdOracleWrapper",
    "dai"}),
  New("ethToDaiLensEth", {"chainlinkDaiUsdOracleWrapper", "chainlinkEthUsdOracleWrapper",
    "weth"}) >>

EthLbpCommands == <<
  SetSafe("pcvGuardian", {"ethToDaiLBPSwapper"}),
  SafeMove("pcvGuardian", "aaveEthPCVDeposit", "ethToDaiLBPSwapper"),
  SafeMove("pcvGuardian", "compoundDaiPCVDeposit", "ethToDaiLBPSwapper"),
  StartAuction("ethToDaiLBPSwapper"),
  Count({"ethToDaiLensDai"}),
  Count({"ethToDaiLensEth"}),
  ByAdmin("ethPSM") >>

EthLbpValid ==
  Checks(
    {Safe("pcvGuardian", "ethToDaiLBPSwapper")} \cup
    {Holds("PSM_ADMIN_ROLE", "tribalCouncilTimelock")} \cup
    {AdminOf("PSM_ADMIN_ROLE", "ROLE_ADMIN")},
    {})

----------------------------------------------------------------------------
(* TIP-109: Discontinue Tribe Incentives                                      *)
EndTribeIncentivesPools == <<
  Grant("TRIBAL_CHIEF_ADMIN_ROLE", "tribalCouncilTimelock"),
  SetPool(0, 1),
  SetPool(1, 0),
  SetPool(2, 0),
  SetPool(3, 0),
  SetPool(4, 0),
  SetPool(5, 0),
  SetPool(6, 0),
  SetPool(7, 0),
  SetPool(8, 0),
  SetPool(9, 0),
  SetPool(10, 0),
  SetPool(11, 0),
  SetPool(12, 0),
  SetPool(13, 0),
  SetPool(14, 0),
  SetPool(15, 0),
  SetPool(16, 0),
  SetPool(17, 0),
  ByAdmin("tribalChief") >>

EndTribeIncentivesOffices == <<
  Call("autoRewardsDistributor"),
  Call("d3AutoRewardsDistributor"),
  Call("fei3CrvAutoRewardsDistributor"),
  Call("feiDaiAutoRewardsDistributor"),
  Call("feiUsdcAutoRewardsDistributor"),
  Revoke("FUSE_ADMIN", "tribalChiefSyncV2"),
  Revoke("TRIBAL_CHIEF_ADMIN_ROLE", "tribalChiefSyncV2"),
  BecomeAdmin("rewardsDistributorAdmin", {Governor}),
  RevokeAt("rewardsDistributorAdmin", "AUTO_REWARDS_DISTRIBUTOR_ROLE",
    "feiDaiAutoRewardsDistributor"),
  RevokeAt("rewardsDistributorAdmin", "AUTO_REWARDS_DISTRIBUTOR_ROLE",
    "feiUsdcAutoRewardsDistributor"),
  RevokeAt("rewardsDistributorAdmin", "AUTO_REWARDS_DISTRIBUTOR_ROLE",
    "autoRewardsDistributor"),
  RevokeAt("rewardsDistributorAdmin", "AUTO_REWARDS_DISTRIBUTOR_ROLE",
    "d3AutoRewardsDistributor"),
  RevokeAt("rewardsDistributorAdmin", "AUTO_REWARDS_DISTRIBUTOR_ROLE",
    "fei3CrvAutoRewardsDistributor"),
  Revoke("VOTIUM_ADMIN_ROLE", "opsOptimisticTimelock"),
  Uncount({"creamDepositWrapper"}) >>

EndTribeIncentivesValid ==
  Checks(
    {Holds("TRIBAL_CHIEF_ADMIN_ROLE", "tribalCouncilTimelock")} \cup
    {Points(pid, IF pid = 0 THEN 1 ELSE 0) : pid \in 0..17},
    {Holds(r, "tribalChiefSyncV2") : r \in {"TRIBAL_CHIEF_ADMIN_ROLE", "FUSE_ADMIN"}} \cup
    {Holds("VOTIUM_ADMIN_ROLE", "opsOptimisticTimelock")} \cup
    {Pool(18, "stakingTokenWrapperBribe3Crvpool")})

EndTribeIncentivesRewardsValid ==
  Checks(
    {},
    {Holds("rewardsDistributorAdmin AUTO_REWARDS_DISTRIBUTOR_ROLE", x) : x \in
         {"autoRewardsDistributor", "d3AutoRewardsDistributor",
         "fei3CrvAutoRewardsDistributor", "feiDaiAutoRewardsDistributor",
         "feiUsdcAutoRewardsDistributor"}})

----------------------------------------------------------------------------
(* FIP-113: End Departed Rari Founders Vesting of TRIBE                       *)
ClawbackDeploys == <<
  New("newRariInfraFeiTimelock", {"fei", "rariOpsMultisig", "tribalCouncilTimelock"}),
  New("newRariInfraTribeTimelock", {"rariOpsMultisig", "tribalCouncilTimelock", "tribe"}) >>

ClawbackCommands == <<
  MintFei("newRariInfraFeiTimelock"),
  AllocateTribe("newRariInfraTribeTimelock"),
  Call("clawbackVestingContractA"),
  Call("clawbackVestingContractB"),
  Call("clawbackVestingContractC"),
  Use("tribe", {"tribalCouncilTimelock"}) >>

----------------------------------------------------------------------------
(* TIP-111: Increase FEI Stable backing to 90-100%                            *)
Tip111Deploys == <<
  New("chainlinkStEthUsdOracleWrapper", {"chainlinkStEthUsdOracle", "core"}),
  New("compositeStEthEthOracle", {"chainlinkEthUsdOracleWrapper",
    "chainlinkStEthUsdOracleWrapper", "core"}),
  New("ethLidoPCVDeposit", {"compositeStEthEthOracle", "core", "curveStethPool", "steth"}) >>

Tip111Commands == <<
  RatioWithdrawToken("ratioPCVControllerV2", "ethLidoPCVDepositOld", "steth",
    "ethLidoPCVDeposit"),
  ByRole("METAGOVERNANCE_GAUGE_ADMIN", "balancerGaugeStaker"),
  RatioWithdrawToken("ratioPCVControllerV2", "balancerGaugeStaker", "bpt30Fei70Weth",
    "balancerDepositFeiWeth"),
  ExitPool("balancerDepositFeiWeth", "balancerDepositFeiWeth"),
  RatioWithdrawToken("ratioPCVControllerV2", "balancerDepositFeiWeth", "weth",
    "aaveEthPCVDeposit"),
  Deposit("aaveEthPCVDeposit"),
  RatioWithdraw("ratioPCVControllerV2", "aaveEthPCVDeposit", "ethPSM"),
  CountInstead("ethLidoPCVDepositOldWrapper", "ethLidoPCVDeposit"),
  ExitPool("dpiToDaiLBPSwapper", "compoundDaiPCVDeposit"),
  RatioWithdrawToken("ratioPCVControllerV2", "compoundDaiPCVDeposit", "dpi",
    "tribalCouncilSafe"),
  Deposit("compoundDaiPCVDeposit") >>

----------------------------------------------------------------------------
(* TIP-115: Collateralization and Operations Updates                          *)
Tip115Deploys == <<
  New("rariTimelockFeiOldLens", {"fei", "rariInfraFeiTimelock"}),
  New("tribalCouncilTimelockFeiLens", {"fei", "tribalCouncilTimelock"}) >>

Tip115Commands == <<
  Count({"rariTimelockFeiOldLens"}),
  Count({"tribalCouncilTimelockFeiLens"}),
  Uncount({"namedStaticPCVDepositWrapper"}),
  RemoveEntry(1, "ondo"),
  RemoveEntry(0, "index"),
  Call("rariInfraFeiTimelock"),
  Call("rariInfraTribeTimelock"),
  SafeMove("pcvGuardian", "daiFixedPricePSM", "ethToDaiLBPSwapper"),
  SafeMove("pcvGuardian", "ethPSM", "ethToDaiLBPSwapper"),
  StartAuction("ethToDaiLBPSwapper"),
  Grant("SWAP_ADMIN_ROLE", "tribalCouncilSafe") >>

Tip115Valid ==
  Checks(
    {},
    {Entry(0, NamedDeposits[i]) : i \in DOMAIN NamedDeposits})

----------------------------------------------------------------------------
(* TIP-117: Oracles, Roles, and OA Cleanup                                    *)
Tip117Deploys == <<
  New("voltOracle", {"core", "oneConstantOracle", "voltOraclePassthrough"}) >>

Tip117Revokes == <<
  Revoke("MINTER_ROLE", "collateralizationOracleKeeper"),
  Revoke("MINTER_ROLE", "dpiUniswapPCVDeposit"),
  Revoke("MINTER_ROLE", "uniswapPCVDeposit"),
  Revoke("MINTER_ROLE", "balancerDepositFeiWeth"),
  Revoke("MINTER_ROLE", "optimisticMinter"),
  Revoke("PCV_CONTROLLER_ROLE", "raiPCVDripController"),
  Revoke("PCV_CONTROLLER_ROLE", "lusdPCVDripController"),
  Pause("bammDeposit"),
  RatioWithdraw("ratioPCVControllerV2", "aaveEthPCVDeposit", "ethPSM"),
  Revoke("PCV_CONTROLLER_ROLE", "aaveEthPCVDripController"),
  Pause("aaveEthPCVDeposit"),
  Revoke("ORACLE_ADMIN_ROLE", "collateralizationOracleGuardian"),
  Revoke("ORACLE_ADMIN_ROLE", "optimisticTimelock"),
  Revoke("SWAP_ADMIN_ROLE", "optimisticTimelock"),
  Revoke("FUSE_ADMIN", "optimisticTimelock"),
  Revoke("PCV_GUARDIAN_ADMIN_ROLE", "optimisticTimelock"),
  Revoke("METAGOVERNANCE_GAUGE_ADMIN", "optimisticTimelock"),
  Revoke("PCV_MINOR_PARAM_ROLE", "optimisticTimelock"),
  Revoke("TOKEMAK_DEPOSIT_ADMIN_ROLE", "optimisticTimelock") >>

Tip117Oracles == <<
  Govern("tribeReserveStabilizer", {"collateralizationOracle"}),
  Configure("pcvEquityMinter", {"collateralizationOracle"}),
  Price("volt", "voltOracle"),
  RatioWithdraw("ratioPCVControllerV2", "uniswapPCVDeposit", "ethPSM"),
  RatioWithdrawToken("ratioPCVControllerV2", "ethTokemakPCVDeposit", "toke",
    "tribalCouncilSafe"),
  ExitPool("d3poolCurvePCVDeposit", "d3poolCurvePCVDeposit"),
  RatioWithdrawToken("ratioPCVControllerV2", "d3poolCurvePCVDeposit", "fei",
    "daiFixedPricePSM"),
  RatioWithdrawToken("ratioPCVControllerV2", "d3poolCurvePCVDeposit", "frax",
    "tribalCouncilSafe"),
  RatioWithdrawToken("ratioPCVControllerV2", "d3poolCurvePCVDeposit", "alusd",
    "tribalCouncilSafe"),
  RatioWithdrawToken("ratioPCVControllerV2", "compoundEthPCVDeposit", "comp",
    "tribalCouncilSafe"),
  RatioWithdrawToken("ratioPCVControllerV2", "compoundDaiPCVDeposit", "comp",
    "tribalCouncilSafe"),
  RatioWithdrawToken("ratioPCVControllerV2", "aaveEthPCVDeposit", "stAAVE",
    "tribalCouncilSafe"),
  RatioWithdrawToken("ratioPCVControllerV2", "d3poolConvexPCVDeposit", "crv",
    "tribalCouncilSafe"),
  RatioWithdrawToken("ratioPCVControllerV2", "d3poolConvexPCVDeposit", "cvx",
    "tribalCouncilSafe"),
  RatioWithdrawToken("ratioPCVControllerV2", "bammDeposit", "lqty", "tribalCouncilTimelock"),
  RatioWithdrawToken("ratioPCVControllerV2", "raiPriceBoundPSM", "rai", "tribalCouncilSafe"),
  RatioWithdrawToken("ratioPCVControllerV2", "raiPriceBoundPSM", "fei", "daiFixedPricePSM") >>

Tip117Sweeps == <<
  Uncount({"dpiToDaiLensDai", "dpiToDaiLensDpi", "bammDeposit", "rariPool7LusdPCVDeposit",
    "rariPool6FeiPCVDepositWrapper", "rariPool19FeiPCVDepositWrapper",
    "rariPool24FeiPCVDepositWrapper", "agEurDepositWrapper", "wethDepositWrapper",
    "d3poolConvexPCVDeposit", "d3poolCurvePCVDeposit", "uniswapPCVDeposit",
    "compoundEthPCVDepositWrapper", "raiPriceBoundPSM", "balancerDepositFeiWeth",
    "balancerLensBpt30Fei70Weth", "ethTokemakPCVDeposit"}),
  UnsetSafe("pcvGuardian", {"raiPriceBoundPSM", "aaveRaiPCVDeposit", "rariPool9RaiPCVDeposit",
    "balancerDepositFeiWeth", "d3poolConvexPCVDeposit", "d3poolCurvePCVDeposit",
    "compoundEthPCVDeposit"}),
  Revoke("METAGOVERNANCE_VOTE_ADMIN", "opsOptimisticTimelock"),
  Revoke("METAGOVERNANCE_TOKEN_STAKING", "opsOptimisticTimelock"),
  Revoke("ORACLE_ADMIN_ROLE", "opsOptimisticTimelock") >>

Tip117Valid ==
  Checks(
    {},
    {Holds(r, "opsOptimisticTimelock") : r \in {"METAGOVERNANCE_VOTE_ADMIN",
         "METAGOVERNANCE_TOKEN_STAKING", "ORACLE_ADMIN_ROLE"}})

=============================================================================
