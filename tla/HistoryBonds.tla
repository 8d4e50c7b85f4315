---------------------------- MODULE HistoryBonds ----------------------------
(* The proposals of the months of the OTC trades, of the bonding curves and   *)
(* of the first PSMs: FIP-33 to FIP-56.  Names are those of today's address   *)
(* book.                                                                      *)
EXTENDS Commands

----------------------------------------------------------------------------
(* FIP-33: Balancer Treasury Swap                                             *)
Fip33Deploys == <<
  New("tribeBalOtcEscrow", {"bal", "feiDAOTimelock", "tribe"}),
  New("feiBalOtcEscrow", {"bal", "fei", "feiDAOTimelock"}) >>

Fip33Commands == <<
  AllocateTribe("tribeBalOtcEscrow"),
  MintFei("feiBalOtcEscrow"),
  Call("tribeBalOtcEscrow"),
  Call("feiBalOtcEscrow"),
  Count({"ethTokemakPCVDeposit"}) >>

----------------------------------------------------------------------------
(* FIP-33b: Deposit 200,000 BAL in the BAL/WETH pool                          *)
Fip33bDeploys == <<
  New("balancerDepositBalWeth", {"balUsdCompositeOracle", "balancerRewards", "balancerVault",
    "chainlinkEthUsdOracleWrapper", "core"}) >>

Fip33bCommands == <<
  Withdraw("aaveEthPCVDeposit", "balancerDepositBalWeth"),
  Use("bal", {"balancerDepositBalWeth"}),
  Deposit("balancerDepositBalWeth"),
  CountInstead("balDepositWrapper", "balancerDepositBalWeth") >>

Fip33bValid ==
  Checks(
    {Counted("balancerDepositBalWeth")},
    {})

----------------------------------------------------------------------------
(* FIP-37: TRIBE buybacks                                                     *)
Fip37Deploys == <<
  New("collateralizationOracleKeeper", {"collateralizationOracleWrapper", "core"}),
  New("chainlinkTribeEthOracleWrapper", {"chainlinkTribeEthOracle", "core"}),
  New("chainlinkTribeUsdCompositeOracle", {"chainlinkEthUsdOracleWrapper",
    "chainlinkTribeEthOracleWrapper", "core"}),
  Born("feiTribeLBPSwapper", {"chainlinkTribeUsdCompositeOracle", "core", "fei", "tribe"},
    {AdminOf("feiTribeLBPSwapper", "SWAP_ADMIN_ROLE")}),
  New("pcvEquityMinter", {"collateralizationOracleWrapper", "core", "feiTribeLBPSwapper"}),
  New("collateralizationOracleGuardian", {"collateralizationOracleWrapper", "core"}) >>

Fip37Commands == <<
  GovernorGrants("MINTER_ROLE", "pcvEquityMinter"),
  GovernorGrants("MINTER_ROLE", "collateralizationOracleKeeper"),
  AllocateTribe("feiTribeLBPSwapper"),
  CreateRole("ORACLE_ADMIN_ROLE", "GOVERN_ROLE"),
  SetContractAdmin("collateralizationOracle", "ORACLE_ADMIN_ROLE"),
  SetContractAdmin("collateralizationOracleWrapper", "ORACLE_ADMIN_ROLE"),
  Grant("ORACLE_ADMIN_ROLE", "collateralizationOracleGuardian"),
  CreateRole("SWAP_ADMIN_ROLE", "GOVERN_ROLE"),
  Grant("SWAP_ADMIN_ROLE", "pcvEquityMinter"),
  Grant("ORACLE_ADMIN_ROLE", "optimisticTimelock"),
  MintFei("feiTribeLBPSwapper"),
  StartAuction("feiTribeLBPSwapper") >>

Fip37Valid ==
  Checks(
    {AdminOf(x, "ORACLE_ADMIN_ROLE") : x \in {"collateralizationOracle",
         "collateralizationOracleWrapper"}} \cup
    {Holds("ORACLE_ADMIN_ROLE", x) : x \in {"collateralizationOracleGuardian",
         "optimisticTimelock"}} \cup
    {Holds("MINTER_ROLE", x) : x \in {"collateralizationOracleKeeper", "pcvEquityMinter"}},
    {Holds("ORACLE_ADMIN_ROLE", "multisig")})

----------------------------------------------------------------------------
(* FIP-38: Tokemak Reactor and Swap                                           *)
Fip38Deploys == <<
  New("ethTokemakPCVDeposit", {"core"}),
  New("tokeTokemakPCVDeposit", {"core"}) >>

Fip38Commands == <<
  AllocateTribe("optimisticTimelock"),
  Withdraw("aaveEthPCVDeposit", "aaveEthPCVDeposit"),
  WithdrawToken("aaveEthPCVDeposit", "ethTokemakPCVDeposit"),
  Withdraw("compoundEthPCVDeposit", "ethTokemakPCVDeposit"),
  Deposit("ethTokemakPCVDeposit"),
  CreateRole("TOKEMAK_DEPOSIT_ADMIN_ROLE", "GOVERN_ROLE"),
  SetContractAdmin("ethTokemakPCVDeposit", "TOKEMAK_DEPOSIT_ADMIN_ROLE"),
  SetContractAdmin("tokeTokemakPCVDeposit", "TOKEMAK_DEPOSIT_ADMIN_ROLE"),
  Grant("TOKEMAK_DEPOSIT_ADMIN_ROLE", "optimisticTimelock") >>

Fip38Valid ==
  Checks(
    {AdminOf(x, "TOKEMAK_DEPOSIT_ADMIN_ROLE") : x \in {"ethTokemakPCVDeposit",
         "tokeTokemakPCVDeposit"}} \cup
    {Holds("TOKEMAK_DEPOSIT_ADMIN_ROLE", "optimisticTimelock")},
    {})

----------------------------------------------------------------------------
(* FIP-41: LUSD Auction                                                       *)
Fip41Deploys == <<
  New("liquityFusePoolLusdPCVDeposit", {"core", "liquityFusePoolLusd", "lusd"}),
  Born("feiLusdLBPSwapper", {"core", "fei", "liquityFusePoolLusdPCVDeposit", "lusd",
    "oneConstantOracle"}, {AdminOf("feiLusdLBPSwapper", "SWAP_ADMIN_ROLE")}),
  New("feiLusdLBP", {"balancerLBPoolFactory", "fei", "feiLusdLBPSwapper", "lusd"}) >>

Fip41Commands == <<
  MintFei("feiDAOTimelock"),
  Use("fei", {"saddleD4Pool"}),
  Call("saddleD4Pool"),
  Use("lusd", {"feiLusdLBPSwapper"}),
  MintFei("feiLusdLBPSwapper"),
  ForceAuction("feiLusdLBPSwapper") >>

----------------------------------------------------------------------------
(* FIP-45: Angle Protocol Partnership                                         *)
Fip45Deploys == <<
  New("chainlinkEurUsdOracleWrapper", {"chainlinkEurUsdOracle", "core"}),
  New("agEurAngleUniswapPCVDeposit", {"angleAgEurFeiPool", "anglePoolManager",
    "angleStableMaster", "angleStakingRewards", "chainlinkEurUsdOracleWrapper", "core",
    "uniswapRouter"}) >>

Fip45Commands == <<
  GovernorGrants("MINTER_ROLE", "agEurAngleUniswapPCVDeposit"),
  MintAgToken("agEurAngleUniswapPCVDeposit"),
  Deposit("agEurAngleUniswapPCVDeposit"),
  Price("agEUR", "chainlinkEurUsdOracleWrapper"),
  Count({"agEurAngleUniswapPCVDeposit"}) >>

Fip45Valid ==
  Checks(
    {Priced("agEUR")} \cup
    {Counted("agEurAngleUniswapPCVDeposit")},
    {})

----------------------------------------------------------------------------
(* FIP-48: Update Collateralization Oracle                                    *)
Fip48Deploys == <<
  New("chainlinkLUSDOracle", {"core"}),
  New("chainlinkBALEthOracle", {"core"}),
  New("chainlinkCREAMEthOracle", {"core"}),
  New("balUsdCompositeOracle", {"chainlinkBALEthOracle", "chainlinkEthUsdOracleWrapper",
    "core"}),
  New("creamUsdCompositeOracle", {"chainlinkCREAMEthOracle", "chainlinkEthUsdOracleWrapper",
    "core"}),
  New("feiLusdLens", {"chainlinkLUSDOracle", "feiLusdLBP", "lusd", "oneConstantOracle"}),
  New("aaveFeiPCVDepositWrapper", {"aaveFeiPCVDeposit", "fei"}),
  New("creamDepositWrapper", {"cream", "feiDAOTimelock"}),
  New("balDepositWrapper", {"bal", "feiDAOTimelock"}),
  New("staticPcvDepositWrapper2", {"core"}),
  New("feiBuybackLens", {"fei", "feiTribeLBP", "oneConstantOracle",
    "tribeUsdCompositeOracle"}) >>

Fip48Commands == <<
  Prices({"lusd", "cream", "bal"}, {"chainlinkLUSDOracle", "creamUsdCompositeOracle",
    "balUsdCompositeOracle"}),
  Count({"feiLusdLens", "aaveFeiPCVDepositWrapper", "creamDepositWrapper",
    "balDepositWrapper", "rariPool7LusdPCVDeposit", "staticPcvDepositWrapper2",
    "feiBuybackLens", "liquityFusePoolLusdPCVDeposit", "rariPool90FeiPCVDeposit"}),
  Uncount({"rariPool28FeiPCVDepositWrapper", "rariPool31FeiPCVDepositWrapper",
    "staticPcvDepositWrapper"}) >>

Fip48Valid ==
  Checks(
    {Priced(x) : x \in {"lusd", "cream", "bal"}} \cup
    {Counted(x) : x \in {"feiLusdLens", "rariPool7LusdPCVDeposit",
         "liquityFusePoolLusdPCVDeposit", "aaveFeiPCVDepositWrapper", "feiBuybackLens",
         "rariPool90FeiPCVDeposit", "creamDepositWrapper", "balDepositWrapper",
         "staticPcvDepositWrapper2"}},
    {Counted(x) : x \in {"rariPool28FeiPCVDepositWrapper", "rariPool31FeiPCVDepositWrapper",
         "staticPcvDepositWrapper"}})

----------------------------------------------------------------------------
(* FIP-50: Yield improvements                                                 *)
Fip50Deploys == <<
  New("bammDeposit", {"core"}),
  New("ratioPCVControllerV2", {"core"}) >>

Fip50Commands == <<
  GovernorGrants("PCV_CONTROLLER_ROLE", "ratioPCVControllerV2"),
  Grant("SWAP_ADMIN_ROLE", "optimisticTimelock"),
  ExitPool("feiLusdLBPSwapper", "feiDAOTimelock"),
  Use("lusd", {"rariPool7LusdPCVDeposit"}),
  Deposit("rariPool7LusdPCVDeposit"),
  Use("fei", {"ratioPCVControllerV2"}),
  RatioTransfer("ratioPCVControllerV2", "fei", "optimisticTimelock"),
  Use("lusd", {"ratioPCVControllerV2"}),
  RatioTransfer("ratioPCVControllerV2", "lusd", "bammDeposit"),
  RatioWithdraw("ratioPCVControllerV2", "aaveEthPCVDeposit", "ethLidoPCVDepositOld"),
  Withdraw("compoundEthPCVDeposit", "ethLidoPCVDepositOld"),
  Deposit("ethLidoPCVDepositOld"),
  Uncount({"feiLusdLens"}),
  Count({"bammDeposit"}),
  GovernorRevokes("PCV_CONTROLLER_ROLE", "ratioPCVController") >>

----------------------------------------------------------------------------
(* FIP-51: FeiRari Merger                                                     *)
MergerDeploys == <<
  New("tribeRariDAO", {"rariTimelock", "tribe"}),
  New("pegExchanger", {"tribeRariDAO"}),
  New("tribeRagequit", {"tribeRariDAO"}),
  New("mergerGate", {}),
  New("pegExchangerDripper", {}) >>

MergerCommands == <<
  Call("mergerGate"),
  AllocateTribe("pegExchangerDripper"),
  AllocateTribe("pegExchanger"),
  GovernorGrants("MINTER_ROLE", "tribeRagequit"),
  Call("pegExchanger"),
  Call("tribeRagequit"),
  MintFei("gfxAddress") >>

MergerValid ==
  Checks(
    {Holds("rariTimelock admin", "tribeRariDAO")},
    {})

----------------------------------------------------------------------------
(* FIP-51: FeiRari Merger                                                     *)
MergerRariCommands == <<
  Call("pegExchanger"),
  Call("tribeRagequit"),
  SetPendingAdmin("rariTimelock", "tribeRariDAO"),
  AcceptFor("tribeRariDAO", "rariTimelock") >>

----------------------------------------------------------------------------
(* FIP-52: Increase DAI allocation                                            *)
Fip52Commands == <<
  ByAdmin("daiBondingCurve"),
  ByAdmin("daiBondingCurve"),
  ByAdmin("daiBondingCurve") >>

----------------------------------------------------------------------------
(* FIP-53: Farm d3Pool on Convex                                              *)
Fip53Deploys == <<
  New("d3poolCurvePCVDeposit", {"core", "curveD3pool"}),
  New("d3poolConvexPCVDeposit", {"convexBooster", "convexD3poolRewards", "core",
    "curveD3pool"}) >>

Fip53Commands == <<
  MintFei("d3poolCurvePCVDeposit"),
  Deposit("d3poolCurvePCVDeposit"),
  RatioWithdrawToken("ratioPCVController", "d3poolCurvePCVDeposit", "curveD3pool",
    "d3poolConvexPCVDeposit"),
  Deposit("d3poolConvexPCVDeposit"),
  Count({"d3poolCurvePCVDeposit"}),
  Count({"d3poolConvexPCVDeposit"}) >>

Fip53Valid ==
  Checks(
    {Counted(x) : x \in {"d3poolCurvePCVDeposit", "d3poolConvexPCVDeposit"}},
    {})

----------------------------------------------------------------------------
(* FIP-54: Permanently Revoke Burner, FIP-63: Rari Infra Funding, Maintenance *)
Fip54Deploys == <<
  New("restrictedPermissions", {"core"}),
  New("opsOptimisticTimelock", {"core", "guardianMultisig", "optimisticMultisig"}),
  Born("ethPSMFeiSkimmer", {"core", "ethPSM"}, {AdminOf("ethPSMFeiSkimmer",
    "PCV_MINOR_PARAM_ROLE")}),
  Born("daiPSMFeiSkimmer", {"core", "daiPSM"}, {AdminOf("daiPSMFeiSkimmer",
    "PCV_MINOR_PARAM_ROLE")}),
  New("rariInfraFeiTimelock", {"fei", "feiDAO", "guardianMultisig"}),
  New("rariInfraTribeTimelock", {"feiDAO", "guardianMultisig", "tribe"}) >>

Fip54Commands == <<
  Govern("fei", {"restrictedPermissions"}),
  GovernorGrants("PCV_CONTROLLER_ROLE", "ethPSMFeiSkimmer"),
  GovernorGrants("PCV_CONTROLLER_ROLE", "daiPSMFeiSkimmer"),
  AllocateTribe("rariInfraTribeTimelock"),
  MintFei("rariInfraFeiTimelock"),
  SetContractAdmin("votiumBriberD3pool", "VOTIUM_ADMIN_ROLE"),
  CreateRole("VOTIUM_ADMIN_ROLE", "GOVERN_ROLE"),
  Grant("VOTIUM_ADMIN_ROLE", "opsOptimisticTimelock") >>

Fip54Valid ==
  Checks(
    {AdminOf("votiumBriberD3pool", "VOTIUM_ADMIN_ROLE")} \cup
    {Holds("VOTIUM_ADMIN_ROLE", "opsOptimisticTimelock")},
    {})

----------------------------------------------------------------------------
(* FIP-55: PCV Guardian                                                       *)
Fip55Deploys == <<
  Born("pcvGuardianV1", {"aaveEthPCVDeposit", "compoundEthPCVDeposit", "core",
    "ethReserveStabilizer", "feiDAOTimelock"}, {Safe("pcvGuardianV1", a) : a \in
    {"feiDAOTimelock", "compoundEthPCVDeposit", "ethReserveStabilizer", "aaveEthPCVDeposit"}})
    >>

Fip55Commands == <<
  GovernorGrants("GUARDIAN_ROLE", "pcvGuardianV1"),
  GovernorGrants("PCV_CONTROLLER_ROLE", "pcvGuardianV1") >>

Fip55Valid ==
  Checks(
    {Safe("pcvGuardianV1", x) : x \in {"feiDAOTimelock", "compoundEthPCVDeposit",
         "ethReserveStabilizer", "aaveEthPCVDeposit"}},
    {})

----------------------------------------------------------------------------
(* FIP-56: Fei v2 Deployment                                                  *)
Fip56Deploys == <<
  New("tribeMinter", {"core", "erc20Dripper", "feiDAOTimelock"}),
  New("tribeReserveStabilizer", {"collateralizationOracleWrapper", "core", "tribeMinter",
    "tribeUsdCompositeOracle"}),
  Born("daiPSM", {"chainlinkDaiUsdOracleWrapper", "compoundDaiPCVDeposit", "core", "dai"},
    {AdminOf("daiPSM", "PSM_ADMIN_ROLE")}),
  New("daiPCVDripController", {"compoundDaiPCVDeposit", "core", "daiPSM"}) >>

Fip56Commands == <<
  CreateRole("TRIBE_MINTER_ROLE", "GOVERN_ROLE"),
  Grant("TRIBE_MINTER_ROLE", "tribeReserveStabilizer"),
  SetContractAdmin("tribeMinter", "TRIBE_MINTER_ROLE"),
  OwnerChanges("tribe", "tribe minter", "tribeMinter"),
  GovernorGrants("MINTER_ROLE", "daiPSM"),
  GovernorGrants("PCV_CONTROLLER_ROLE", "daiPCVDripController"),
  CreateRole("PSM_ADMIN_ROLE", "GOVERN_ROLE"),
  Withdraw("compoundDaiPCVDeposit", "daiPSM"),
  GovernorRevokes("MINTER_ROLE", "dpiBondingCurve"),
  GovernorRevokes("MINTER_ROLE", "raiBondingCurve"),
  Uncount({"dpiBondingCurveWrapper", "raiBondingCurveWrapper"}),
  Count({"daiPSM"}),
  ByAdmin("bondingCurve"),
  ByAdmin("ethReserveStabilizer"),
  SetSafe("pcvGuardianV1", {"daiPSM"}) >>

Fip56Valid ==
  Checks(
    {Holds("TRIBE_MINTER_ROLE", "tribeReserveStabilizer")} \cup
    {Holds("tribe minter", "tribeMinter")} \cup
    {AdminOf("tribeMinter", "TRIBE_MINTER_ROLE")},
    {})

Fip56PsmValid ==
  Checks(
    {Counted("daiPSM")} \cup
    {Safe("pcvGuardianV1", "daiPSM")},
    {Counted(x) : x \in {"dpiBondingCurveWrapper", "raiBondingCurveWrapper"}})

=============================================================================
