----------------------------- MODULE HistoryFuse -----------------------------
(* The proposals from the rewards of Fuse pool 8 to the delayed move of the   *)
(* Uniswap liquidity: FIP-60 to FIP-77.  Names are those of today's address   *)
(* book.                                                                      *)
EXTENDS Commands

----------------------------------------------------------------------------
(* FIP-60: FeiRari Rewards Upgrade                                            *)
Fip60Deploys == <<
  New("tribalChiefSyncExtension", {"tribalChiefSyncV2"}),
  New("d3StakingTokenWrapper", {"tribalChief"}),
  New("fei3CrvStakingtokenWrapper", {"tribalChief"}),
  Born("d3AutoRewardsDistributor", {"core", "curveD3pool", "d3StakingTokenWrapper",
    "rariPool8Comptroller", "rewardsDistributorAdmin", "tribalChief"},
    {AdminOf("d3AutoRewardsDistributor", "TRIBAL_CHIEF_ADMIN_ROLE")}),
  Born("fei3CrvAutoRewardsDistributor", {"core", "curve3Metapool",
    "fei3CrvStakingtokenWrapper", "rariPool8Comptroller", "rewardsDistributorAdmin",
    "tribalChief"}, {AdminOf("fei3CrvAutoRewardsDistributor", "TRIBAL_CHIEF_ADMIN_ROLE")}),
  Born("fuseGuardian", {"core", "rariPool8Comptroller"}, {AdminOf("fuseGuardian",
    "TRIBAL_CHIEF_ADMIN_ROLE")}) >>

Fip60Commands == <<
  Administer("rariPool8Comptroller", {"rariPool8MasterOracle"}),
  Administer("rariPool8Comptroller", {}),
  Administer("rariPool8Comptroller", {}),
  Administer("rariPool8Comptroller", {"fuseGuardian"}),
  ByGuardian("fuseGuardian"),
  ByGuardian("fuseGuardian"),
  Administer("rariPool8Comptroller", {"fuseGuardian"}),
  ByGuardian("fuseGuardian"),
  AddPool(250, "d3StakingTokenWrapper"),
  AddPool(250, "fei3CrvStakingtokenWrapper"),
  InitStake("d3StakingTokenWrapper", 13),
  InitStake("fei3CrvStakingtokenWrapper", 14),
  Call("d3AutoRewardsDistributor"),
  Call("fei3CrvAutoRewardsDistributor"),
  BecomeAdmin("rewardsDistributorAdmin", {Governor}),
  GrantAt("rewardsDistributorAdmin", "AUTO_REWARDS_DISTRIBUTOR_ROLE",
    "d3AutoRewardsDistributor"),
  GrantAt("rewardsDistributorAdmin", "AUTO_REWARDS_DISTRIBUTOR_ROLE",
    "fei3CrvAutoRewardsDistributor") >>

Fip60Valid ==
  Checks(
    {Points(13, 250), Points(14, 250)} \cup
    {Stakes("d3StakingTokenWrapper", 13), Stakes("fei3CrvStakingtokenWrapper", 14)},
    {})

----------------------------------------------------------------------------
(* FIP-60b: FeiRari Rewards Upgrade                                           *)
Fip60bDeploys == <<
  New("feiDaiStakingTokenWrapper", {"tribalChief"}),
  New("feiUsdcStakingTokenWrapper", {"tribalChief"}),
  Born("feiDaiAutoRewardsDistributor", {"core", "feiDaiStakingTokenWrapper", "gUniFeiDaiLP",
    "rariPool8Comptroller", "rewardsDistributorAdmin", "tribalChief"},
    {AdminOf("feiDaiAutoRewardsDistributor", "TRIBAL_CHIEF_ADMIN_ROLE")}),
  Born("feiUsdcAutoRewardsDistributor", {"core", "feiUsdcStakingTokenWrapper",
    "gUniFeiUsdcLP", "rariPool8Comptroller", "rewardsDistributorAdmin", "tribalChief"},
    {AdminOf("feiUsdcAutoRewardsDistributor", "TRIBAL_CHIEF_ADMIN_ROLE")}),
  Born("fuseAdmin", {"core", "rariPool8Comptroller"}, {AdminOf("fuseAdmin",
    "TRIBAL_CHIEF_ADMIN_ROLE")}) >>

Fip60bMarket == <<
  Nominate("rariPool8Comptroller", "fuseAdmin"),
  AcceptFor("fuseAdmin", "rariPool8Comptroller"),
  OwnerChanges("rariPool8MasterOracle", "rariPool8MasterOracle admin", "fuseAdmin"),
  Market("fuseAdmin", "rariPool8MasterOracle", {"gUniFeiUsdcLP", "gUniFuseOracle"}),
  Market("fuseAdmin", "rariPool8Comptroller", {"gUniFeiDaiLP", "rariPool8EthIrm",
    "rariPool8CTokenImpl"}),
  Market("fuseAdmin", "rariPool8Comptroller", {"gUniFeiUsdcLP", "rariPool8EthIrm",
    "rariPool8CTokenImpl"}),
  ByGuardian("fuseGuardian"),
  ByGuardian("fuseGuardian"),
  ByGuardian("fuseGuardian") >>

Fip60bRewards == <<
  AddPool(100, "feiDaiStakingTokenWrapper"),
  AddPool(250, "feiUsdcStakingTokenWrapper"),
  InitStake("feiDaiStakingTokenWrapper", 15),
  InitStake("feiUsdcStakingTokenWrapper", 16),
  Call("feiDaiAutoRewardsDistributor"),
  Call("feiUsdcAutoRewardsDistributor"),
  GrantAt("rewardsDistributorAdmin", "AUTO_REWARDS_DISTRIBUTOR_ROLE",
    "feiDaiAutoRewardsDistributor"),
  GrantAt("rewardsDistributorAdmin", "AUTO_REWARDS_DISTRIBUTOR_ROLE",
    "feiUsdcAutoRewardsDistributor") >>

Fip60bMarketValid ==
  Checks(
    {Holds("rariPool8Comptroller admin", "fuseAdmin")} \cup
    {Holds("rariPool8MasterOracle admin", "fuseAdmin")},
    {})

Fip60bValid ==
  Checks(
    {Points(15, 100), Points(16, 250)} \cup
    {Stakes("feiDaiStakingTokenWrapper", 15), Stakes("feiUsdcStakingTokenWrapper", 16)},
    {})

----------------------------------------------------------------------------
(* FIP-60c: FeiRari Rewards Upgrade                                           *)
Fip60cDeploys == <<
  New("rariPool90FeiPCVDepositWrapper", {"fei", "rariPool90FeiPCVDeposit"}),
  New("rariPool91FeiPCVDepositWrapper", {"fei", "rariPool91FeiPCVDeposit"}),
  New("rariPool79FeiPCVDepositWrapper", {"fei", "rariPool79FeiPCVDeposit"}),
  New("rariPool72FeiPCVDepositWrapper", {"fei", "rariPool72FeiPCVDeposit"}),
  New("rariPool128FeiPCVDepositWrapper", {"fei", "rariPool128FeiPCVDeposit"}),
  New("rariPool22FeiPCVDepositWrapper", {"fei", "rariPool22FeiPCVDeposit"}) >>

Fip60cCommands == <<
  SetPool(16, 500),
  Use("fei", {"rariPool128FeiPCVDeposit"}),
  Deposit("rariPool128FeiPCVDeposit"),
  Count({"rariPool90FeiPCVDepositWrapper", "rariPool91FeiPCVDepositWrapper",
    "rariPool79FeiPCVDepositWrapper", "rariPool72FeiPCVDepositWrapper",
    "rariPool128FeiPCVDepositWrapper", "rariPool22FeiPCVDepositWrapper",
    "rariPool28FeiPCVDepositWrapper", "rariPool31FeiPCVDepositWrapper"}),
  Uncount({"rariPool90FeiPCVDeposit", "rariPool91FeiPCVDeposit", "rariPool79FeiPCVDeposit",
    "rariPool72FeiPCVDeposit", "rariPool28FeiPCVDeposit", "rariPool31FeiPCVDeposit"}) >>

----------------------------------------------------------------------------
(* FIP-61: Maintenance and Peg Updates                                        *)
\* The entries of the wrapper that it deploys, in order.
NamedDeposits ==
  <<"idleSenior", "visor", "barnbridge", "idleYield", "index", "ondo", "kashiDpi", "kashiSushi",
    "kashiTribe", "kashiEth">>
NamedEntries == {Entry(i - 1, NamedDeposits[i]) : i \in DOMAIN NamedDeposits}

Fip61Deploys == <<
  Born("namedStaticPCVDepositWrapper", {"core"}, NamedEntries \cup
    {AdminOf("namedStaticPCVDepositWrapper", "ORACLE_ADMIN_ROLE")}),
  New("tribalChiefSyncV2", {"autoRewardsDistributor", "optimisticTimelock", "tribalChief"}) >>

Fip61Commands == <<
  CountInstead("staticPcvDepositWrapper2", "namedStaticPCVDepositWrapper"),
  Uncount({"daiBondingCurveWrapper"}),
  GovernorRevokes("MINTER_ROLE", "daiBondingCurve"),
  Pause("daiBondingCurve"),
  GovernorRevokes("MINTER_ROLE", "tribeRagequit"),
  Grant("TRIBAL_CHIEF_ADMIN_ROLE", "tribalChiefSyncV2"),
  BecomeAdmin("optimisticTimelock", {Governor, Guardian}),
  GrantAt("optimisticTimelock", "EXECUTOR_ROLE", "tribalChiefSyncV2"),
  RevokeAt("optimisticTimelock", "EXECUTOR_ROLE", "tribalChiefSync"),
  ByAdmin("daiPSM"),
  ByAdmin("daiPSM") >>

Fip61Valid ==
  Checks(
    {Counted("namedStaticPCVDepositWrapper")} \cup
    {Paused("daiBondingCurve", "all")} \cup
    {Holds("optimisticTimelock EXECUTOR_ROLE", "tribalChiefSyncV2")} \cup
    {Entry(9, "kashiEth")},
    {Counted(x) : x \in {"staticPcvDepositWrapper2", "daiBondingCurveWrapper"}} \cup
    {Holds("optimisticTimelock EXECUTOR_ROLE", "tribalChiefSync")})

----------------------------------------------------------------------------
(* FIP-62: Create ETH PSM and Deprecate Eth Reserve Stabilizer and Bonding    *)
(* Curve                                                                      *)
Fip62Deploys == <<
  Born("ethPSM", {"aaveEthPCVDeposit", "chainlinkEthUsdOracleWrapper", "core", "weth"},
    {AdminOf("ethPSM", "PSM_ADMIN_ROLE")}),
  New("ethPSMRouter", {"ethPSM", "fei"}) >>

Fip62Commands == <<
  Uncount({"ethReserveStabilizerWrapper"}),
  Uncount({"bondingCurve"}),
  Count({"ethPSM"}),
  RatioWithdraw("ratioPCVControllerV2", "ethReserveStabilizer", "aaveEthPCVDeposit"),
  Call("bondingCurve"),
  Pause("ethReserveStabilizer"),
  Pause("bondingCurve"),
  Pause("aaveEthPCVDripController"),
  Pause("compoundEthPCVDripController"),
  PausePart("ethPSM", "redeem"),
  GovernorRevokes("MINTER_ROLE", "bondingCurve"),
  GovernorGrants("MINTER_ROLE", "ethPSM"),
  GovernorRevokes("BURNER_ROLE", "ethReserveStabilizer"),
  GovernorRevokes("PCV_CONTROLLER_ROLE", "compoundEthPCVDripController"),
  Configure("aaveEthPCVDripController", {"ethPSM"}),
  ByAdmin("aaveEthPCVDripController"),
  SetSafe("pcvGuardianV1", {"ethPSM"}),
  UnsetSafe("pcvGuardianV1", {"ethReserveStabilizer"}) >>

Fip62Valid ==
  Checks(
    {Paused("ethPSM", "redeem")} \cup
    {Safe("pcvGuardianV1", "ethPSM")},
    {})

----------------------------------------------------------------------------
(* FIP-60b: FeiRari Rewards Upgrade                                           *)
Fip64Commands == <<
  Market("fuseAdmin", "rariPool8Comptroller", {"wstEth", "rariPool8EthIrm",
    "rariPool8CTokenImpl"}),
  ByGuardian("fuseGuardian"),
  ByGuardian("fuseGuardian") >>

----------------------------------------------------------------------------
(* FIP-65: Tribe ETH Fuse Pool, FIP-67: Create Backup LUSD PSM                *)
Fip67Deploys == <<
  Born("lusdPSM", {"bammDeposit", "chainlinkLUSDOracleWrapper", "core", "lusd"},
    {AdminOf("lusdPSM", "PSM_ADMIN_ROLE")}),
  New("lusdPCVDripController", {"bammDeposit", "core", "lusdPSM"}),
  Born("lusdPSMFeiSkimmer", {"core", "lusdPSM"}, {AdminOf("lusdPSMFeiSkimmer",
    "PCV_MINOR_PARAM_ROLE")}) >>

Fip67Commands == <<
  Count({"lusdPSM"}),
  Pause("lusdPCVDripController"),
  Pause("lusdPSMFeiSkimmer"),
  Pause("lusdPSM"),
  PausePart("lusdPSM", "redeem"),
  GovernorGrants("MINTER_ROLE", "lusdPSM"),
  GovernorGrants("PCV_CONTROLLER_ROLE", "lusdPCVDripController"),
  GovernorGrants("PCV_CONTROLLER_ROLE", "lusdPSMFeiSkimmer"),
  SetSafe("pcvGuardianV1", {"lusdPSM"}),
  Withdraw("compoundEthPCVDeposit", "rariPool146EthPCVDeposit"),
  Deposit("rariPool146EthPCVDeposit"),
  Count({"rariPool146EthPCVDeposit"}) >>

Fip67Valid ==
  Checks(
    {Paused(x, "all") : x \in {"lusdPCVDripController", "lusdPSM", "lusdPSMFeiSkimmer"}} \cup
    {Paused("lusdPSM", "redeem")} \cup
    {Safe("pcvGuardianV1", "lusdPSM")},
    {})

----------------------------------------------------------------------------
(* FIP-68: REPT-B Redemption and RGT Migration Future Expiry                  *)
Fip68Deploys == <<
  New("reptbRedeemer", {"fei", "reptb"}) >>

Fip68Commands == <<
  MintFei("reptbRedeemer"),
  Call("pegExchanger") >>

----------------------------------------------------------------------------
(* FIP-70: ETH/FEI Liquidity migration to Balancer                            *)
Fip70Deploys == <<
  Born("weightedBalancerPoolManagerBase", {"core"},
    {AdminOf("weightedBalancerPoolManagerBase", "BALANCER_MANAGER_ADMIN_ROLE")}),
  New("balancerFeiWethPool", {"balancerWeightedPoolFactory", "fei", "weth",
    "weightedBalancerPoolManagerBase"}),
  New("balancerDepositFeiWeth", {"balancerRewards", "balancerVault",
    "chainlinkEthUsdOracleWrapper", "core", "oneConstantOracle", "weth"}),
  New("delayedPCVMoverWethUniToBal", {"balancerDepositFeiWeth", "core",
    "ratioPCVControllerV2", "uniswapPCVDeposit"}) >>

Fip70Commands == <<
  GovernorGrants("MINTER_ROLE", "balancerDepositFeiWeth"),
  Count({"balancerDepositFeiWeth"}),
  RatioWithdraw("ratioPCVControllerV2", "uniswapPCVDeposit", "balancerDepositFeiWeth"),
  Deposit("balancerDepositFeiWeth"),
  GovernorGrants("PCV_CONTROLLER_ROLE", "delayedPCVMoverWethUniToBal") >>

Fip70Valid ==
  Checks(
    {Counted("balancerDepositFeiWeth")},
    {})

----------------------------------------------------------------------------
(* FIP-72: New DAI PSM                                                        *)
Fip72Deploys == <<
  Born("daiFixedPricePSM", {"chainlinkDaiUsdOracleWrapper", "compoundDaiPCVDeposit", "core",
    "dai"}, {AdminOf("daiFixedPricePSM", "PSM_ADMIN_ROLE")}) >>

Fip72Commands == <<
  GovernorGrants("MINTER_ROLE", "daiFixedPricePSM"),
  GovernorRevokes("MINTER_ROLE", "daiPSM"),
  GovernorRevokes("PCV_CONTROLLER_ROLE", "daiPSMFeiSkimmer"),
  Configure("daiPCVDripController", {"daiFixedPricePSM"}),
  SetSafe("pcvGuardianV1", {"daiFixedPricePSM"}),
  UnsetSafe("pcvGuardianV1", {"daiPSM"}),
  RatioWithdraw("ratioPCVControllerV2", "daiPSM", "daiFixedPricePSM"),
  RatioWithdrawToken("ratioPCVControllerV2", "daiPSM", "fei", "daiFixedPricePSM"),
  Configure("daiFixedPricePSM", {"oneConstantOracle"}),
  CountInstead("daiPSM", "daiFixedPricePSM"),
  Pause("daiPSM") >>

Fip72Valid ==
  Checks(
    {Paused("daiPSM", "all")},
    {})

----------------------------------------------------------------------------
(* FIP-73: Fei Peg Policy Changes                                             *)
Fip73Deploys == <<
  New("wethDepositWrapper", {"feiDAOTimelock", "weth"}),
  New("dpiDepositWrapper", {"dpi", "feiDAOTimelock"}),
  New("raiDepositWrapper", {"feiDAOTimelock", "rai"}),
  New("agEurDepositWrapper", {"agEUR", "feiDAOTimelock"}) >>

Fip73Commands == <<
  CreateRole("PCV_GUARDIAN_ADMIN_ROLE", "GOVERN_ROLE"),
  Grant("PCV_GUARDIAN_ADMIN_ROLE", "optimisticTimelock"),
  SetSafe("pcvGuardianV1", {"d3poolCurvePCVDeposit"}),
  SetSafe("pcvGuardianV1", {"d3poolConvexPCVDeposit"}),
  ByAdmin("ethPSM"),
  Count({"wethDepositWrapper"}),
  Count({"dpiDepositWrapper"}),
  Count({"raiDepositWrapper"}),
  Count({"agEurDepositWrapper"}),
  Grant("ORACLE_ADMIN_ROLE", "opsOptimisticTimelock") >>

Fip73Before ==
  Checks(
    {},
    {Safe("pcvGuardianV1", x) : x \in {"d3poolCurvePCVDeposit", "d3poolConvexPCVDeposit"}}
         \cup
    {Holds("PCV_GUARDIAN_ADMIN_ROLE", "optimisticTimelock")} \cup
    {Holds("ORACLE_ADMIN_ROLE", "opsOptimisticTimelock")})

Fip73Valid ==
  Checks(
    {Safe("pcvGuardianV1", x) : x \in {"d3poolCurvePCVDeposit", "d3poolConvexPCVDeposit"}}
         \cup
    {Holds("PCV_GUARDIAN_ADMIN_ROLE", "optimisticTimelock")} \cup
    {Holds("ORACLE_ADMIN_ROLE", "opsOptimisticTimelock")} \cup
    {Counted(x) : x \in {"wethDepositWrapper", "dpiDepositWrapper", "raiDepositWrapper",
         "agEurDepositWrapper"}},
    {})

----------------------------------------------------------------------------
(* FIP-73b: Contractionary Monetary Policy                                    *)
Fip73bDeploys == <<
  New("kashiRedeemer", {"optimisticTimelock"}),
  New("idleTranchesRedeemer", {"idleTranchesMinter", "optimisticTimelock"}),
  New("idleRedeemer", {"idleBestYield", "optimisticTimelock"}),
  New("bbRedeemer", {"fei", "optimisticTimelock"}) >>

\* Faulty: the entries are removed from the first on.
Fip73bCommandsAscending == <<
  Use("barnbridgeAFei", {"bbRedeemer"}),
  Use("idleBestYield", {"idleRedeemer"}),
  Use("idleTranches", {"idleTranchesRedeemer"}),
  Use("kashiFeiDPI", {"kashiRedeemer"}),
  Use("kashiFeiEth", {"kashiRedeemer"}),
  Use("kashiFeiTribe", {"kashiRedeemer"}),
  Use("kashiFeiXSushi", {"kashiRedeemer"}),
  RemoveEntry(0, "idleSenior"),
  RemoveEntry(1, "visor"),
  RemoveEntry(2, "barnbridge"),
  RemoveEntry(3, "idleYield"),
  RemoveEntry(6, "kashiDpi"),
  RemoveEntry(7, "kashiSushi"),
  RemoveEntry(8, "kashiTribe"),
  RemoveEntry(9, "kashiEth") >>

Fip73bCommands == <<
  Use("barnbridgeAFei", {"bbRedeemer"}),
  Use("idleBestYield", {"idleRedeemer"}),
  Use("idleTranches", {"idleTranchesRedeemer"}),
  Use("kashiFeiDPI", {"kashiRedeemer"}),
  Use("kashiFeiEth", {"kashiRedeemer"}),
  Use("kashiFeiTribe", {"kashiRedeemer"}),
  Use("kashiFeiXSushi", {"kashiRedeemer"}),
  RemoveEntry(9, "kashiEth"),
  RemoveEntry(8, "kashiTribe"),
  RemoveEntry(7, "kashiSushi"),
  RemoveEntry(6, "kashiDpi"),
  RemoveEntry(3, "idleYield"),
  RemoveEntry(2, "barnbridge"),
  RemoveEntry(1, "visor"),
  RemoveEntry(0, "idleSenior") >>

----------------------------------------------------------------------------
(* FIP-73d: Withdraw BentoBox                                                 *)
Fip73dCommands == <<
  Use("bentoBox", {"fei", "optimisticTimelock", "optimisticTimelock"}) >>

----------------------------------------------------------------------------
(* Visor redemption                                                           *)
FipVisorCommands == <<
  Use("hypervisor", {"optimisticTimelock", "optimisticTimelock"}) >>

----------------------------------------------------------------------------
(* FIP-76a: Add LUSD to FeiRari                                               *)
Fip76aCommands == <<
  Market("fuseAdmin", "rariPool8MasterOracle", {"lusd", "rariChainlinkPriceOracleV3"}),
  Market("fuseAdmin", "rariPool8Comptroller", {"lusd", "rariPool8DaiIrm",
    "rariPool8CTokenImpl"}),
  ByGuardian("fuseGuardian") >>

----------------------------------------------------------------------------
(* FIP-76b: Add LUSD to FeiRari                                               *)
Fip76bDeploys == <<
  New("rariPool8DaiPCVDeposit", {"core", "rariPool8Dai"}),
  New("rariPool8Lusd", {"lusd", "rariPool8Comptroller"}),
  New("rariPool8LusdPCVDeposit", {"core", "rariPool8Lusd"}) >>

Fip76bCommands == <<
  Unpause("delayedPCVMoverWethUniToBal"),
  DelayedMove("delayedPCVMoverWethUniToBal", "uniswapPCVDeposit"),
  Deposit("balancerDepositFeiWeth"),
  Withdraw("aaveEthPCVDeposit", "uniswapPCVDeposit"),
  Deposit("uniswapPCVDeposit"),
  Withdraw("compoundDaiPCVDeposit", "rariPool8DaiPCVDeposit"),
  Deposit("rariPool8DaiPCVDeposit"),
  Withdraw("bammDeposit", "rariPool8LusdPCVDeposit"),
  Deposit("rariPool8LusdPCVDeposit"),
  RatioWithdraw("ratioPCVControllerV2", "dpiUniswapPCVDeposit", "feiDAOTimelock"),
  Uncount({"rariPool7FeiPCVDepositWrapper", "rariPool9FeiPCVDepositWrapper",
    "rariPool26FeiPCVDepositWrapper", "rariPool28FeiPCVDepositWrapper",
    "rariPool91FeiPCVDepositWrapper", "dpiUniswapPCVDeposit"}),
  Count({"rariPool8DaiPCVDeposit", "rariPool8LusdPCVDeposit"}),
  SetContractAdmin("votiumBriber3Crvpool", "VOTIUM_ADMIN_ROLE") >>

Fip76bValid ==
  Checks(
    {},
    {Holds("PCV_CONTROLLER_ROLE", "delayedPCVMoverWethUniToBal")})

----------------------------------------------------------------------------
(* FIP-77: FEI-3Crv rewards                                                   *)
Fip77Commands == <<
  SetPool(1, 0),
  SetPool(14, 1000),
  ByGuardian("fuseGuardian") >>

Fip77Valid ==
  Checks(
    {Points(1, 0), Points(14, 1000)} \cup
    {Pool(14, "fei3CrvStakingtokenWrapper")},
    {})

=============================================================================
