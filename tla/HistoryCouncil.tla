--------------------------- MODULE HistoryCouncil ---------------------------
(* The proposals that set up the Tribal Council, moved the DAO between        *)
(* timelocks and gave the council its roles: FIP-78 to FIP-104.  Names are    *)
(* those of today's address book.                                             *)
EXTENDS Commands

----------------------------------------------------------------------------
(* FIP-45a: ANGLE Meta-governance                                             *)
Fip78aDeploys == <<
  New("angleDelegatorPCVDeposit", {"core"}),
  New("agEurUniswapPCVDeposit", {"angleAgEurFeiPool", "chainlinkEurUsdOracleWrapper", "core",
    "uniswapRouter"}),
  New("gaugeLensAgEurUniswapGauge", {"angleDelegatorPCVDeposit",
    "angleGaugeUniswapV2FeiAgEur"}),
  New("uniswapLensAgEurUniswapGauge", {"chainlinkEurUsdOracleWrapper", "core",
    "gaugeLensAgEurUniswapGauge"}) >>

Fip78aRoles == <<
  CreateRole("METAGOVERNANCE_VOTE_ADMIN", "GOVERN_ROLE"),
  SetContractAdmin("indexDelegator", "METAGOVERNANCE_VOTE_ADMIN"),
  Grant("METAGOVERNANCE_VOTE_ADMIN", "feiDAOTimelock"),
  Grant("METAGOVERNANCE_VOTE_ADMIN", "opsOptimisticTimelock"),
  CreateRole("METAGOVERNANCE_TOKEN_STAKING", "GOVERN_ROLE"),
  Grant("METAGOVERNANCE_TOKEN_STAKING", "feiDAOTimelock"),
  Grant("METAGOVERNANCE_TOKEN_STAKING", "opsOptimisticTimelock"),
  CreateRole("METAGOVERNANCE_GAUGE_ADMIN", "GOVERN_ROLE"),
  Grant("METAGOVERNANCE_GAUGE_ADMIN", "feiDAOTimelock"),
  Grant("METAGOVERNANCE_GAUGE_ADMIN", "optimisticTimelock") >>

Fip78aMoves == <<
  RatioWithdrawToken("ratioPCVControllerV2", "agEurAngleUniswapPCVDeposit", "angle",
    "angleDelegatorPCVDeposit"),
  RatioWithdraw("ratioPCVControllerV2", "agEurAngleUniswapPCVDeposit",
    "agEurUniswapPCVDeposit"),
  GovernorRevokes("MINTER_ROLE", "agEurAngleUniswapPCVDeposit"),
  MintFei("agEurUniswapPCVDeposit"),
  Deposit("agEurUniswapPCVDeposit"),
  RatioWithdrawToken("ratioPCVControllerV2", "agEurUniswapPCVDeposit", "angleAgEurFeiPool",
    "angleDelegatorPCVDeposit"),
  ByRole("METAGOVERNANCE_TOKEN_STAKING", "angleDelegatorPCVDeposit"),
  ByRole("METAGOVERNANCE_GAUGE_ADMIN", "angleDelegatorPCVDeposit"),
  ByRole("METAGOVERNANCE_VOTE_ADMIN", "angleDelegatorPCVDeposit"),
  ByRole("METAGOVERNANCE_GAUGE_ADMIN", "angleDelegatorPCVDeposit"),
  Count({"uniswapLensAgEurUniswapGauge", "agEurUniswapPCVDeposit"}),
  SetSafe("pcvGuardianV1", {"agEurUniswapPCVDeposit"}),
  Uncount({"agEurAngleUniswapPCVDeposit"}) >>

----------------------------------------------------------------------------
(* FIP-79: Tribe x Olympus Partnership                                        *)
Fip79Deploys == <<
  New("ohmEscrow", {"feiDAOTimelock", "tribe"}) >>

Fip79Commands == <<
  AllocateTribe("feiDAOTimelock"),
  Use("tribe", {"ohmEscrow"}),
  Call("ohmEscrow") >>

----------------------------------------------------------------------------
(* FIP-82: Deploy TribalCouncil                                               *)
\* The offices of the timelock of a pod: what PodFactory gives on its creation.
CouncilOffices ==
  {Holds("tribalCouncilTimelock PROPOSER_ROLE", "tribalCouncilSafe"),
   Holds("tribalCouncilTimelock admin", "tribalCouncilTimelock")}
  \cup {Holds("tribalCouncilTimelock EXECUTOR_ROLE", x) : x \in {"tribalCouncilSafe", "podExecutor"}}
  \cup {Holds("tribalCouncilTimelock CANCELLER_ROLE", x) :
            x \in {"tribalCouncilSafe", "podAdminGateway"}}

Fip82Deploys == <<
  New("podExecutor", {"core"}),
  New("podFactory", {"core", "orcaMemberToken", "orcaPodController", "podExecutor"}),
  New("podAdminGateway", {"core", "orcaMemberToken", "podFactory"}),
  Born("tribalCouncilTimelock", {"podFactory", "podAdminGateway"}, CouncilOffices),
  New("tribalCouncilSafe", {"podFactory", "podAdminGateway"}),
  New("governanceMetadataRegistry", {"core"}),
  New("roleBastion", {"core"}),
  New("nopeDAO", {"core", "tribe"}) >>

Fip82Roles == <<
  CreateRole("ROLE_ADMIN", "GOVERN_ROLE"),
  CreateRole("POD_ADMIN", "ROLE_ADMIN"),
  CreateRole("POD_VETO_ADMIN", "ROLE_ADMIN"),
  CreateRole("POD_METADATA_REGISTER_ROLE", "ROLE_ADMIN"),
  Grant("ROLE_ADMIN", "feiDAOTimelock"),
  Grant("ROLE_ADMIN", "tribalCouncilTimelock"),
  Grant("POD_ADMIN", "tribalCouncilTimelock"),
  Grant("POD_METADATA_REGISTER_ROLE", "tribalCouncilSafe"),
  Grant("GOVERN_ROLE", "roleBastion"),
  Grant("POD_VETO_ADMIN", "nopeDAO"),
  Grant("POD_ADMIN", "podFactory") >>

Fip82Members == <<
  ByPodAdmin("podAdminGateway", {}),
  ByPodAdmin("podAdminGateway", {"GUARDIAN_ROLE", "POD_VETO_ADMIN"}),
  ByPodAdmin("podAdminGateway", {}) >>

Fip82PodValid ==
  Checks(
    {Holds("tribalCouncilTimelock CANCELLER_ROLE", x) : x \in {"podAdminGateway",
         "tribalCouncilSafe"}} \cup
    {Holds("tribalCouncilTimelock PROPOSER_ROLE", "tribalCouncilSafe")} \cup
    {Holds("tribalCouncilTimelock EXECUTOR_ROLE", x) : x \in {"tribalCouncilSafe",
         "podExecutor"}},
    {Holds("tribalCouncilTimelock PROPOSER_ROLE", "podAdminGateway")})

Fip82RolesValid ==
  Checks(
    {Holds("ROLE_ADMIN", x) : x \in {"feiDAOTimelock", "tribalCouncilTimelock"}} \cup
    {Holds("POD_ADMIN", x) : x \in {"tribalCouncilTimelock", "podFactory"}} \cup
    {Holds("POD_METADATA_REGISTER_ROLE", "tribalCouncilSafe")} \cup
    {Holds("GOVERN_ROLE", "roleBastion")} \cup
    {Holds("POD_VETO_ADMIN", "nopeDAO")},
    {})

----------------------------------------------------------------------------
(* FIP-83: La Tribu (hiring devs from DAO)                                    *)
Fip83Deploys == <<
  New("laTribuFeiTimelock", {"fei", "feiDAOTimelock"}),
  New("laTribuTribeTimelock", {"feiDAOTimelock", "tribe"}) >>

Fip83Commands == <<
  AllocateTribe("laTribuTribeTimelock"),
  MintFei("laTribuFeiTimelock") >>

----------------------------------------------------------------------------
(* FIP-84a: Change FEI DAO timelock to previous timelock. Grant Rari timelock *)
(* governor                                                                   *)
Fip84aCommands == <<
  Grant("GOVERN_ROLE", "rariTimelock"),
  GovernorRevokes("GOVERN_ROLE", "timelock"),
  OwnerChanges("feiDAO", "feiDAO executor", "timelock") >>

Fip84aValid ==
  Checks(
    {Holds("GOVERN_ROLE", "rariTimelock")} \cup
    {Holds("feiDAO executor", "timelock")},
    {Holds("GOVERN_ROLE", "timelock")})

----------------------------------------------------------------------------
(* FIP-84b: Restore newTimelock to FeiDAO                                     *)
\* Faulty: the executor of the DAO is left.
Fip84bKeepsExecutor == <<
  OwnerChanges("proxyAdmin", "proxyAdmin owner", "feiDAOTimelock"),
  By({"timelock itself"}, "timelock"),
  SetPendingAdmin("timelock", "feiDAOTimelock") >>

Fip84bCommands == <<
  OwnerChanges("proxyAdmin", "proxyAdmin owner", "feiDAOTimelock"),
  By({"timelock itself"}, "timelock"),
  SetPendingAdmin("timelock", "feiDAOTimelock"),
  OwnerChanges("feiDAO", "feiDAO executor", "feiDAOTimelock") >>

Fip84bValid ==
  Checks(
    {Holds("proxyAdmin owner", "feiDAOTimelock")} \cup
    {Holds("timelock pending admin", "feiDAOTimelock")} \cup
    {Holds("feiDAO executor", "feiDAOTimelock")},
    {})

----------------------------------------------------------------------------
(* FIP-84c: Accept newTimelock admin as the admin for the oldTimelock         *)
Fip84cCommands == <<
  AcceptAdmin("timelock") >>

Fip84cValid ==
  Checks(
    {Holds("timelock admin", "feiDAOTimelock")},
    {})

----------------------------------------------------------------------------
(* FIP-85: Kill RGT rewards on RGT/ETH SushiSwap pair                         *)
Fip85Commands == <<
  Use("rariGovernanceProxyAdmin", {"rariGovernanceTokenSushiSwapDistributor"}),
  Call("rariGovernanceTokenSushiSwapDistributor"),
  Call("rariGovernanceTokenSushiSwapDistributor"),
  Use("rariGovernanceTokenSushiSwapDistributor", {"rariTimelock"}),
  Call("rariGovernanceTokenSushiSwapDistributor") >>

----------------------------------------------------------------------------
(* FIP-87: PCV Sentinel                                                       *)
Fip87Deploys == <<
  New("sentinel", {"core"}) >>

Fip87Commands == <<
  Grant("GUARDIAN_ROLE", "pcvSentinel") >>

----------------------------------------------------------------------------
(* FIP-94: Remove GOVERN_ROLE role from Rari timelock                         *)
Fip94Commands == <<
  Revoke("GOVERN_ROLE", "rariTimelock") >>

Fip94Valid ==
  Checks(
    {},
    {Holds("GOVERN_ROLE", "rariTimelock")})

----------------------------------------------------------------------------
(* FIP-92: Vote-escrow BAL                                                    *)
Fip92Deploys == <<
  New("veBalDelegatorPCVDeposit", {"core"}),
  New("gaugeLensBpt30Fei70WethGaugeOld", {"balancerGaugeBpt30Fei70Weth",
    "veBalDelegatorPCVDeposit"}),
  New("balancerLensBpt30Fei70WethV1", {"chainlinkEthUsdOracleWrapper",
    "gaugeLensBpt30Fei70WethGaugeOld", "oneConstantOracle", "weth"}),
  New("balancerLensVeBalBal", {"bal", "balUsdCompositeOracle", "chainlinkEthUsdOracleWrapper",
    "veBalDelegatorPCVDeposit"}),
  New("balancerLensVeBalWeth", {"balUsdCompositeOracle", "chainlinkEthUsdOracleWrapper",
    "veBalDelegatorPCVDeposit", "weth"}) >>

Fip92Commands == <<
  RatioWithdrawToken("ratioPCVControllerV2", "balancerDepositFeiWeth", "bal",
    "balancerDepositBalWeth"),
  Deposit("balancerDepositBalWeth"),
  RatioWithdrawToken("ratioPCVControllerV2", "balancerDepositBalWeth", "bpt80Bal20Weth",
    "veBalDelegatorPCVDeposit"),
  ByRole("METAGOVERNANCE_TOKEN_STAKING", "veBalDelegatorPCVDeposit"),
  ByRole("METAGOVERNANCE_GAUGE_ADMIN", "veBalDelegatorPCVDeposit"),
  ByRole("METAGOVERNANCE_VOTE_ADMIN", "veBalDelegatorPCVDeposit"),
  RatioWithdrawToken("ratioPCVControllerV2", "balancerDepositFeiWeth", "bpt30Fei70Weth",
    "veBalDelegatorPCVDeposit"),
  ByRole("METAGOVERNANCE_GAUGE_ADMIN", "veBalDelegatorPCVDeposit"),
  Count({"balancerLensBpt30Fei70WethV1", "balancerLensVeBalBal", "balancerLensVeBalWeth"}),
  SetSafe("pcvGuardianV1", {"balancerDepositBalWeth", "balancerDepositFeiWeth",
    "veBalDelegatorPCVDeposit"}) >>

----------------------------------------------------------------------------
(* FIP-97: Seed Turbo fuse pool with 10M Fei                                  *)
Fip97Deploys == <<
  New("turboFusePCVDeposit", {"core", "rariTurboFusePool"}) >>

Fip97Commands == <<
  Use("fei", {"turboFusePCVDeposit"}),
  Deposit("turboFusePCVDeposit"),
  Count({"turboFusePCVDeposit"}) >>

----------------------------------------------------------------------------
(* FIP-98: Purchase 10m VOLT                                                  *)
Fip98Commands == <<
  MintFei("feiDAOTimelock"),
  Use("fei", {"voltFeiSwapContract"}),
  Call("voltFeiSwapContract"),
  Price("volt", "voltOraclePassthrough"),
  Count({"voltDepositWrapper"}),
  SetSafe("pcvGuardianV1", {"turboFusePCVDeposit"}) >>

Fip98Valid ==
  Checks(
    {Priced("volt")} \cup
    {Counted("voltDepositWrapper")} \cup
    {Safe("pcvGuardianV1", "turboFusePCVDeposit")},
    {})

----------------------------------------------------------------------------
(* FIP-99: Sell RAI                                                           *)
Fip99Deploys == <<
  New("raiUsdChainlinkOracleWrapper", {"core"}),
  Born("raiPriceBoundPSM", {"chainlinkRaiUsdOracleWrapper", "core", "feiDAOTimelock", "rai"},
    {AdminOf("raiPriceBoundPSM", "PSM_ADMIN_ROLE")}),
  New("raiPCVDripController", {"aaveRaiPCVDeposit", "core", "raiPriceBoundPSM"}) >>

Fip99Commands == <<
  RatioWithdraw("ratioPCVControllerV2", "rariPool9RaiPCVDeposit", "aaveRaiPCVDeposit"),
  Deposit("aaveRaiPCVDeposit"),
  GovernorGrants("PCV_CONTROLLER_ROLE", "raiPCVDripController"),
  PausePart("raiPriceBoundPSM", "mint"),
  SetSafe("pcvGuardianV1", {"rariPool9RaiPCVDeposit", "aaveRaiPCVDeposit", "raiPriceBoundPSM"}),
  Count({"raiPriceBoundPSM"}) >>

Fip99Valid ==
  Checks(
    {Paused("raiPriceBoundPSM", "mint")} \cup
    {Safe("pcvGuardianV1", x) : x \in {"rariPool9RaiPCVDeposit", "aaveRaiPCVDeposit"}},
    {Paused("raiPriceBoundPSM", "redeem")})

----------------------------------------------------------------------------
(* FIP-82b: Authorise the TribalCouncil with necessary roles                  *)
Fip82bDeploys == <<
  CopyOf("pcvGuardian", {"core", "pcvGuardianV1"}, "pcvGuardianV1") >>

Fip82bRoles == <<
  CreateRole("PARAMETER_ADMIN", "ROLE_ADMIN"),
  CreateRole("RATE_LIMITED_MINTER_ADMIN", "ROLE_ADMIN"),
  CreateRole("ORACLE_ADMIN_ROLE", "ROLE_ADMIN"),
  CreateRole("BALANCER_MANAGER_ADMIN_ROLE", "ROLE_ADMIN"),
  CreateRole("TRIBAL_CHIEF_ADMIN_ROLE", "ROLE_ADMIN"),
  CreateRole("PCV_GUARDIAN_ADMIN_ROLE", "ROLE_ADMIN"),
  CreateRole("METAGOVERNANCE_VOTE_ADMIN", "ROLE_ADMIN"),
  CreateRole("METAGOVERNANCE_TOKEN_STAKING", "ROLE_ADMIN"),
  CreateRole("METAGOVERNANCE_GAUGE_ADMIN", "ROLE_ADMIN"),
  CreateRole("SWAP_ADMIN_ROLE", "ROLE_ADMIN"),
  CreateRole("VOTIUM_ADMIN_ROLE", "ROLE_ADMIN"),
  CreateRole("FUSE_ADMIN", "ROLE_ADMIN"),
  CreateRole("FEI_MINT_ADMIN", "ROLE_ADMIN"),
  CreateRole("PCV_MINOR_PARAM_ROLE", "ROLE_ADMIN"),
  CreateRole("PSM_ADMIN_ROLE", "ROLE_ADMIN"),
  CreateRole("PCV_SAFE_MOVER_ROLE", "ROLE_ADMIN") >>

Fip82bAdmins == <<
  SetContractAdmin("fuseGuardian", "FUSE_ADMIN"),
  SetContractAdmin("optimisticMinter", "FEI_MINT_ADMIN"),
  SetContractAdmin("pcvEquityMinter", "FEI_MINT_ADMIN"),
  SetContractAdmin("ethTokemakPCVDeposit", "TOKEMAK_DEPOSIT_ADMIN_ROLE"),
  SetContractAdmin("uniswapPCVDeposit", "PCV_MINOR_PARAM_ROLE"),
  SetContractAdmin("lusdPSMFeiSkimmer", "PCV_MINOR_PARAM_ROLE"),
  SetContractAdmin("ethPSMFeiSkimmer", "PCV_MINOR_PARAM_ROLE"),
  SetContractAdmin("aaveEthPCVDripController", "PCV_MINOR_PARAM_ROLE"),
  SetContractAdmin("daiPCVDripController", "PCV_MINOR_PARAM_ROLE"),
  SetContractAdmin("lusdPCVDripController", "PCV_MINOR_PARAM_ROLE") >>

Fip82bCouncil == <<
  Grant("FUSE_ADMIN", "tribalCouncilTimelock"),
  Grant("METAGOVERNANCE_VOTE_ADMIN", "tribalCouncilTimelock"),
  Grant("TOKEMAK_DEPOSIT_ADMIN_ROLE", "tribalCouncilTimelock"),
  Grant("TOKEMAK_DEPOSIT_ADMIN_ROLE", "feiDAOTimelock"),
  Grant("FEI_MINT_ADMIN", "tribalCouncilTimelock"),
  Grant("PCV_MINOR_PARAM_ROLE", "tribalCouncilTimelock"),
  Grant("ORACLE_ADMIN_ROLE", "tribalCouncilTimelock"),
  Grant("PSM_ADMIN_ROLE", "tribalCouncilTimelock"),
  Grant("PCV_MINOR_PARAM_ROLE", "feiDAOTimelock"),
  Grant("PCV_MINOR_PARAM_ROLE", "optimisticTimelock"),
  Grant("FUSE_ADMIN", "optimisticTimelock"),
  Grant("FUSE_ADMIN", "tribalChiefSyncV2"),
  Grant("FEI_MINT_ADMIN", "feiDAOTimelock"),
  Grant("TOKEMAK_DEPOSIT_ADMIN_ROLE", "optimisticTimelock"),
  Grant("PCV_SAFE_MOVER_ROLE", "tribalCouncilTimelock"),
  Grant("PCV_GUARDIAN_ADMIN_ROLE", "tribalCouncilTimelock") >>

Fip82bGuardians == <<
  Grant("PCV_CONTROLLER_ROLE", "pcvGuardian"),
  Grant("GUARDIAN_ROLE", "pcvGuardian"),
  Revoke("PCV_CONTROLLER_ROLE", "pcvGuardianV1"),
  Revoke("GUARDIAN_ROLE", "pcvGuardianV1") >>

Fip82bGuardianValid ==
  Checks(
    {Safe("pcvGuardian", x) : x \in {"feiDAOTimelock", "compoundEthPCVDeposit", "ethPSM",
         "aaveEthPCVDeposit", "daiFixedPricePSM", "lusdPSM", "d3poolCurvePCVDeposit",
         "d3poolConvexPCVDeposit", "agEurUniswapPCVDeposit", "balancerDepositBalWeth",
         "balancerDepositFeiWeth", "veBalDelegatorPCVDeposit", "turboFusePCVDeposit",
         "rariPool9RaiPCVDeposit", "aaveRaiPCVDeposit", "raiPriceBoundPSM"}} \cup
    {Holds(r, "pcvGuardian") : r \in {"GUARDIAN_ROLE", "PCV_CONTROLLER_ROLE"}},
    {Holds(r, "pcvGuardianV1") : r \in {"GUARDIAN_ROLE", "PCV_CONTROLLER_ROLE"}})

Fip82bRolesValid ==
  Checks(
    {AdminOf(x, "ROLE_ADMIN") : x \in {"RATE_LIMITED_MINTER_ADMIN", "PARAMETER_ADMIN",
         "ORACLE_ADMIN_ROLE", "TRIBAL_CHIEF_ADMIN_ROLE", "PCV_GUARDIAN_ADMIN_ROLE",
         "METAGOVERNANCE_VOTE_ADMIN", "METAGOVERNANCE_TOKEN_STAKING",
         "METAGOVERNANCE_GAUGE_ADMIN", "SWAP_ADMIN_ROLE", "VOTIUM_ADMIN_ROLE",
         "BALANCER_MANAGER_ADMIN_ROLE", "FUSE_ADMIN", "FEI_MINT_ADMIN",
         "PCV_MINOR_PARAM_ROLE", "PSM_ADMIN_ROLE", "PCV_SAFE_MOVER_ROLE"}},
    {})

Fip82bAdminsValid ==
  Checks(
    {AdminOf("fuseGuardian", "FUSE_ADMIN")} \cup
    {AdminOf(x, "FEI_MINT_ADMIN") : x \in {"optimisticMinter", "pcvEquityMinter"}} \cup
    {AdminOf("indexDelegator", "METAGOVERNANCE_VOTE_ADMIN")} \cup
    {AdminOf("ethTokemakPCVDeposit", "TOKEMAK_DEPOSIT_ADMIN_ROLE")} \cup
    {AdminOf(x, "PCV_MINOR_PARAM_ROLE") : x \in {"uniswapPCVDeposit", "lusdPSMFeiSkimmer",
         "ethPSMFeiSkimmer", "aaveEthPCVDripController", "daiPCVDripController",
         "lusdPCVDripController"}},
    {})

Fip82bCallersValid ==
  Checks(
    {Holds("FUSE_ADMIN", x) : x \in {"optimisticTimelock", "tribalChiefSyncV2"}} \cup
    {Holds("FEI_MINT_ADMIN", "feiDAOTimelock")} \cup
    {Holds(r, x) : r \in {"PCV_MINOR_PARAM_ROLE", "TOKEMAK_DEPOSIT_ADMIN_ROLE"},
                 x \in {"feiDAOTimelock", "optimisticTimelock"}} \cup
    {Holds(r, "tribalCouncilTimelock") : r \in {"FUSE_ADMIN", "FEI_MINT_ADMIN",
         "PCV_MINOR_PARAM_ROLE", "PCV_GUARDIAN_ADMIN_ROLE", "ORACLE_ADMIN_ROLE",
         "PSM_ADMIN_ROLE", "PCV_SAFE_MOVER_ROLE", "TOKEMAK_DEPOSIT_ADMIN_ROLE"}},
    {})

----------------------------------------------------------------------------
(* FIP-104: Reinforce PCV by consolidating assets and perform technical       *)
(* maintenance                                                                *)
Fip104Deploys == <<
  Born("daiFixedPricePSMFeiSkimmer", {"core", "daiFixedPricePSM"},
    {AdminOf("daiFixedPricePSMFeiSkimmer", "PCV_MINOR_PARAM_ROLE")}),
  Born("dpiToDaiLBPSwapper", {"chainlinkDpiUsdOracleWrapper", "compoundDaiPCVDeposit", "core",
    "dai", "dpi"}, {AdminOf("dpiToDaiLBPSwapper", "SWAP_ADMIN_ROLE")}),
  New("dpiToDaiLensDai", {"chainlinkDaiUsdOracleWrapper", "chainlinkDpiUsdOracleWrapper",
    "dai"}),
  New("dpiToDaiLensDpi", {"chainlinkDaiUsdOracleWrapper", "chainlinkDpiUsdOracleWrapper",
    "dpi"}) >>

Fip104Commands == <<
  SetSafe("pcvGuardian", {"uniswapPCVDeposit", "dpiToDaiLBPSwapper"}),
  Use("dpi", {"dpiToDaiLBPSwapper"}),
  Withdraw("compoundDaiPCVDeposit", "dpiToDaiLBPSwapper"),
  Govern("dpiToDaiLBPSwapper", {}),
  ForceAuction("dpiToDaiLBPSwapper"),
  Count({"dpiToDaiLensDai"}),
  Count({"dpiToDaiLensDpi"}),
  Uncount({"rariPool31FeiPCVDepositWrapper", "rariPool25FeiPCVDepositWrapper",
    "rariPool9RaiPCVDepositWrapper", "aaveRaiPCVDepositWrapper",
    "rariPool19DpiPCVDepositWrapper", "liquityFusePoolLusdPCVDeposit",
    "rariPool72FeiPCVDepositWrapper", "raiDepositWrapper", "dpiDepositWrapper"}),
  Grant("SWAP_ADMIN_ROLE", "tribalCouncilTimelock"),
  By({Governor}, "nopeDAO"),
  Use("cream", {"tribalCouncilSafe"}),
  Use("weth", {"aaveEthPCVDeposit"}),
  Deposit("aaveEthPCVDeposit"),
  Withdraw("compoundEthPCVDeposit", "tribalCouncilSafe") >>

Fip104Valid ==
  Checks(
    {Safe("pcvGuardian", x) : x \in {"uniswapPCVDeposit", "dpiToDaiLBPSwapper"}} \cup
    {Holds("SWAP_ADMIN_ROLE", "tribalCouncilTimelock")} \cup
    {AdminOf("SWAP_ADMIN_ROLE", "ROLE_ADMIN")},
    {})

=============================================================================
