--------------------------- MODULE ProtocolConfig ----------------------------
(* What the files of src/protocol-configuration say the chain looks like: the  *)
(* end-to-end tests compare them with it after every proposal was applied.     *)
EXTENDS Naturals, Sequences

\* The holders of each role of Core.
permissions ==
  [MINTER_ROLE |-> {"feiDAOTimelock", "pcvEquityMinter", "daiFixedPricePSM", "ethPSM", "lusdPSM"},
   BURNER_ROLE |-> {},
   GOVERN_ROLE |-> {"core", "feiDAOTimelock", "roleBastion"},
   PCV_CONTROLLER_ROLE |->
     {"feiDAOTimelock", "ratioPCVControllerV2", "pcvGuardian", "daiPCVDripController",
      "ethPSMFeiSkimmer", "lusdPSMFeiSkimmer"},
   GUARDIAN_ROLE |-> {"guardianMultisig", "pcvGuardian", "pcvSentinel"},
   ORACLE_ADMIN_ROLE |-> {"tribalCouncilTimelock"},
   SWAP_ADMIN_ROLE |-> {"pcvEquityMinter", "tribalCouncilTimelock", "tribalCouncilSafe"},
   BALANCER_MANAGER_ADMIN_ROLE |-> {},
   RATE_LIMITED_MINTER_ADMIN |-> {},
   PARAMETER_ADMIN |-> {},
   PSM_ADMIN_ROLE |-> {"tribalCouncilTimelock"},
   TRIBAL_CHIEF_ADMIN_ROLE |-> {"optimisticTimelock", "tribalCouncilTimelock"},
   FUSE_ADMIN |-> {"tribalCouncilTimelock"},
   VOTIUM_ADMIN_ROLE |-> {},
   PCV_GUARDIAN_ADMIN_ROLE |-> {"tribalCouncilTimelock"},
   PCV_SAFE_MOVER_ROLE |-> {"tribalCouncilTimelock"},
   METAGOVERNANCE_VOTE_ADMIN |-> {"feiDAOTimelock", "tribalCouncilTimelock"},
   METAGOVERNANCE_TOKEN_STAKING |-> {"feiDAOTimelock"},
   METAGOVERNANCE_GAUGE_ADMIN |-> {"feiDAOTimelock", "tribalCouncilTimelock"},
   ROLE_ADMIN |-> {"feiDAOTimelock", "tribalCouncilTimelock"},
   POD_METADATA_REGISTER_ROLE |->
     {"tribalCouncilSafe", "tribeDev1Deployer", "tribeDev2Deployer", "tribeDev3Deployer",
      "tribeDev4Deployer"},
   FEI_MINT_ADMIN |-> {"feiDAOTimelock", "tribalCouncilTimelock"},
   POD_VETO_ADMIN |-> {"nopeDAO"},
   POD_ADMIN |-> {"tribalCouncilTimelock", "podFactory"},
   PCV_MINOR_PARAM_ROLE |-> {"feiDAOTimelock", "tribalCouncilTimelock"},
   TOKEMAK_DEPOSIT_ADMIN_ROLE |-> {"feiDAOTimelock", "tribalCouncilTimelock"}]

\* Where the PCV guardian may move funds to.
safeAddressesConfig ==
  {"ethToDaiLBPSwapper", "balancerGaugeStaker", "dpiToDaiLBPSwapper", "uniswapPCVDeposit",
   "raiPriceBoundPSM", "aaveRaiPCVDeposit", "rariPool9RaiPCVDeposit", "turboFusePCVDeposit",
   "veBalDelegatorPCVDeposit", "balancerDepositFeiWeth", "balancerDepositBalWeth",
   "agEurUniswapPCVDeposit", "d3poolConvexPCVDeposit", "d3poolCurvePCVDeposit", "lusdPSM",
   "daiFixedPricePSM", "aaveEthPCVDeposit", "ethPSM", "compoundEthPCVDeposit", "feiDAOTimelock"}

\* The deposits that the collateralization counts, by the token they report.
collateralizationAddresses ==
  [fei |-> {"feiOATimelockWrapper", "aaveFeiPCVDepositWrapper", "rariPool79FeiPCVDepositWrapper",
            "rariPool128FeiPCVDepositWrapper", "rariPool22FeiPCVDepositWrapper",
            "feiBuybackLensNoFee", "compoundFeiPCVDepositWrapper", "turboFusePCVDeposit",
            "rariTimelockFeiOldLens", "tribalCouncilTimelockFeiLens"},
   lusd |-> {"lusdPSM"},
   dai |-> {"compoundDaiPCVDepositWrapper", "daiFixedPricePSM", "ethToDaiLensDai"},
   bal |-> {"balancerDepositBalWeth", "balancerLensVeBalBal", "balancerGaugeStaker"},
   weth |-> {"ethLidoPCVDeposit", "ethPSM", "balancerLensVeBalWeth", "ethToDaiLensEth",
             "aaveEthPCVDepositWrapper"},
   agEUR |-> {"uniswapLensAgEurUniswapGauge", "agEurUniswapPCVDeposit"},
   volt |-> {"voltDepositWrapper"}]

\* The pools of TribalChief, in the order of their numbers from 0, and the
\* points of each.
config ==
  <<"feiTribePair", "curveFei3crvMetapool", "gUniFeiDaiLP", "stakingTokenWrapperRari",
    "stakingTokenWrapperGROLaaS", "stakingTokenWrapperFOXLaaS", "stakingTokenWrapperUMALaaS",
    "stakingTokenWrapperSYNLaaS", "stakingTokenWrapperNEARLaaS", "stakingTokenWrapperKYLINLaaS",
    "stakingTokenWrapperMStableLaaS", "stakingTokenWrapperPoolTogetherLaaS",
    "stakingTokenWrapperBribeD3pool", "d3StakingTokenWrapper", "fei3CrvStakingtokenWrapper",
    "feiDaiStakingTokenWrapper", "feiUsdcStakingTokenWrapper", "stakingTokenWrapperBribe3Crvpool">>
allocPoint == [pid \in 0..Len(config) - 1 |-> IF pid = 0 THEN 1 ELSE 0]
=============================================================================
