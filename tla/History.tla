------------------------------- MODULE History -------------------------------
(* The proposals of src/proposals/description that were executed, in one order *)
(* in which each finds what it uses, and the chain before the first of them.   *)
(* What the sources do not tell is external here: the order itself, and the    *)
(* facts that the proposals use without one of them having made them so.       *)
EXTENDS HistoryBonds, HistoryCouncil, HistoryWind, ProtocolConfig, AddressBook, Functions

NoChecks == Checks({}, {})
\* The checks of one validation.
AllOf(checks) == Checks(UNION {c.holds : c \in checks}, UNION {c.absent : c \in checks})

Proposals ==
  <<
    Upgrade("fip_38", "dao", Fip38Deploys, Fip38Commands, NoChecks, Fip38Valid),
    Upgrade("fip_33", "dao", Fip33Deploys, Fip33Commands, NoChecks, NoChecks),
    Upgrade("fip_37", "dao", Fip37Deploys, Fip37Commands, NoChecks, Fip37Valid),
    Upgrade("fip_41", "dao", Fip41Deploys, Fip41Commands, NoChecks, NoChecks),
    Upgrade("fip_45", "dao", Fip45Deploys, Fip45Commands, NoChecks, Fip45Valid),
    Upgrade("fip_48", "dao", Fip48Deploys, Fip48Commands, NoChecks, Fip48Valid),
    Upgrade("fip_53", "dao", Fip53Deploys, Fip53Commands, NoChecks, Fip53Valid),
    Upgrade("fip_33b", "dao", Fip33bDeploys, Fip33bCommands, NoChecks, Fip33bValid),
    Upgrade("fip_50", "dao", Fip50Deploys, Fip50Commands, NoChecks, NoChecks),
    Upgrade("mergerRari", "rariTimelock", MergerDeploys, MergerRariCommands, NoChecks,
      NoChecks),
    Upgrade("merger", "dao", <<>>, MergerCommands, NoChecks, MergerValid),
    Upgrade("fip_52", "dao", <<>>, Fip52Commands, NoChecks, NoChecks),
    Upgrade("fip_55", "dao", Fip55Deploys, Fip55Commands, NoChecks, Fip55Valid),
    Upgrade("fip_56", "dao", Fip56Deploys, Fip56Commands, NoChecks,
      AllOf({Fip56Valid, Fip56PsmValid})),
    Upgrade("fip_61", "dao", Fip61Deploys, Fip61Commands, NoChecks, Fip61Valid),
    Upgrade("fip_60", "optimisticTimelock", Fip60Deploys, Fip60Commands, NoChecks,
      Fip60Valid),
    Upgrade("fip_60b", "optimisticTimelock", Fip60bDeploys, Fip60bMarket \o Fip60bRewards,
      NoChecks, AllOf({Fip60bMarketValid, Fip60bValid})),
    Upgrade("fip_60c", "optimisticTimelock", Fip60cDeploys, Fip60cCommands, NoChecks,
      NoChecks),
    Upgrade("fip_62", "dao", Fip62Deploys, Fip62Commands, NoChecks, Fip62Valid),
    Upgrade("fip_54", "dao", Fip54Deploys, Fip54Commands, NoChecks, Fip54Valid),
    Upgrade("fip_64", "optimisticTimelock", <<>>, Fip64Commands, NoChecks, NoChecks),
    Upgrade("fip_67", "dao", Fip67Deploys, Fip67Commands, NoChecks, Fip67Valid),
    Upgrade("fip_68", "dao", Fip68Deploys, Fip68Commands, NoChecks, NoChecks),
    Upgrade("fip_70", "dao", Fip70Deploys, Fip70Commands, NoChecks, Fip70Valid),
    Upgrade("fip_72", "dao", Fip72Deploys, Fip72Commands, NoChecks, Fip72Valid),
    Upgrade("fip_73", "dao", Fip73Deploys, Fip73Commands, Fip73Before, Fip73Valid),
    Upgrade("fip_73b", "dao", Fip73bDeploys, Fip73bCommands, NoChecks, NoChecks),
    Upgrade("fip_73d", "optimisticTimelock", <<>>, Fip73dCommands, NoChecks, NoChecks),
    Upgrade("fip_visor", "optimisticTimelock", <<>>, FipVisorCommands, NoChecks, NoChecks),
    Upgrade("fip_76a", "optimisticTimelock", <<>>, Fip76aCommands, NoChecks, NoChecks),
    Upgrade("fip_76b", "dao", Fip76bDeploys, Fip76bCommands, NoChecks, Fip76bValid),
    Upgrade("fip_77", "optimisticTimelock", <<>>, Fip77Commands, NoChecks, Fip77Valid),
    Upgrade("fip_78a", "dao", Fip78aDeploys, Fip78aRoles \o Fip78aMoves, NoChecks, NoChecks),
    Upgrade("fip_79", "dao", Fip79Deploys, Fip79Commands, NoChecks, NoChecks),
    Upgrade("fip_82", "dao", Fip82Deploys, Fip82Roles \o Fip82Members, NoChecks,
      AllOf({Fip82PodValid, Fip82RolesValid})),
    Upgrade("fip_83", "dao", Fip83Deploys, Fip83Commands, NoChecks, NoChecks),
    Upgrade("fip_84a", "dao", <<>>, Fip84aCommands, NoChecks, Fip84aValid),
    Upgrade("fip_84b", "dao", <<>>, Fip84bCommands, NoChecks, Fip84bValid),
    Upgrade("fip_84c", "dao", <<>>, Fip84cCommands, NoChecks, Fip84cValid),
    Upgrade("fip_85", "dao", <<>>, Fip85Commands, NoChecks, NoChecks),
    Upgrade("fip_87", "dao", Fip87Deploys, Fip87Commands, NoChecks, NoChecks),
    Upgrade("fip_94", "dao", <<>>, Fip94Commands, NoChecks, Fip94Valid),
    Upgrade("fip_92", "dao", Fip92Deploys, Fip92Commands, NoChecks, NoChecks),
    Upgrade("fip_97", "dao", Fip97Deploys, Fip97Commands, NoChecks, NoChecks),
    Upgrade("fip_98", "dao", <<>>, Fip98Commands, NoChecks, Fip98Valid),
    Upgrade("fip_99", "dao", Fip99Deploys, Fip99Commands, NoChecks, Fip99Valid),
    Upgrade("fip_82b", "dao", Fip82bDeploys,
      Fip82bRoles \o Fip82bAdmins \o Fip82bCouncil \o Fip82bGuardians, NoChecks,
      AllOf({Fip82bGuardianValid, Fip82bRolesValid, Fip82bAdminsValid, Fip82bCallersValid})),
    Upgrade("fip_104", "dao", Fip104Deploys, Fip104Commands, NoChecks, Fip104Valid),
    Upgrade("register_proposal", "tribalCouncilTimelock", <<>>, RegisterProposalCommands,
      NoChecks, NoChecks),
    Upgrade("oa_cr_fix", "optimisticTimelock", OaCrFixDeploys, OaCrFixCommands, NoChecks,
      OaCrFixValid),
    Upgrade("buyback_newpool", "dao", BuybackNewpoolDeploys, BuybackNewpoolCommands,
      NoChecks, AllOf({BuybackNewpoolValid, BuybackNewpoolLensValid})),
    Upgrade("balancer_gauge_fix", "tribalCouncilTimelock", BalancerGaugeFixDeploys,
      BalancerGaugeFixCommands, NoChecks, BalancerGaugeFixValid),
    Upgrade("withdraw_d3_pool", "tribalCouncilTimelock", <<>>, WithdrawD3PoolCommands,
      NoChecks, NoChecks),
    Upgrade("eth_lbp", "tribalCouncilTimelock", EthLbpDeploys, EthLbpCommands, NoChecks,
      EthLbpValid),
    Upgrade("end_tribe_incentives", "tribalCouncilTimelock", <<>>,
      EndTribeIncentivesPools \o EndTribeIncentivesOffices, NoChecks,
      AllOf({EndTribeIncentivesValid, EndTribeIncentivesRewardsValid})),
    Upgrade("clawback", "dao", ClawbackDeploys, ClawbackCommands, NoChecks, NoChecks),
    Upgrade("tip_111", "dao", Tip111Deploys, Tip111Commands, NoChecks, NoChecks),
    Upgrade("tip_115", "tribalCouncilTimelock", Tip115Deploys, Tip115Commands, NoChecks,
      Tip115Valid),
    Upgrade("tip_117", "dao", Tip117Deploys, Tip117Revokes \o Tip117Oracles \o Tip117Sweeps,
      NoChecks, Tip117Valid) >>

----------------------------------------------------------------------------
(* The chain before FIP-38. *)

\* The deposits that the collateralization oracle was deployed with and that
\* a proposal still finds in it.
CountedAtFirst ==
  {"aaveEthPCVDepositWrapper", "aaveRaiPCVDepositWrapper", "bondingCurve",
   "compoundDaiPCVDepositWrapper", "compoundEthPCVDepositWrapper", "daiBondingCurveWrapper",
   "dpiBondingCurveWrapper", "dpiUniswapPCVDeposit", "ethLidoPCVDepositOldWrapper",
   "ethReserveStabilizerWrapper", "feiOATimelockWrapper", "raiBondingCurveWrapper",
   "rariPool18FeiPCVDepositWrapper", "rariPool19DpiPCVDepositWrapper",
   "rariPool19FeiPCVDepositWrapper", "rariPool24FeiPCVDepositWrapper",
   "rariPool25FeiPCVDepositWrapper", "rariPool26FeiPCVDepositWrapper",
   "rariPool27FeiPCVDepositWrapper", "rariPool28FeiPCVDepositWrapper",
   "rariPool31FeiPCVDepositWrapper", "rariPool6FeiPCVDepositWrapper",
   "rariPool7FeiPCVDepositWrapper", "rariPool8FeiPCVDepositWrapper",
   "rariPool9FeiPCVDepositWrapper", "rariPool9RaiPCVDepositWrapper",
   "staticPcvDepositWrapper", "uniswapPCVDeposit"}

HoldersAtFirst ==
  ("BURNER_ROLE" :> {"ethReserveStabilizer"} @@
   "GOVERN_ROLE" :> {"core", "feiDAOTimelock", "timelock"} @@
   "GUARDIAN_ROLE" :> {"guardianMultisig"} @@
   "MINTER_ROLE" :> {"bondingCurve", "daiBondingCurve", "dpiBondingCurve",
        "dpiUniswapPCVDeposit", "feiDAOTimelock", "optimisticMinter",
        "raiBondingCurve", "uniswapPCVDeposit"} @@
   "PCV_CONTROLLER_ROLE" :> {"aaveEthPCVDripController", "compoundEthPCVDripController",
        "feiDAOTimelock", "ratioPCVController"} @@
   "TRIBAL_CHIEF_ADMIN_ROLE" :> {"optimisticTimelock"} @@
   "feiDAO executor" :> {"feiDAOTimelock"} @@
   "optimisticTimelock EXECUTOR_ROLE" :> {"tribalChiefSync"} @@
   "proxyAdmin owner" :> {"timelock"} @@
   "rariPool8Comptroller admin" :> {"optimisticTimelock"} @@
   "rariPool8MasterOracle admin" :> {"optimisticTimelock"} @@
   "rariTimelock itself" :> {"rariTimelock"} @@
   "rewardsDistributorAdmin AUTO_REWARDS_DISTRIBUTOR_ROLE" :> {"autoRewardsDistributor"} @@
   "timelock itself" :> {"timelock"} @@
   "tribe minter" :> {"feiDAOTimelock"})

AdminsAtFirst ==
  ("GOVERN_ROLE" :> {"BURNER_ROLE", "GOVERN_ROLE", "GUARDIAN_ROLE", "MINTER_ROLE",
        "PCV_CONTROLLER_ROLE", "TRIBAL_CHIEF_ADMIN_ROLE"} @@
   "METAGOVERNANCE_VOTE_ADMIN" :> {"indexDelegator"} @@
   "TRIBAL_CHIEF_ADMIN_ROLE" :> {"rewardsDistributorAdmin", "tribalChief"})

ChainAtFirst ==
  UNION {{Holds(r, who) : who \in HoldersAtFirst[r]} : r \in DOMAIN HoldersAtFirst}
  \cup UNION {{AdminOf(object, r) : object \in AdminsAtFirst[r]} : r \in DOMAIN AdminsAtFirst}
  \cup {Counted(d) : d \in CountedAtFirst}
  \cup {Priced(t) : t \in {"dai", "dpi", "weth", "rai", "fei"}}
  \cup UNION {{Pool(pid, config[pid + 1]), Points(pid, 1)} : pid \in 0..12}

\* What the chain must have been when a proposal was made and no proposal made it.
\* No source says when it happened: it is inferred from a command that needs it,
\* that removes what is counted, unpauses what is paused or sets the pool 17
\* (description/old/fip_60c.ts:52, fip_76b.ts:9, oa_cr_fix.ts:26,
\* buyback_newpool.ts:30, end_tribe_incentives.ts:145), and for
\* compoundFeiPCVDepositWrapper from collateralizationOracle.ts:9 alone.
BetweenProposals ==
  "fip_60c" :> {Counted(d) : d \in {"rariPool28FeiPCVDeposit", "rariPool31FeiPCVDeposit",
     "rariPool72FeiPCVDeposit", "rariPool79FeiPCVDeposit", "rariPool91FeiPCVDeposit"}} @@
  "fip_76b" :> {Paused("delayedPCVMoverWethUniToBal", "all")} @@
  "oa_cr_fix" :> {Counted(d) : d \in {"convexPoolPCVDepositWrapper",
     "compoundFeiPCVDepositWrapper"}} @@
  "buyback_newpool" :> {Paused("pcvEquityMinter", "all")} @@
  "end_tribe_incentives" :> {Pool(17, config[18]), Points(17, 1)}

\* Names that the proposals use and the address book of mainnetAddresses.ts no
\* longer has: description/old/fip_60.ts:53, dao/old/fip_45.ts:60.
NamesSinceRemoved == {"curve3Metapool", "angleStakingRewards"}

\* The names that have an address before the first proposal.
DeployedByProposals == UNION {{d.name : d \in Range(p.deploys)} : p \in Range(Proposals)}
NamesAtFirst == (DOMAIN Book \cup NamesSinceRemoved) \ DeployedByProposals
=============================================================================
