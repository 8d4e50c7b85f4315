SPECIFICATION Spec
CONSTANTS
  Upgrades <- MCUpgrades
  Genesis <- MCGenesis
  Meanwhile <- MCMeanwhile
  Names <- MCNames
  MaxActs = 1
INVARIANTS TypeOK RemovalsHitTheirTarget OneGuardianContract MatchesConfig
PROPERTIES Completes DaoRegains
\* The run ends when the coordinator has returned or thrown.
CHECK_DEADLOCK FALSE
