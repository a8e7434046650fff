SPECIFICATION Spec
CONSTANTS
  PortalTables <- MCPortalTables
  MapTables <- MCMapTables
  MaxMishaps = 2
  Mute <- MCMute
  Restless <- MCRestless
  Tolls <- MCTolls
INVARIANTS
  TypeOK
  GateReopens
  Answered
  OneDestination
  GateTakesNothing
