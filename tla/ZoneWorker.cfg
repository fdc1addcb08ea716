SPECIFICATION Spec
CONSTANTS
    MaxGen = 3
    Nothing = Nothing
INVARIANTS TypeOK ReportsAreTruthful MembershipKnownUnlessReset
PROPERTIES PlaysOwnStream FinalStopRuns ImplementsContract
CHECK_DEADLOCK FALSE
