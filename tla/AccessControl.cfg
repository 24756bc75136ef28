\* All lists of up to three definitions of the three roles, and all calls.
CONSTANTS
    Foreign = "FOREIGN"
    MaxDefinitions = 3
SPECIFICATION ControlSpec
INVARIANTS
    FailsFast ExpansionIsClosure ServicePolicy RestGuardsAdmitThePolicy
    OneCodePerError StatusTellsHowFar
CHECK_DEADLOCK FALSE
