SPECIFICATION FairSpec
CONSTANTS
    Instances = {a, b}
    MaxVersion = 3
CHECK_DEADLOCK FALSE
INVARIANTS TypeOK InstalledIsWhole
PROPERTIES OnlyUpgrades OutcomeShown
