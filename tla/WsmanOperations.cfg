SPECIFICATION CallSpec
CONSTANTS
    Kept <- KeptBranches
    Operations <- Everything
    MaxPulls = 2
    MaxRecords = 5
    PageSize = 2
    MaxEntries = 4
INVARIANTS
    OneCallback WritesInOrder OkMeansPerformed NoPartialList CompleteWhenOk
PROPERTY Settles
CHECK_DEADLOCK FALSE
