SPECIFICATION Spec
CONSTANTS
    Configs <- PairConfigs
    BatchSize = 2
    MaxItems = 2
    MaxAttempts = 2
PROPERTIES ExcelKeepsRows
CHECK_DEADLOCK FALSE
