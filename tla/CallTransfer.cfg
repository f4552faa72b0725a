CONSTANTS
    MaxHandlers = 1
    MaxTransfers = 2
    MaxFailures = 1
SPECIFICATION Spec
PROPERTIES CompletedStays TransferCloses HungUpEnds
CHECK_DEADLOCK FALSE
