SPECIFICATION EgressSpec
CONSTANTS
    Requests = {r1, r2, r3}
    Total = 4
    Worst <- WorstCases
    Bills <- BillSizes
PROPERTIES
    NothingForwardedUnmeasured
CHECK_DEADLOCK FALSE
