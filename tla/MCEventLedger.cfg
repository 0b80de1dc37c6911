CONSTANTS
    g1 = g1
    g2 = g2
    Agent <- MCAgent
    NoAgent = NoAgent
    None = None
    Counter <- MCCounter
    Batch <- MCBatch
    Legacy <- MCLegacy
    MaxIngests = 3
SPECIFICATION Spec
SYMMETRY MCSymmetry
INVARIANTS
    OneLinePerEvent
    LedgerValidates
    ReportedStays
    TotalsAreWhatWasMeasured
CHECK_DEADLOCK FALSE
