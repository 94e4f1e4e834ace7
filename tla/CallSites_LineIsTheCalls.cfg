SPECIFICATION Spec
CONSTANTS
    Sites <- MCSites
    Extent <- TwoSections
    AddressTaken <- ThreeFunctions
INVARIANTS LineIsTheCalls
