CONSTANTS
    Signatures <- MCSignatures
    Builds <- MCBuilds
    Base = 5
    Blank = 1
    Zero = 2
    One = 3
    Spaces = {1, 4}
    Values <- MCValues
    MaxOutstanding = 2
SPECIFICATION Spec
INVARIANTS ServerGetsArguments CallerGetsResults
