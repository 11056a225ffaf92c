\* Two resets (base 0 and 10), updates 1 or 3 s apart, a restart.
CONSTANTS
    NoRow = NoRow
    Bases = {0, 10}
    Offsets <- MCOffsets
    InitRows <- MCInitRows
    TimeSteps = {1, 3}
    Horizon = 20
    MaxReschedules = 2
    MaxRestarts = 1
SPECIFICATION Spec
INVARIANT TypeOK
PROPERTY WindowsClose
