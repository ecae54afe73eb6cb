SPECIFICATION Spec
CONSTANTS
    Reg = {1, 2}
    r = 1
    s = 2
    MaxReg = 12
    Register = {0, 1, 2, 3, 4, 5, 6, 7, 8, 9, 10, 11, 12}
    FirstRotating = 13
    MaxLaps = 3
    Sources <- Counters
    Iterations = 3
INVARIANTS
    CarriedValuesMoved
