SPECIFICATION Spec
CONSTANTS
    Reg = {9, 10}
    r = 9
    s = 10
    MaxReg = 12
    Register = {0, 1, 2, 3, 4, 5, 6, 7, 8, 9, 10, 11, 12}
    FirstRotating = 13
    MaxLaps = 3
    Sources <- Short
    Iterations = 1
INVARIANTS
    ValuesArrive
