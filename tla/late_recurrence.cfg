SPECIFICATION Spec
CONSTANTS
    Reg = {1, 2, 3}
    LastStatic = 7
    LastRotating = 31
    FirstRotating = 8
    Register = {0, 1, 2, 3, 4, 5, 6, 7, 8, 9, 10, 11, 12, 13, 14, 15, 16, 17, 18, 19, 20, 21, 22, 23, 24, 25, 26, 27, 28, 29, 30, 31}
    MaxLaps = 12
    Sources <- Late
    MaxAttempts = 10
    SearchLimit = 12
    Iterations = 3
INVARIANTS
    FirstIterationReadsInitial
