SPECIFICATION Spec
CONSTANTS
    Reg = {1, 2, 3}
    LastStatic = 7
    LastRotating = 11
    FirstRotating = 8
    Register = {0, 1, 2, 3, 4, 5, 6, 7, 8, 9, 10, 11}
    MaxLaps = 12
    Sources <- Counting
    MaxAttempts = 10
    SearchLimit = 12
    Iterations = 6
INVARIANTS
    BaseInRange
