SPECIFICATION FairSchedulerSpec
CONSTANTS
    Reg = {1, 2}
    Sources <- FrontendPrograms
    MaxAttempts = 2
    SearchLimit = 1
    Iterations = 3
INVARIANTS
    NopsMeanNothing
    DependenciesReach
PROPERTIES
    Ends
