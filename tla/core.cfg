SPECIFICATION FairSpec
CONSTANTS
    WordMod = 4
    NLog = 2
    Width = 2
    NPhys = 7
    ALCap = 4
    IQCap = 2
    FLCap = 5
    ExcVector = 7
    Programs <- CorePrograms
INVARIANTS
    TypeOK
    RegisterPartition
    QueuesFit
    BusyMeansInFlight
    NoLostWakeup
    OperandsMatchRegisters
    EachInstructionOnce
    ProgramOrder
    CleanRecovery
    DoneMeansComplete
PROPERTIES
    InOrderSpec
    Termination
