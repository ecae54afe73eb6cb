SPECIFICATION Spec
CONSTANTS
    WordMod = 32768
    NLog = 32
    Width = 4
    NPhys = 64
    ALCap = 32
    IQCap = 32
    FLCap = 32
    ExcVector = 65536
    Programs <- GivenTests
INVARIANTS
    DoneMeansComplete
PROPERTIES
    InOrderSpec
