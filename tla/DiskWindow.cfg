SPECIFICATION Spec
CONSTANTS
    a = a
    b = b
    c = c
    x = x
    y = y
    Names = {a, b}
    Data = {x, y}
    Blank = Blank
    MaxLen = 2
    NewTexts <- ThreeTexts
    DataSectors = 3
    DirSectors = 1
    PerSector = 2
    MaxFiles = 2
    BootList <- NoDefaults
    Missing = Missing
    Unknown = Unknown
    CrashIn = {"super"}
    FailIn = {}
INVARIANTS Durable
