SPECIFICATION Spec
CONSTANTS
    a = a
    b = b
    c = c
    x = x
    y = y
    Names = {a, b, c}
    Data = {x, y}
    Blank = Blank
    MaxLen = 2
    NewTexts <- ThreeTexts
    DataSectors = 3
    DirSectors = 2
    PerSector = 1
    MaxFiles = 2
    BootList <- TwoDefaults
    Missing = Missing
    Unknown = Unknown
    CrashIn = {"idle", "data", "fsuper", "fdir"}
    FailIn = {"data", "fsuper", "fdir", "mount", "load"}
INVARIANTS TypeOK NoSharedSector Durable
PROPERTY StoreSpec
