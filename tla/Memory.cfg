SPECIFICATION AllSpec
CONSTANTS
    PageSize = 2
    MinPages = 4
    BitmapPages = 13
    AddressSpace = 31
    MemoryMap <- SmallMap
    Fixed <- SmallFixed
    RunSizes = {1, 2, 3}
    Heaps <- SmallHeaps
    Modes = {1, 2}
    HeapUnits = 46
    Header = 5
    Grain = 2
    Requests = {1, 4, 9}
INVARIANTS TypeOK Accounted CountExact FramesMapped HeapSound
PROPERTIES FailsWhenFull AllocatorSpec
