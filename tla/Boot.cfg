SPECIFICATION Spec
CONSTANTS
    Word = 64
    Max = 24
    Regions = 3
    FirstIo = 12
    FirstMem = 5
    Buses <- MCBuses
    Cpus = {0, 3}
    PageSize = 4
    Entries = 3
    MemSize = 48
    Ends = {29, 32}
    StackSize = 4
    Stack = 4
    DirPage = 5
    HwrpbPage = 6
    InitHwrpb = 44
    Vptptr = 96
    Dir0 = 640
INVARIANTS
    RegionsDisjoint
    EachFunctionOnce
    DevicesUsable
    CpusApart
    MemoryClusters
    AddressSpace
    ConsoleTerminal
CHECK_DEADLOCK FALSE
