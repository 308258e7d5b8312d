\* One process, three levels of nesting: the interrupts, with the kernel at every
\* IPL that lets some of them in.
CONSTANTS
    Procs = {1}
    NoProc = NoProc
    KTop <- MCKTop
    Depth = 3
    UserSps = {1}
    Ptbr <- MCPtbr
    Data = Data
    NoPc = NoPc
    NoGp = NoGp
    Pcs <- MCPcs
    CcMod = 1
    Causes <- InterruptCauses
    HwArgs <- MCHwArgs
    Dirs <- MCDirs
    IsaIrqs = {4}
    CodePcs = {0}
    Handler <- MCHandler
    GuestArgs <- MCGuestArgs
    GuestGps = {2}
    Kgp = 3
    Ipls = {4}
    McesBits <- MCMcesBits
    Tbis = {}
    Fens = {}
    Uniques = {}
SPECIFICATION Spec
INVARIANTS UserAtIplZero
PROPERTIES ImplementsContexts
\* A halted machine stays halted.
CHECK_DEADLOCK FALSE
