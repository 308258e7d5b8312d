\* Two processes with one-slot kernel stacks, switched at every point.
CONSTANTS
    Procs = {1, 2}
    NoProc = NoProc
    KTop <- MCKTop
    Depth = 1
    UserSps = {1}
    Ptbr <- MCPtbr
    Data = Data
    NoPc = NoPc
    NoGp = NoGp
    Pcs <- MCPcs
    CcMod = 1
    Causes <- SwitchCauses
    HwArgs <- MCHwArgs
    Dirs <- MCDirs
    IsaIrqs = {4}
    CodePcs = {0}
    Handler <- MCHandler
    GuestArgs <- MCGuestArgs
    GuestGps = {2}
    Kgp = 3
    Ipls = {0}
    McesBits = {}
    Tbis = {}
    Fens = {}
    Uniques = {}
SPECIFICATION Spec
INVARIANTS StacksWellFormed UserStackEmpty
PROPERTIES ImplementsContexts
\* A halted machine stays halted.
CHECK_DEADLOCK FALSE
