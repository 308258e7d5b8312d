\* One process, two levels of nesting: every exception and trapping CALL_PAL.
CONSTANTS
    Procs = {1}
    NoProc = NoProc
    KTop <- MCKTop
    Depth = 2
    UserSps = {1}
    Ptbr <- MCPtbr
    Data = Data
    NoPc = NoPc
    NoGp = NoGp
    Pcs <- MCPcs
    CcMod = 1
    Causes <- ExceptionCauses
    HwArgs <- MCHwArgs
    Dirs <- MCDirs
    IsaIrqs = {4}
    CodePcs = {0}
    Handler <- MCHandler
    GuestArgs <- MCGuestArgs
    GuestGps = {2}
    Kgp = 3
    Ipls = {0}
    McesBits = {}
    Tbis = {}
    Fens = {0}
    Uniques = {}
SPECIFICATION Spec
INVARIANTS TypeOK
PROPERTIES ImplementsContexts
\* A halted machine stays halted.
CHECK_DEADLOCK FALSE
