\* One process: the first machine check.
CONSTANTS
    Procs = {1}
    NoProc = NoProc
    KTop <- MCKTop
    Depth = 1
    UserSps = {1}
    Ptbr <- MCPtbr
    Data = Data
    NoPc = NoPc
    NoGp = NoGp
    Pcs = {0, 1, 2, 10, 12, 14, 16, 18, 20}
    CcMod = 1
    Causes <- MchkCauses
    HwArgs <- MCHwArgs
    Dirs <- MCDirs
    IsaIrqs = {4}
    CodePcs = {0, 1}
    Handler <- MCHandler
    GuestArgs <- MCGuestArgs
    GuestGps = {2}
    Kgp = 3
    Ipls = {0}
    McesBits = {}
    Tbis = {}
    Fens = {}
    Uniques = {}
SPECIFICATION Spec
PROPERTIES LogoutNamesReason
\* A halted machine stays halted.
CHECK_DEADLOCK FALSE
