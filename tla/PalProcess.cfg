\* Two processes: what their PCBs hold, and their virtual time, with the counter
\* wrapping around.
CONSTANTS
    Procs = {1, 2}
    NoProc = NoProc
    KTop <- MCKTop
    Depth = 1
    UserSps = {1}
    Ptbr <- MCPtbr
    Data = Data
    NoPc = NoPc
    NoGp = NoGp
    Pcs <- MCPcs
    CcMod = 4
    Causes <- ProcessCauses
    HwArgs <- MCHwArgs
    Dirs <- MCDirs
    IsaIrqs = {4}
    CodePcs = {0}
    Handler <- MCHandler
    GuestArgs <- MCGuestArgs
    GuestGps = {2}
    Kgp = 3
    Ipls = {0}
    McesBits = {}
    Tbis <- MCTbis
    Fens = {0, 1}
    Uniques = {0, 1}
SPECIFICATION Spec
INVARIANTS PcbCurrent TlbCurrent
PROPERTIES ProcessStateKept VirtualTimeIsContinuous
CONSTRAINT TimeApart
\* A halted machine stays halted.
CHECK_DEADLOCK FALSE
