\* vgahw_init and two calls in mode 3.
CONSTANTS
    Modes = {3}
    Values = {0}
    DacSize = 4
    PaletteSize = 2
    Glyphs = 1
    MaxCalls = 2
SPECIFICATION Spec
INVARIANTS CrtcAddressSelected
CHECK_DEADLOCK FALSE
