\* VGA: vgahw_init and three calls over every mode, after an adapter left in any state.
CONSTANTS
    Modes = {0, 1, 2, 3, 4, 5, 6, 7, 13, 14, 15, 16, 17, 18, 19, 106}
    Values = {0, 27, 255}
    DacSize = 6
    PaletteSize = 6
    Glyphs = 2
    MaxCalls = 3
\* Memory routines: every alignment of both blocks, up to 20 bytes.
    Addr <- const_Addr
    Bits <- const_Bits
    Requests <- const_Requests
\* Serial port: ints of 8 bits, longs of 12.
    LongSize = 4096
    IntSize = 256
    Multiplier = 3277
    BufSize = 8
    Formats <- const_Formats
    Buffers <- const_Buffers
    Keys = {"k"}
    Units = {0, 1}
    MaxSerialCalls = 2
SPECIFICATION MCSpec
INVARIANTS TextModeReady AccessesLegal Result OutputComplete AnswersRight
PROPERTIES ImplementsRegisters
