\* The console: a line of two characters, and registers that entInt may change.
CONSTANTS
    BufSize = 3
    Chars = {"a", "b", "return", "delete"}
    Values = {1}
    AtValues <- AnyAtValues
\* The keyboard's driver: two polls a step, two keys, a mouse.
    Tries = 2
    BufferSize = 2
    QueueSize = 2
    Scancodes = {28, 85}
    MouseData = {250}
SPECIFICATION MCSpec
INVARIANTS
    TypeOK AlwaysATick ShownIsBuffer
    SuccessMeansReady ModeRestored RepliesArePolled BytesReachTheirReader
PROPERTIES
    InputIsRead AnswersMatch InitReturns
