\* One interrupt of the console.
CONSTANTS
    BufSize = 2
    Chars = {"a"}
    Values = {1, 2}
    AtValues <- AnyAtValues
SPECIFICATION ConsoleSpec
PROPERTIES InterruptIsInvisible
