\* CPU 0 and two secondaries, with messages that are not START.
CONSTANTS
    Cpus = {0, 1, 2}
    Messages = {"START", "other"}
    Delay = 2
SPECIFICATION Spec
INVARIANTS TypeOK StartsAsAsked NoLostInterrupt
