\* CPU 0 and one secondary.
CONSTANTS
    Cpus = {0, 2}
    Messages = {"START", "other"}
    Delay = 2
SPECIFICATION FairSpec
PROPERTIES EveryStartAnswered EveryMessageTaken EveryInterruptTaken
