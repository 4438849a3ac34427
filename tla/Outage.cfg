\* A provider is frozen after one inactive pass; the process ends once.
SPECIFICATION FairSpec
CONSTANTS
    Threshold = 1
    MaxReboots = 1
CHECK_DEADLOCK FALSE
PROPERTIES LongOutageKept OutageSettles
