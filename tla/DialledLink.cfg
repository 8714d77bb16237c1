SPECIFICATION FairSpec
CONSTANTS
    MaxDials = 2
    EventCap = 2
    MaxRadioLosses = 1
    MaxLeaves = 1
PROPERTIES
    
    EndsForCause
    LossIsNoticed
CHECK_DEADLOCK FALSE
