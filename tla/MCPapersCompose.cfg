SPECIFICATION Spec
CONSTANTS
    Worker = {w1, w2}
    Nobody = Nobody
    Harvest = Harvest
    MaxVersion = 2
    MaxDay = 3
PROPERTIES
    ComposeKeepsTombstone
CHECK_DEADLOCK FALSE
