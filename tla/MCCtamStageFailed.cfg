CONSTANTS
    Ids = {1}
    Capacity = 1
    Cells = {c1}
    Required = {}
    Supplied = {1}
    Stubborn = {}
SPECIFICATION Spec
INVARIANT FailedPublishesNothing
CHECK_DEADLOCK FALSE
