CONSTANTS
    MaxSubscriptions = 2
    MaxFailures = 2
SPECIFICATION Spec
PROPERTIES SubscribedIsCovered
CHECK_DEADLOCK FALSE
