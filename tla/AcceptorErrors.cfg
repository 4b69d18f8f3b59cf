CONSTANTS
    MaxFd = 3
    MaxBacklog = 2
SPECIFICATION Spec
CHECK_DEADLOCK FALSE
INVARIANT AcceptSurvivesExpectedErrors
