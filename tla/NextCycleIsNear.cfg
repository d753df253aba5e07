\* Settings under which the rounds take longer than PROBE_TIMEOUT.
SPECIFICATION Spec
CONSTANTS
    Config <- ShortPeriod
    Wrap = 512
    MaxSend = 2
    MaxQuery = 1
    Slack = 1
    MaxShift = 0
INVARIANTS
    NextCycleIsNear
