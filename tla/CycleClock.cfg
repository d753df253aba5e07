\* A period of 41 s, of which the longest cycle, with a clock that is set ahead
\* by one, uses every second.
SPECIFICATION Spec
CONSTANTS
    Config <- ExactBudget
    Wrap = 512
    MaxSend = 2
    MaxQuery = 1
    Slack = 1
    MaxShift = 1
INVARIANTS
    RoundsLastTheirTimeout
    CyclesLastProbeTimeout
