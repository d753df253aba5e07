SPECIFICATION MonitorSpec
CONSTANTS
    sleepy = sleepy
    silent = silent
    IP <- MCIP
    Retries = 1
    AggrRetries = 1
    Wake <- MCWake
    Mac = {m1}
    NoMac = NoMac
    MaxPolls = 2
INVARIANTS
    FailuresWereProbed
    AwakeDevicesOnRecord
PROPERTIES
    KeepsStats
    AwakeDevicesGetRecorded
