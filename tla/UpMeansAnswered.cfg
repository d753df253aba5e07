SPECIFICATION Spec
CONSTANTS
    prompt = prompt
    sleepy = sleepy
    silent = silent
    IP <- MCIP
    Retries = 2
    AggrRetries = 1
    Wake <- MCWake
INVARIANTS
    UpMeansAnswered
