CONSTANTS
    h1 = h1
    Webhooks = {h1}
    Deliveries = {d1}
    HookOf <- OneHook
    Legacy = {}
    Instances = {i1}
    Workers = {w1, w2}
    RetryLimit = 2
    FlushLimit = 1
    FailureThreshold = 2
    SuccessThreshold = 1
    PromptCalls = TRUE
    MaxAttempts = 3
    MaxSecret = 1
    MaxCrashes = 1
    MaxDbErrors = 1
    MaxAdmin = 1
    None = None
SPECIFICATION FairSpec
PROPERTY Settles
CHECK_DEADLOCK FALSE
