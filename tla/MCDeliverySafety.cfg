CONSTANTS
    h1 = h1
    Webhooks = {h1}
    Deliveries = {d1}
    HookOf <- OneHook
    Legacy = {}
    Instances = {i1, i2}
    Workers = {w1, w2}
    RetryLimit = 2
    FlushLimit = 1
    FailureThreshold = 2
    SuccessThreshold = 1
    PromptCalls = FALSE
    MaxAttempts = 2
    MaxSecret = 2
    MaxCrashes = 1
    MaxDbErrors = 1
    MaxAdmin = 1
    None = None
SYMMETRY WorkerSymmetry
SPECIFICATION Spec
INVARIANTS
    TypeOK
    PostOncePerClaim
    PostsAccounted
    SignatureStable
PROPERTY ImplementsLedger
CHECK_DEADLOCK FALSE
