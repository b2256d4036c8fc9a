CONSTANTS
    s1 = s1
    all = all
    failures = failures
    Batches <- MCBatches
    Sessions = {s1}
    Webhooks = {all, failures}
    Subscribed <- MCSubscribed
    Instances = {i1, i2}
    Requests = {r1, r2}
    MaxPosts = 2
    MaxDbErrors = 2
    MaxCrashes = 1
    MaxAdmin = 2
    None = None
SPECIFICATION Spec
SYMMETRY MCSymmetry
INVARIANTS TypeOK StoredBeforeSeen AnsweredMeansDone
PROPERTY SessionNeverRestarts
CHECK_DEADLOCK FALSE
