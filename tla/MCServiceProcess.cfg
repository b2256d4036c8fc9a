CONSTANTS
    d1 = d1
    d2 = d2
    a1 = a1
    Rows = {d1, a1}
    TableOf <- MCTableOf
    Kept = {"audit_events", "admin_audit_log", "idempotency_keys"}
    BatchLimit = 1
    Sweeps = {t1, t2}
    Instances = {i1, i2}
    Hooked = {i1}
    MaxFaults = 1
    MaxWrites = 3
    None = None
SPECIFICATION FairSpec
INVARIANTS ProcessTypeOK OneSweeper
PROPERTIES LiveRowsStay AgedRowsGo SignalledExits
CHECK_DEADLOCK FALSE
