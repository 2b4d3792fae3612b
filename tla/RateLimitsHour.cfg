SPECIFICATION Spec
CONSTANTS
    Requests = {r1, r2, r3}
    Ips = {i1}
    Users = {u1}
    Quarters = 2
    Began = 1
    MaxClock = 2
    Limit <- Limits
    None = None
INVARIANT HourlyLimitsHold
CHECK_DEADLOCK FALSE
