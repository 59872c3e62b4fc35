SPECIFICATION Spec
CONSTANTS
    dmg = dmg
    susp = susp
    s1 = s1
    s2 = s2
    q1 = q1
    q2 = q2
    Constraints = {dmg, susp}
    Sockets = {s1, s2}
    Workloads <- MCWorkloads
    Timeout <- MCTimeout
    TimeoutStatus <- MCTimeoutStatus
    StartTime = 2
    MaxTime = 4
    Word = 64
INVARIANTS
    DamageHasCause
    DamageRemembered
    DamagedStopsListening
    SilenceTold
CHECK_DEADLOCK FALSE
