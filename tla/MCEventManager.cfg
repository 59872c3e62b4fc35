SPECIFICATION FairSpec
CONSTANTS
    o = o
    s1 = s1
    s2 = s2
    Addr = {o, s1, s2}
    Contract = {s1, s2}
    Owner = o
    MinDepositWei = 2
    FinishingGas = 1
    InitIncentiveWei = 2
    InitPerSubLimitGas = 1
    CheckGas = 0
    CallGas = 1
    Deposits = {1, 3}
    Incentives = {3}
    GasLimits = {2}
    NewPublishers = {s1}
    GasPrices = {0, 2}
    TxGas = {3, 6}
    MaxWei = 7
    MaxEvents = 2
    MaxNested = 1
INVARIANTS IncentiveBounded Solvent
PROPERTIES OnlyCalleeIsCharged NotifyTerminates ImplementsLedger
