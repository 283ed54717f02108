SPECIFICATION Spec
CONSTANTS
    User = {ann, bob}
    NoUser = nobody
    Tab = {t1}
    Key = {me, list}
    MaxPairs = 3
    Changing = {ann}
    MaxChanges = 1
    Verifying = {bob}
    MaxLoads = 1
INVARIANTS
    TypeOK
    RotationRevokes
    OldPasswordIsCutOff
    NeverRefusesItself
    OneAccountPerTab
PROPERTIES
    WaitersResume
CHECK_DEADLOCK FALSE
