SPECIFICATION Spec
CONSTANTS
    Row <- MCRow
    MaxOpen <- MCMaxOpen
    Staff = {"adm", "mgr"}
    Role <- MCRole
    Registrant = {"mgr", "guardian"}
    Donor = {d1}
    Task <- MCTask
INVARIANTS
    TypeOK
    DecidedOnce
    OneRecordPerChild
    OfferedIsAccepted
    OneMailUnlessRepeated
PROPERTIES
    SignsInOrder
    PublishedIsAnnounced
CHECK_DEADLOCK FALSE
