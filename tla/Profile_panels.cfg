CONSTANTS
    None = None
    User = {ann, ben}
    Element = {"media", "home"}
    Phrase = {"p1", "p2"}
    MaxSaves = 2
    MaxReads = 2
SPECIFICATION Spec
CHECK_DEADLOCK FALSE
INVARIANTS TypeOK HiddenStaysHidden CardTellsTruth
PROPERTY OnlyWhatWasEdited
