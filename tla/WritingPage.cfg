SPECIFICATION FairSpec
CONSTANTS
    Tabs = {t1}
    MaxTyped = 2
    FirstTitle = "empty"
    NewTitles = {"padded", "spaces"}
    MaxSends = 3
    NoText = NoText
CHECK_DEADLOCK FALSE
INVARIANTS
    EditsAreScheduled
    SavedIsStored
PROPERTIES
    NeverOlder
    EditsAreSent
