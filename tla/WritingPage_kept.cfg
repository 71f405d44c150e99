SPECIFICATION Spec
CONSTANTS
    Tabs = {t1}
    MaxTyped = 1
    FirstTitle = "bare"
    NewTitles = {"padded", "spaces"}
    MaxSends = 3
    NoText = NoText
CHECK_DEADLOCK FALSE
INVARIANTS
    ToldWordsAreKept
