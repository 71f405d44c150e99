SPECIFICATION Spec
CONSTANTS
    Pages <- MCPages
    Shelves <- MCShelves
    Specialists <- MCSpecialists
    Core = "mini_core"
    SkillOf <- MCSkillOf
    Rank <- MCRank
    Registries <- MCRegistries
    Drafts <- MCDrafts
    MaxRetrieved = 5
    MaxReferenced = 3
    Budget <- MCBudget
    BaseChars = 10
CHECK_DEADLOCK FALSE
INVARIANTS
    DisclosureIsProtected
    FictionIsNotEscalated
    GuardianIsTheCeiling
    ApprovedStaysWithin
    NothingDroppedSilently
    ImportantFirst
    BudgetNearlyHolds
