SPECIFICATION Spec
CONSTANTS
    core = core
    vision = vision
    research = research
    memory = memory
    NoOne = NoOne
    Specialists <- MCSpecialists
    Core = core
    Dependencies <- MCDependencies
    MaxSpecialists = 3
    Retries = 1
    FailFast = TRUE
    AllowDegraded = TRUE
    Values = {v1, v2}
    NoFinding = NoFinding
CHECK_DEADLOCK FALSE
INVARIANTS
    DependenciesHonored
    EveryoneAccountedFor
    StatusIsHonest
    MergeIsVouched
PROPERTIES
    WriteOnce
