SPECIFICATION Spec
CONSTANTS
    Lists <- MCLists
    Versions = {"default", "gray"}
    Default = "default"
    Home <- MCHome
    Policies = {"round_robin", "weighted_round_robin"}
    Pickers = {p1, p2}
INVARIANTS
    TypeOK
    Proportional
PROPERTIES
    AnswersAlone
    Recovers
