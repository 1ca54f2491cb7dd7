SPECIFICATION Spec
CONSTANTS
    Pieces <- MCPieces
    Configs <- MCConfigs
    Paths <- MCPaths
    Instances = {i1}
    Workers = {w1, w2}
    Nobody = Nobody
    MaxRoutes = 3
INVARIANTS
    TypeOK
    RightRoute
    AuthorizedOnly
    OneAnswer
    Balanced
