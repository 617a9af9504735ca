SPECIFICATION Spec
CONSTANTS
    Proc = {p1, p2}
    Server = {s1, s2}
    Name = {default, prod}
    Default = default
    NoName = NoName
    NoServer = NoServer
    NoProc = NoProc
SYMMETRY Symmetry
INVARIANTS
    TypeOK
    ActiveContextExists
    NoDanglingContext
    SelectedIsLoggedIn
PROPERTIES
    ContextsKept
    DefaultMovesOnPurpose
    RegistryRefined
