SPECIFICATION Spec
CONSTANTS
    e1 = e1
    e2 = e2
    p1 = p1
    a1 = a1
    a2 = a2
    own = own
    Elevators = {e1, e2}
    Principals = {p1}
    PrincipalOf <- MCPrincipalOf
    Levels = {Open, Closed}
    Open = Open
    Ids = {own, a1, a2}
    OwnerIds = {own}
    Nil = Nil
SYMMETRY MCSymmetry
VIEW MCView
INVARIANTS
    TypeOK
    RolesAccountedFor
    ResetRestores
PROPERTY
    KeepsAccountPromise
