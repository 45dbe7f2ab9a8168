SPECIFICATION Spec
CONSTANTS
    Providers = {"aws", "azure", "gcp"}
    Kinds = {"object-storage", "vpc"}
    Configs = {c1, c2}
    IdentityKeys = {"reader", "alias", "ghost"}
    Users = {"u1"}
    UserOf <- MCUserOf
    Nobody = Nobody
    Life = 2
    RefreshSkew = 1
    MaxFactories = 2
    MaxServices = 2
SYMMETRY Alike
INVARIANTS
    TypeOK
    TearDownReaches
    OriginalRemembered
    IdentityServed
    LoginHolds
PROPERTY
    KeepsServicePromise
CHECK_DEADLOCK FALSE
