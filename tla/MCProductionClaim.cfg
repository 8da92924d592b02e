SPECIFICATION Spec
CONSTANTS
    Tenant = {t1, t2, t3}
    Account = {a1, a2}
    Nobody = Nobody
    Instance = {i1}
    LateFailures = TRUE
    PaddedActions = TRUE
INVARIANTS
    TypeOK
    

    
