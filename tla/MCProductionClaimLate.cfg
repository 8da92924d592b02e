SPECIFICATION Spec
CONSTANTS
    Tenant = {t1, t2}
    Account = {a1, a2}
    Nobody = Nobody
    Instance = {i1}
    LateFailures = TRUE
    PaddedActions = FALSE
INVARIANTS
    AccountExclusive
