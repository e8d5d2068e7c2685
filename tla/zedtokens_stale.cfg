SPECIFICATION Spec
CONSTANTS
    a = a
    b = b
    parent = parent
    Listeners = {l1, l2}
    Objects <- Tenants
    Updates <- BelowOne
    Failures <- NoFailures
    MaxRev = 3
INVARIANT ChecksFresh
