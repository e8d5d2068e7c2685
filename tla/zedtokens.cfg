SPECIFICATION FairSpec
CONSTANTS
    a = a
    b = b
    parent = parent
    Listeners = {l1, l2}
    Objects <- Tenants
    Updates <- BelowOne
    Failures <- TokensRead
    MaxRev = 2
INVARIANTS TypeOK FreshUnlessSpoiled
PROPERTY EveryRequestAnswered
