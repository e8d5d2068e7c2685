SPECIFICATION ReadSpec
CONSTANTS
    tenant = tenant
    None = None
    Procs = {p1, p2}
    Readers = {d1}
    RoleIDs = {r1}
    BindingIDs = {}
    Subjects = {s1}
    Actions = {a1, a2}
    Resources = {tenant}
    Above <- AboveNone
    Failures <- AllFailures
INVARIANTS TypeOKV1 DiscardedUnassigned
PROPERTIES GivenToTheLiving UpdateTakesEffectV1 RolesListedExactlyV1 NeverShownBare
SYMMETRY Symmetry
