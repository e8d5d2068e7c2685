SPECIFICATION FairSpec
CONSTANTS
    p1 = p1
    p2 = p2
    child = child
    parent = parent
    None = None
    Procs = {p1, p2}
    RoleIDs = {r1}
    BindingIDs = {b1, b2}
    Subjects = {s1}
    Actions = {a1}
    Resources <- OneResource
    Above <- AboveOne
    Failures <- WritesFail
INVARIANTS TypeOK BindingsAgree RolesAgree
PROPERTIES EveryRequestEnds LedgerImplemented
