SPECIFICATION ListSpec
CONSTANTS
    child = child
    parent = parent
    None = None
    Procs = {p1}
    Readers = {d1}
    RoleIDs = {r1}
    BindingIDs = {b1, b2}
    Subjects = {s1}
    Actions = {}
    Resources <- Hierarchy
    Above <- AboveTwo
    Failures <- Repaired
INVARIANT BindingsAgree
PROPERTIES LedgerImplemented ListedExactly RolesListedExactly
