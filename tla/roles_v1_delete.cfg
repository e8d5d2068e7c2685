SPECIFICATION ReadSpec
CONSTANTS
    tenant = tenant
    None = None
    Procs = {p1}
    Readers = {}
    RoleIDs = {r1}
    BindingIDs = {}
    Subjects = {s1}
    Actions = {a1, a2}
    Resources = {tenant}
    Above <- AboveNone
    Failures <- NoFailures
INVARIANT DeletedRoleHasNoActions
