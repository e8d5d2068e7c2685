SPECIFICATION Spec
CONSTANTS
    Prefixes <- MCPrefixes
    Files <- RivalFiles
    Drafts = {}
    Events <- MCEvents
    Ids <- MCIds
    Subjects <- MCSubjects
    ActionChoices <- MCActionChoices
    Depth = 8
    RoleNumbers = {1}
    RoleBindingNumbers = {1}
    RoleV1Numbers = {1}
INVARIANT DuplicatesRefused
CHECK_DEADLOCK FALSE
