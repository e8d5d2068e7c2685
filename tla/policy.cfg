SPECIFICATION Spec
CONSTANTS
    Prefixes <- MCPrefixes
    Files <- MCFiles
    Drafts <- MCDrafts
    Events <- MCEvents
    Ids <- MCIds
    Subjects <- MCSubjects
    ActionChoices <- MCActionChoices
    Depth = 8
    RoleNumbers = {1}
    RoleBindingNumbers = {1}
    RoleV1Numbers = {1}
INVARIANTS TypeOK AcceptedSchemaTaken BindableIsWritable PermissionsOnlyAsGranted PermissionsAsGranted AvailableOnlyAbove AvailableAsAbove RelationshipsListed
PROPERTY OrderInconsequential
CHECK_DEADLOCK FALSE
