SPECIFICATION Spec
CONSTANTS
    Configs <- MCConfigs
    Params <- MCParams
    ALL = "ALL"
    Requests <- MCRequests
    Roles <- UserType
    Permissions <- Permission
    PermissionsOf <- ROLE_PERMISSIONS
    Invalid = Invalid
    None = None
    MaxNodes = 2
INVARIANTS
    TypeOK
    FlattenRight
    HandlersAgree
    LookupIsBest
    AnswersRight
    HandlersReached
    MergedAsBefore

