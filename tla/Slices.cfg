CONSTANTS
    Roles = {"admin", "edit", "admins"}
    MaxLen = 4
SPECIFICATION Spec
INVARIANT OnlyStartsRepeat
PROPERTY ImplementsRoleSets
