CONSTANTS
    u1 = u1
    u2 = u2
    UserIds = {u1, u2}
    GroupIds = {g1, g2}
    Names = {"admins", "staff"}
    Roles = {"admin", "edit"}
    None = None
    Reqs = {r1}
    NewGroups <- MCNewGroups
    GroupEdits <- MCEdits
SPECIFICATION Spec
CHECK_DEADLOCK FALSE
PROPERTY DeletedGroupIsGone
