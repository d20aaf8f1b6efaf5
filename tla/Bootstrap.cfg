CONSTANTS
    UserIds = {u1, u2}
    GroupIds = {g1, g2}
    Usernames = {root, other}
    Admin = root
    Roles = {"admin", "admins"}
    Nil = Nil
    Procs = {p1}
    MaxStarts = 3
SPECIFICATION FairSpec
CHECK_DEADLOCK FALSE
INVARIANTS
    TypeOK
    OneOfEach
PROPERTIES
    ServesWithAdmin
    StartsEnd
