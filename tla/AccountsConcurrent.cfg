CONSTANTS
    n1 = n1
    n2 = n2
    m1 = m1
    m2 = m2
    Digest = Digest
    Roles = {"admin"}
    Empty = Empty
    AdminName = n1
    Ids = {a, b}
    Usernames = {n1, n2}
    Mails = {m1, m2}
    Passwords = {p1}
    Reqs = {r1, r2}
    Edits <- MoveEdits
    RoleChanges = {}
    FixedSecret = TRUE
    MaxTokens = 2
    MaxRestarts = 0
SPECIFICATION Spec
SYMMETRY Symmetry
INVARIANTS
    ConfirmedMailIsProven
    ConfirmTokenNamesStoredMail
    ResetTokenFollowsMail
PROPERTY UpdateKeepsPassword
