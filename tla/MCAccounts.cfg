CONSTANTS
    Ids = {root, a1, a2}
    Emails = {rootEmail, e1}
    Passwords = {rootPassword, w1}
    e1 = e1
    w1 = w1
    Changes <- SomeChanges
    Roles = {user, admin}
    User = user
    Admin = admin
    Root = root
    RootEmail = rootEmail
    RootPassword = rootPassword
    Requests = {r1, r2, r3}
    MaxFailures = 1
    None = None
SPECIFICATION Spec
SYMMETRY Symmetry
CHECK_DEADLOCK FALSE
INVARIANTS
    TypeOK
    TokensEarned
    ConflictsAreReal
