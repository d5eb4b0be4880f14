\* Two users, two threads: logins, requests and account changes overlap.
CONSTANTS
    User = {u1, u2}
    Role = {"lead", "admin"}
    Thread = {t1, t2}
    Token = {k1, k2}
    MaxFailed = 2
    None = None
SPECIFICATION Spec
SYMMETRY Symmetric
VIEW Abstracted
INVARIANTS
    TypeOK
    RevokedStaysOut
    SignInAudited
    SeparationOfDuties
    FailuresLock
    LockLasts
