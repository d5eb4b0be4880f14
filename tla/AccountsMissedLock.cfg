\* Logins of one account overlap: the fifth wrong password may not lock.
CONSTANTS
    User = {u1}
    Role = {"lead"}
    Thread = {t1, t2}
    Token = {k1}
    MaxFailed = 5
    None = None
SPECIFICATION Spec
SYMMETRY Symmetric
INVARIANTS
    FiveFailuresLock
