\* Two writers, rows edited and deleted by hand between their transactions.
CONSTANTS
    Writer = {w1, w2}
    Body = {b1, b2}
    NoOne = NoOne
    OtherTx = OtherTx
    MaxEntries = 4
SPECIFICATION Spec
INVARIANTS
    TypeOK
    NoSharedParent
    VerifyFindsFirstDamage
PROPERTY
    RecordReturns
