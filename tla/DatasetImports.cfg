\* Datasets generated, imported and appended to, with deaths, beside a run.
CONSTANTS
    None = None
    Identifier <- MCIdentifier
    canonical_key <- MCKey
    lower <- MCLower
    forbidden_fields <- MCForbidden
    hr_csv <- MCHr
    IgnoredAccounts <- MCIgnored
    Commands <- MCCommands
    Absent = Absent
    Torn = Torn
    Garbled = Garbled
    MaxCommands = 3
SPECIFICATION Spec
INVARIANTS
    TypeOK
    RunSeesTheDataset
    OneActorPerExtract
    AuditEventsWhole
    GateStripsOnlyFields
CHECK_DEADLOCK FALSE
