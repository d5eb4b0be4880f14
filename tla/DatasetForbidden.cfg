\* Imports in any order, one of which has an object within an object.
CONSTANTS
    None = None
    Identifier <- MCIdentifier
    canonical_key <- MCKey
    lower <- MCLower
    forbidden_fields <- MCForbidden
    hr_csv <- MCHr
    IgnoredAccounts <- MCIgnored
    Commands <- MCCommands
    Absent = Absent
    Torn = Torn
    Garbled = Garbled
    MaxCommands = 1
SPECIFICATION Spec
INVARIANT
    NothingForbiddenEnters
CHECK_DEADLOCK FALSE
