\* The imports docs/DATASET.md gives as an example, one after another.
CONSTANTS
    None = None
    Identifier <- MCIdentifier
    canonical_key <- MCKey
    lower <- MCLower
    forbidden_fields <- MCForbidden
    hr_csv <- MCHr
    IgnoredAccounts <- MCIgnored
    Commands <- MCRecipe
    Absent = Absent
    Torn = Torn
    Garbled = Garbled
    MaxCommands = 3
SPECIFICATION Spec
INVARIANT
    OneActorPerPerson
CHECK_DEADLOCK FALSE
