SPECIFICATION Spec
CONSTANTS
    Wrappers = {"x", "g"}
    Flags = {"b"}
    Globals = {"g"}
    References = {}
    Slots = {"t", "u"}
    Conditions <- MCConditions
    Families <- ShadowingFamilies
    Statements <- ShadowingStatements
    Blocks <- ShadowingBlocks
    Nesting <- ShadowingNesting
INVARIANTS
    ReadsAreSet
\* A program ends.
CHECK_DEADLOCK FALSE
