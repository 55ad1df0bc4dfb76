SPECIFICATION Spec
CONSTANTS
    Wrappers = {"x", "g"}
    Flags = {"b"}
    Globals = {"g"}
    References = {}
    Slots = {"t", "u"}
    Conditions <- MCConditions
    Families <- MCFamilies
    Statements <- MCStatements
    Blocks <- MCBlocks
    Nesting <- MCNesting
INVARIANTS
    VariantEstablishedUnlessUnseen
    AssignedBeforeRead
    RefusedForAPath
\* A program ends.
CHECK_DEADLOCK FALSE
