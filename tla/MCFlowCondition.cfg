SPECIFICATION Spec
CONSTANTS
    Wrappers = {"x", "g"}
    Flags = {"b"}
    Globals = {}
    References = {}
    Slots = {"t", "u"}
    Conditions <- MCConditions
    Families <- ConditionFamilies
    Statements <- ConditionStatements
    Blocks <- ConditionBlocks
    Nesting <- ConditionNesting
INVARIANTS
    VariantEstablishedUnlessUnseen
\* A program ends.
CHECK_DEADLOCK FALSE
