SPECIFICATION Spec
CONSTANTS
    Wrappers = {"x"}
    Flags = {"b"}
    Globals = {}
    References = {"x"}
    Slots = {"t", "u"}
    Conditions <- MCConditions
    Families <- ReferenceFamilies
    Statements <- ReferenceStatements
    Blocks <- ReferenceBlocks
    Nesting <- ReferenceNesting
INVARIANTS
    VariantEstablished
\* A program ends.
CHECK_DEADLOCK FALSE
