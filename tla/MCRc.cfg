SPECIFICATION Spec
CONSTANT Functions <- MCFunctions
INVARIANTS
    NoUseAfterRelease
    NothingLeaked
    VariablesDoNotShare
\* A function returns.
CHECK_DEADLOCK FALSE
