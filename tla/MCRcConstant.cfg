SPECIFICATION Spec
CONSTANT Functions <- ConstantOfVariable
INVARIANTS
    NoUseAfterRelease
\* A function returns.
CHECK_DEADLOCK FALSE
