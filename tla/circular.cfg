SPECIFICATION Spec
CONSTANTS
    Value = {a, b, c}
    Cap = 3
INVARIANTS
    TypeOK
PROPERTIES
    ImplementsDeque
