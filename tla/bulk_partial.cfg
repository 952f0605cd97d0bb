SPECIFICATION Spec
CONSTANTS
    MaxRows = 3
INVARIANTS PartialIs207
