SPECIFICATION Spec
CONSTANTS
    Session = {s1}
SYMMETRY Symmetry
INVARIANTS DowngradeRestores
