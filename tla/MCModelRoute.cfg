CONSTANTS
    DblMax = 1000
    Routes <- MCRoutes
SPECIFICATION Spec
INVARIANT TypeOK
INVARIANT DrrDecides
