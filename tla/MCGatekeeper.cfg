\* One host process, every security level, every call shape.
CONSTANTS
    h1 = h1
    h2 = h2
    Procs <- MCProcs1
    Rules <- MCRules
    RequiredChoices <- MCRequiredChoices
    Levels <- MCLevels
SPECIFICATION Spec
INVARIANTS
    TypeOK
    GrantedCoversRequired
    StrictNeverAddsBroad
