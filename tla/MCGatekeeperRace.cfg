\* Two host processes sharing one grant store file.
CONSTANTS
    h1 = h1
    h2 = h2
    Procs <- MCProcs2
    Rules <- MCRules
    RequiredChoices <- MCRequiredChoices
    Levels <- MCStandard
SPECIFICATION Spec
INVARIANT
    AlwaysGrantsDurable
SYMMETRY MCProcSymmetry
