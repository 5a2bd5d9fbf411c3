\* One host process answering the prompts of a single call.
CONSTANTS
    h1 = h1
    h2 = h2
    Procs <- MCProcs1
    Rules <- MCRules
    RequiredChoices <- MCRequiredChoices
    Levels <- MCStandard
SPECIFICATION Spec
INVARIANT
    OnceNeverPersisted
