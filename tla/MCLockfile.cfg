\* One invocation at a time, with failing and interrupted saves.
CONSTANTS
    c1 = c1
    c2 = c2
    Procs <- MCProcs1
    DeclLists <- MCDeclLists
    URLs <- MCURLs
    Versions <- MCVersions
    Digests <- MCDigests
SPECIFICATION Spec
INVARIANTS
    TypeOK
    ReturnedLockHonorsDeclarations
PROPERTIES
    PluginLocksNeverDropped
