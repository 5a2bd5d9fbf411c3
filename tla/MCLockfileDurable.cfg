\* Two invocations sharing reglet.lock, with failing and interrupted saves.
CONSTANTS
    c1 = c1
    c2 = c2
    Procs <- MCProcs2
    DeclLists <- MCDeclLists
    URLs <- MCURLs
    Versions <- MCVersions
    Digests <- MCDigests
SPECIFICATION Spec
INVARIANT
    LocksPersisted
