\* Two loaders, failing stores, crashes, deletes and re-pushes.
CONSTANTS
    l1 = l1
    l2 = l2
    b1 = b1
    b2 = b2
    NoDigest = NoDigest
    Procs <- MCProcs2
    Blobs <- MCBlobs
    Root <- MCRoot
    PluginName <- MCPluginName
    DeleteRefs <- MCDeleteRefs
SPECIFICATION Spec
INVARIANT
    LoadedIsVerified
