\* A plugin instance of the executor whose guest calls host functions
\* through the middleware, with redirects, SSRF checks and a body limit
\* of two bytes, in a guest memory of two bytes.
CONSTANTS
    noPlugin = noPlugin
    ipApi = ipApi
    ipEvil = ipEvil
    ipInternal = ipInternal
    Plugins <- MCPlugins
    NoPlugin <- noPlugin
    Grants <- MCGrants
    Calls <- MCCalls
    URLs <- MCURLs
    Resolve <- MCResolve
    Private <- MCPrivate
    BodyLens = {0, 2, 3}
    MaxBodySize = 2
    DefaultMaxRedirects = 2
    MaxBuf = 2
    MemSize = 2
    ConfigLen = 1
    ExportSets <- MCExportSets
SPECIFICATION SystemSpec
INVARIANTS
    SystemTypeOK
    FirstHopGranted
    PrivateOnlyIfAllowed
    BodyWithinLimit
    RiskReflectsIO
PROPERTIES
    CallCompletes
