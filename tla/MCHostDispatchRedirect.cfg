\* One guest's calls through the middleware into the handlers, with
\* redirects, SSRF checks and a body limit of two bytes.
CONSTANTS
    noPlugin = noPlugin
    ipApi = ipApi
    ipEvil = ipEvil
    ipInternal = ipInternal
    Plugins <- MCPlugins
    NoPlugin <- noPlugin
    Grants <- MCGrants
    Calls <- MCCalls
    URLs <- MCURLs
    Resolve <- MCResolve
    Private <- MCPrivate
    BodyLens = {0, 2, 3}
    MaxBodySize = 2
    DefaultMaxRedirects = 2
    MaxBuf = 2
SPECIFICATION Spec
INVARIANT
    HTTPTargetsGranted
