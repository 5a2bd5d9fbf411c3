\* Two concurrent dials on one dialer, with rebinding and TTL expiry.
CONSTANTS
    d1 = d1
    d2 = d2
    pub4 = pub4
    priv4 = priv4
    pub6 = pub6
    Procs <- MCProcs2
    Names <- MCNames
    IPs <- MCIPs
    V4 <- MCV4
    Private <- MCPrivate
    Literals <- MCLiterals
    Answers <- MCAnswers
    AllowPrivateNetwork = FALSE
    CacheTTL = 2
    DefaultTTL = 3
    MaxTime = 3
SYMMETRY MCProcSymmetry
SPECIFICATION Spec
INVARIANT
    PinnedWithinTTL
