---------------------------- MODULE MCHostDispatch ----------------------------
EXTENDS HostDispatch, TLC

CONSTANTS noPlugin, ipApi, ipEvil, ipInternal

U(s, h, p) == [scheme |-> s, host |-> h, port |-> p]
Api      == U("https", "api.example.com", "")
ApiHttp  == U("http", "api.example.com", "")
Evil     == U("https", "evil.example.net", "")
Internal == U("http", "10.0.0.5", "")
NoHost   == U("https", "", "")

C(pl, hc, fn, js, h, port, u, follow, mr) ==
    [plugin |-> pl, hostCtx |-> hc, fn |-> fn, json |-> js, host |-> h, port |-> port,
     url |-> u, follow |-> follow, maxRedirects |-> mr, userAgent |-> FALSE]

S(v) == [t |-> "string", v |-> v]

\* The configurations of the plugins whose grants are what the default
\* extractors derive: an https URL with an explicit port, a DNS plugin with
\* its hostname and nameserver, a script, and a float64 port of 8080.5.
MCConfig ==
    ("http" :> ("url" :> S("https://api.example.com:8443/v1")))
    @@ ("dns" :> (("hostname" :> S("api.example.com")) @@ ("nameserver" :> S("evil.example.net"))))
    @@ ("command" :> ("run" :> S("ls -l")))
    @@ ("tcp" :> ("port" :> [t |-> "float64", v |-> 16161]))

\* "pa" holds a specific network rule and an exec rule, "pb" a network
\* wildcard (which also allows private addresses), "pc" nothing; the
\* plugins of MCConfig hold what their extractor requires, written out so
\* that TLC does not extract again in every ENABLED evaluation, and checked
\* against ExtractFor by the ASSUME below.
MCPlugins == {"pa", "pb", "pc"} \cup DOMAIN MCConfig
NetRule(h, p) == [NilGrantSet EXCEPT !.network = <<[hosts |-> <<h>>, ports |-> <<p>>]>>]
MCGrants ==
    ("pa" :> [NetRule("api.example.com", "443") EXCEPT !.exec = <<"/bin/ls">>])
    @@ ("pb" :> NetRule("*", "*"))
    @@ ("http" :> NetRule("api.example.com", "443"))
    @@ ("dns" :> NetRule("evil.example.net", "53"))
    @@ ("command" :> [NilGrantSet EXCEPT !.exec = <<"/bin/sh", "ls">>])
    @@ ("tcp" :> NetRule("*", "8080"))

ASSUME \A p \in DOMAIN MCConfig : MCGrants[p] = ExtractFor(DefaultRegistry, p, MCConfig[p])

MCCalls == {
    C("pa", TRUE, "http_request", "typed", "", "", Api, TRUE, 0),
    C("pa", TRUE, "http_request", "typed", "", "", Api, FALSE, 1),
    C("pa", TRUE, "http_request", "typed", "", "", ApiHttp, TRUE, 0),
    C("pb", TRUE, "http_request", "typed", "", "", Internal, TRUE, 1),
    C("pb", TRUE, "http_request", "typed", "", "", NoHost, TRUE, 0),
    C("pa", TRUE, "http_request", "map", "", "", Evil, TRUE, 0),
    C("pa", FALSE, "http_request", "typed", "", "", Evil, TRUE, 0),
    C(noPlugin, TRUE, "http_request", "typed", "", "", Internal, TRUE, 0),
    C("pa", TRUE, "dns_lookup", "typed", "api.example.com", "", NoHost, TRUE, 0),
    C("pb", TRUE, "dns_lookup", "typed", "evil.example.net", "", NoHost, TRUE, 0),
    C("pa", TRUE, "tcp_connect", "typed", "api.example.com", "443", NoHost, TRUE, 0),
    C("pa", TRUE, "exec_command", "typed", "/bin/ls", "", NoHost, TRUE, 0),
    C("pc", TRUE, "exec_command", "typed", "/bin/sh", "", NoHost, TRUE, 0),
    C("pa", TRUE, "log_message", "typed", "", "", NoHost, TRUE, 0),
    C("http", TRUE, "http_request", "typed", "", "", U("https", "api.example.com", "8443"), TRUE, 0),
    C("http", TRUE, "http_request", "typed", "", "", Api, TRUE, 0),
    C("dns", TRUE, "dns_lookup", "typed", "api.example.com", "", NoHost, TRUE, 0),
    C("dns", TRUE, "dns_lookup", "typed", "evil.example.net", "", NoHost, TRUE, 0),
    C("command", TRUE, "exec_command", "typed", "ls", "", NoHost, TRUE, 0),
    C("command", TRUE, "exec_command", "typed", "/bin/ls", "", NoHost, TRUE, 0),
    C("tcp", TRUE, "tcp_connect", "typed", "evil.example.net", "8080", NoHost, TRUE, 0)}

MCURLs == {Api, Evil, Internal}
MCResolve == [h \in {"api.example.com", "evil.example.net", "10.0.0.5"} |->
                IF h = "api.example.com" THEN ipApi
                ELSE IF h = "evil.example.net" THEN ipEvil ELSE ipInternal]
MCPrivate == {ipInternal}

================================================================================
