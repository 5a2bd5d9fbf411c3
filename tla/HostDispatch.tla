----------------------------- MODULE HostDispatch -----------------------------
(***************************************************************************)
(* One guest host-function call through the host middleware and into the *)
(* HTTP handler: UserAgentMiddleware (src/middleware.go),                  *)
(* CapabilityMiddleware and CapabilityChecker (src/unnamed/part_002),      *)
(* PerformHTTPRequest with its redirect policy and SecureDialer            *)
(* (src/http.go), and readHTTPResponse over netutil.LimitedReader          *)
(* (src/netutil/limitreader.go).                                           *)
(*                                                                         *)
(* A guest's calls are serialised by the guest itself and the handler     *)
(* keeps no state between calls (a new client and dialer per request),    *)
(* so one call at a time is modelled. A URL is [scheme, host, port] with  *)
(* port "" when the URL has none; bodies are abstracted to their length.  *)
(* The inner handlers of dns_lookup, tcp_connect and exec_command, and the *)
(* JSON decoding of the handler adapter, are outside src/: they perform   *)
(* their I/O on the decoded request.                                       *)
(***************************************************************************)
EXTENDS CapabilityExtractor, Naturals

CONSTANTS
    Plugins,            \* plugin names a call's context may carry
    NoPlugin,           \* a context without a plugin name
    Grants,             \* plugin name -> its granted GrantSet
    Calls,              \* the payloads guests send (see CallFields)
    URLs,               \* redirect Locations the servers answer with
    Resolve,            \* host -> IP
    Private,            \* IPs the netfilter blocks unless private is allowed
    BodyLens,           \* response body lengths the servers send
    MaxBodySize,        \* httpConfig.maxBodySize
    DefaultMaxRedirects,\* httpConfig.maxRedirects
    MaxBuf              \* largest buffer io.ReadAll passes to Read

None == "none"
NoURL == [scheme |-> "", host |-> "", port |-> ""]
NoCall == [plugin |-> NoPlugin, hostCtx |-> FALSE, fn |-> "", json |-> "bad", host |-> "",
           port |-> "", url |-> NoURL, follow |-> FALSE, maxRedirects |-> 0, userAgent |-> FALSE]

VARIABLES
    pc,         \* "idle", "check", "handler", "dial", "response", "read", "done"
    call,       \* the call: its context (plugin, fn) and its payload
    ssrf,       \* the "ssrf_allow_private" context value: None, "allow" or "deny"
    cur,        \* the URL being requested (the original or a Location)
    hops,       \* redirects followed so far
    body,       \* length of the body being read
    lr,         \* LimitedReader state [N, read] and the source position pos
    resp,       \* what the guest gets back: [kind, len]
    io          \* ghost: the privileged I/O of the current call

vars == <<pc, call, ssrf, cur, hops, body, lr, resp, io>>

Funcs == {"dns_lookup", "tcp_connect", "smtp_connect", "http_request", "exec_command", "log_message"}
RespKinds == {"none", "validation", "error", "ok", "truncated"}

NetReq(h, port) == [kind |-> "network", pat |-> h, port |-> port]
ExecReq(cmd) == [kind |-> "exec", pat |-> cmd, port |-> "-"]

\* grantedCapabilities[pluginName]: a missing entry denies everything.
HasGrants(pl) == pl \in DOMAIN Grants

\* The policy engine's view of the plugin's GrantSet.
GrantedRules(pl) == Rules(Grants[pl])

\* Variant of CheckNetwork that matches the host and ignores the port.
CheckNetworkHostOnly(pl, h, port) ==
    HasGrants(pl) /\ \E g \in GrantedRules(pl) : g.kind = "network" /\ PatternCovers("network", g.pat, h)

\* CheckNetwork: no grants, or a policy denial, is an error.
CheckNetwork(pl, h, port) == HasGrants(pl) /\ Covered(GrantedRules(pl), NetReq(h, port))

\* CheckNetworkConnection: the silent EvaluateNetwork decides; the loud
\* CheckNetwork only logs.
CheckNetworkConnection(pl, h, port) == CheckNetwork(pl, h, port)

\* CheckExec on the command.
CheckExec(pl, cmd) == HasGrants(pl) /\ Covered(GrantedRules(pl), ExecReq(cmd))

\* Variant of AllowsPrivateNetwork that allows private addresses to all.
AllowsPrivateNetworkOpen(pl) == TRUE

\* AllowsPrivateNetwork: the grants allow a connection to 127.0.0.1:0.
AllowsPrivateNetwork(pl) == HasGrants(pl) /\ Covered(GrantedRules(pl), NetReq("127.0.0.1", "0"))

\* Variant of URLPort with the scheme defaults swapped.
URLPortSwapped(u) ==
    IF u.port # "" THEN u.port ELSE IF u.scheme = "https" THEN "80" ELSE "443"

\* checkHTTPCapability: the URL's port, else 443 for https and 80 otherwise
\* (net/http derives the dialled port the same way).
URLPort(u) == IF u.port # "" THEN u.port ELSE IF u.scheme = "https" THEN "443" ELSE "80"

\* The function name CapabilityMiddleware sees: "" unless the context is
\* a HostContext.
FuncName(c) == IF c.hostCtx THEN c.fn ELSE ""

\* The capability decision of CapabilityMiddleware for a call whose
\* payload decodes into the function's request type.
Decide(c) ==
    CASE FuncName(c) = "dns_lookup" -> CheckNetwork(c.plugin, c.host, "53")
      [] FuncName(c) \in {"tcp_connect", "smtp_connect"} -> CheckNetwork(c.plugin, c.host, c.port)
      [] FuncName(c) = "http_request" -> CheckNetworkConnection(c.plugin, c.url.host, URLPort(c.url))
      [] FuncName(c) = "exec_command" -> CheckExec(c.plugin, c.host)
      [] OTHER -> TRUE

\* applyRequestConfig and createHTTPClient: the request's MaxRedirects
\* overrides the default when positive.
MaxRedirects(c) == IF c.maxRedirects > 0 THEN c.maxRedirects ELSE DefaultMaxRedirects

\* Variant of RedirectRefused that stops one redirect later.
RedirectRefusedLate(c) == hops > MaxRedirects(c)

\* CheckRedirect: stop once len(via), the requests made so far, reaches
\* the maximum.
RedirectRefused(c) == hops + 1 >= MaxRedirects(c)

\* Variant of LimitExhausted that lets a read with no budget left through.
LimitExhaustedStrict(n) == n < 0

\* LimitedReader.Read: no budget left is a SizeLimitExceededError.
LimitExhausted(n) == n <= 0

\* Variant of Clip that does not shorten the buffer to the budget.
ClipUnbounded(len, n) == len

\* LimitedReader.Read: p = p[0:l.N] when the buffer is longer.
Clip(len, n) == IF len > n THEN n ELSE len

Init ==
    /\ pc = "idle"
    /\ call = NoCall
    /\ ssrf = None
    /\ cur = NoURL
    /\ hops = 0
    /\ body = 0
    /\ lr = [N |-> 0, read |-> 0, pos |-> 0]
    /\ resp = [kind |-> "none", len |-> 0]
    /\ io = {}

\* A privileged I/O of the current call to host:port at ip.
IORecord(h, port, ip) ==
    [plugin |-> call.plugin, fn |-> call.fn, host |-> h, port |-> port, ip |-> ip, hop |-> hops,
     checked |-> call.plugin # NoPlugin /\ call.hostCtx /\ call.json = "typed"]

Finish(kind, len) ==
    /\ resp' = [kind |-> kind, len |-> len]
    /\ pc' = "done"

-----------------------------------------------------------------------------
\* A guest calls a host function; UserAgentMiddleware adds a User-Agent
\* header to an http_request payload that decodes as a JSON object and has
\* none (PanicRecovery and Logging change nothing).
Receive ==
    /\ pc = "idle"
    /\ \E c \in Calls :
        call' = IF FuncName(c) = "http_request" /\ c.json \in {"typed", "map"}
                  THEN [c EXCEPT !.userAgent = TRUE] ELSE c
    /\ pc' = "check"
    /\ UNCHANGED <<ssrf, cur, hops, body, lr, resp, io>>

\* CapabilityMiddleware: without a plugin name the call goes straight to
\* the handler; otherwise the SSRF context value is set and a payload that
\* decodes is checked, a denial answering with a ValidationError payload.
Capability ==
    /\ pc = "check"
    /\ IF call.plugin = NoPlugin
         THEN /\ pc' = "handler"
              /\ UNCHANGED <<ssrf, resp>>
         ELSE /\ ssrf' = IF AllowsPrivateNetwork(call.plugin) THEN "allow" ELSE "deny"
              /\ IF call.json = "typed" /\ ~Decide(call)
                   THEN Finish("validation", 0)
                   ELSE /\ pc' = "handler"
                        /\ UNCHANGED resp
    /\ UNCHANGED <<call, cur, hops, body, lr, io>>

\* The inner handler decodes the payload (one the middleware could not
\* decode may or may not decode into the handler's type) and does its I/O;
\* PerformHTTPRequest applies the context's SSRF setting, rejects an empty
\* URL and starts the request.
Handler ==
    /\ pc = "handler"
    /\ \E decoded \in IF call.json = "typed" THEN {TRUE} ELSE BOOLEAN :
        CASE ~decoded -> Finish("error", 0) /\ UNCHANGED <<cur, io>>
          [] call.fn = "http_request" /\ call.url.host = "" ->
                Finish("error", 0) /\ UNCHANGED <<cur, io>>
          [] call.fn = "http_request" ->
                /\ cur' = call.url
                /\ pc' = "dial"
                /\ UNCHANGED <<resp, io>>
          [] call.fn = "log_message" -> Finish("ok", 0) /\ UNCHANGED <<cur, io>>
          [] OTHER ->
                /\ io' = io \cup {IORecord(call.host,
                                           IF call.fn = "dns_lookup" THEN "53" ELSE call.port, None)}
                /\ Finish("ok", 0)
                /\ UNCHANGED cur
    /\ UNCHANGED <<call, ssrf, hops, body, lr>>

\* The transport dials cur: through a SecureDialer when the context set
\* the SSRF value (a blocked IP is an SSRF_BLOCKED error), with the plain
\* net.Dialer otherwise; the connection may fail.
Dial ==
    /\ pc = "dial"
    /\ LET ip == Resolve[cur.host] IN
       IF ssrf = "deny" /\ ip \in Private
         THEN /\ Finish("error", 0)
              /\ UNCHANGED io
         ELSE /\ io' = io \cup {IORecord(cur.host, URLPort(cur), ip)}
              /\ \/ pc' = "response" /\ UNCHANGED resp
                 \/ Finish("error", 0)
    /\ UNCHANGED <<call, ssrf, cur, hops, body, lr>>

\* The server answers with a body or a redirect. A redirect is followed
\* unless the request turned following off (the redirect itself is then
\* the response) or CheckRedirect stops it (TOO_MANY_REDIRECTS).
Response ==
    /\ pc = "response"
    /\ \E b \in BodyLens :
        \/ /\ body' = b
           /\ lr' = [N |-> MaxBodySize, read |-> 0, pos |-> 0]
           /\ pc' = "read"
           /\ UNCHANGED <<cur, hops, resp>>
        \/ \E u \in URLs :
            /\ call.follow
            /\ IF RedirectRefused(call)
                 THEN /\ Finish("error", 0)
                      /\ UNCHANGED <<cur, hops>>
                 ELSE /\ cur' = u
                      /\ hops' = hops + 1
                      /\ pc' = "dial"
                      /\ UNCHANGED resp
           /\ UNCHANGED <<body, lr>>
    /\ UNCHANGED <<call, ssrf, io>>

\* One LimitedReader.Read called by io.ReadAll with a buffer of len bytes.
\* The source returns at most the clipped buffer, with or without io.EOF
\* on its last bytes; when exactly the budget was read without an error, a
\* one-byte probe tells a longer body (SizeLimitExceededError) from the end.
\* readHTTPResponse turns the size error into BodyTruncated and keeps what
\* was read.
Read ==
    /\ pc = "read"
    /\ IF LimitExhausted(lr.N)
         THEN /\ Finish("truncated", lr.read)
              /\ UNCHANGED lr
         ELSE \E len \in 1..MaxBuf :
              LET want == Clip(len, lr.N)
                  rem  == body - lr.pos
              IN  IF rem = 0 /\ want > 0
                    THEN /\ Finish("ok", lr.read)
                         /\ UNCHANGED lr
                    ELSE \E k \in IF want = 0 \/ rem = 0 THEN {0} ELSE 1..(IF want < rem THEN want ELSE rem) :
                         \E eof \in IF lr.pos + k = body /\ k > 0 THEN BOOLEAN ELSE {FALSE} :
                         LET n == lr.N - k
                             r == lr.read + k
                             p == lr.pos + k
                         IN  CASE eof ->
                                    /\ Finish("ok", r)
                                    /\ lr' = [N |-> n, read |-> r, pos |-> p]
                               [] n = 0 /\ p < body ->
                                    /\ Finish("truncated", r)
                                    /\ lr' = [N |-> n, read |-> r, pos |-> p + 1]
                               [] OTHER ->
                                    /\ lr' = [N |-> n, read |-> r, pos |-> p]
                                    /\ UNCHANGED <<pc, resp>>
    /\ UNCHANGED <<call, ssrf, cur, hops, body, io>>

\* The guest makes its next call.
Next_Call ==
    /\ pc = "done"
    /\ pc' = "idle"
    /\ call' = NoCall /\ ssrf' = None /\ cur' = NoURL /\ hops' = 0 /\ body' = 0
    /\ lr' = [N |-> 0, read |-> 0, pos |-> 0]
    /\ resp' = [kind |-> "none", len |-> 0]
    /\ io' = {}

Step == Capability \/ Handler \/ Dial \/ Response \/ Read

Next == Receive \/ Step \/ Next_Call

\* Once called, the middleware and the handler run to their end.
Spec == Init /\ [][Next]_vars /\ WF_vars(Step)

-----------------------------------------------------------------------------
(* Properties *)

TypeOK ==
    /\ pc \in {"idle", "check", "handler", "dial", "response", "read", "done"}
    /\ call \in Calls \cup {[c EXCEPT !.userAgent = TRUE] : c \in Calls} \cup {NoCall}
    /\ ssrf \in {None, "allow", "deny"}
    /\ hops \in 0..DefaultMaxRedirects
    /\ resp.kind \in RespKinds
    /\ lr.read \in 0..MaxBodySize /\ lr.pos \in 0..(body + 1)

\* The rule a privileged I/O needs: exec of the command, or network access
\* to host:port.
NeededRule(d) == IF d.fn = "exec_command" THEN ExecReq(d.host) ELSE NetReq(d.host, d.port)

\* The first I/O of a call the capability middleware checked (a plugin
\* name, a HostContext and a payload of the function's type) is one the
\* plugin's grants allow: a DNS lookup on port 53, a TCP or SMTP connection,
\* the command run, or the connection to the URL's host and derived port.
FirstHopGranted ==
    \A d \in io : d.checked /\ d.hop = 0 => Covered(GrantedRules(d.plugin), NeededRule(d))

\* Every connection an http_request of a checked call makes is to a
\* host:port the plugin's grants allow, redirects included (spec 5:
\* capability checks strictly precede the privileged I/O).
HTTPTargetsGranted ==
    \A d \in io : d.checked /\ d.fn = "http_request" => Covered(GrantedRules(d.plugin), NeededRule(d))

\* An http_request made in a plugin's context connects to a private
\* address only if the plugin's granted set allows private-network access
\* (a network grant admitting the loopback address), whichever redirect
\* led there (spec: URL-SSRF policy).
PrivateOnlyIfAllowed ==
    \A d \in io :
        d.plugin # NoPlugin /\ d.ip \in Private =>
            d.plugin \in DOMAIN Grants /\ Covered(GrantedRules(d.plugin), NetReq("127.0.0.1", "0"))

\* The body handed to the guest is never longer than maxBodySize, a body
\* longer than that is never returned as complete, and a response not
\* marked truncated carries the whole body (LimitedReader and
\* readHTTPResponse).
BodyWithinLimit ==
    pc = "done" /\ resp.kind \in {"ok", "truncated"} =>
        /\ resp.len <= MaxBodySize
        /\ resp.kind = "ok" => resp.len = body
        /\ body > MaxBodySize => resp.kind = "truncated"

\* The risk AnalyzeRisk reports for a plugin's grants (what the Gatekeeper
\* passes to evaluateWithSecurityLevel when they are granted) accounts for
\* every privileged I/O the capability middleware lets a checked call of
\* that plugin do: a command run needs a Critical report, a DNS lookup or
\* a connection, redirects included, a network factor.
RiskReflectsIO ==
    \A d \in io :
        d.checked /\ HasGrants(d.plugin) =>
            LET report == AnalyzeRisk(Grants[d.plugin]) IN
            IF d.fn = "exec_command"
              THEN report.level = RiskCritical
              ELSE \E i \in DOMAIN report.factors :
                      report.factors[i].what \in {"network", "unrestricted network"}

\* Every call that reaches the host middleware gets an answer: the read
\* loop, the redirect loop and the checks all end.
CallCompletes == pc = "check" ~> pc = "done"

================================================================================
