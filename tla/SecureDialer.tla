----------------------------- MODULE SecureDialer -----------------------------
(***************************************************************************)
(* netutil.SecureDialer (src/netutil/secure_dialer.go): DNS pinning with a *)
(* TTL cache and SSRF validation, used by concurrent DialContext calls     *)
(* while the DNS answer of a name may change (DNS rebinding).              *)
(*                                                                         *)
(* Time is an abstract clock now \in 0..MaxTime advanced by Tick; CacheTTL *)
(* is in the same ticks. An address is a model value of IPs; V4 are the    *)
(* IPv4 ones and Private those ValidateAddress blocks (private, loopback,  *)
(* link-local) unless AllowPrivateNetwork. A dial target is a name of      *)
(* Names or an IP literal of IPs; the port plays no part and is left out. *)
(***************************************************************************)
EXTENDS Naturals, Sequences, SequencesExt

CONSTANTS
    Procs,                \* concurrent DialContext calls on one dialer
    Names,                \* DNS names dialled
    IPs, V4, Private,     \* addresses, the IPv4 ones, the blocked ones
    Literals,             \* IP literals dialled (a subset of IPs)
    Answers,              \* non-empty DNS answers, as sequences of IPs
    AllowPrivateNetwork,  \* the dialer's AllowPrivateNetwork field
    CacheTTL,             \* the dialer's CacheTTL (0: the default)
    DefaultTTL,           \* 5 minutes, in ticks
    MaxTime               \* bound of the abstract clock

ASSUME V4 \subseteq IPs /\ Private \subseteq IPs /\ Literals \subseteq IPs

VARIABLES
    dns,      \* name -> the answer the resolver currently gives
    cache,    \* d.cache: host -> [ip, ts]
    now,      \* the clock
    pc,       \* where each DialContext call is
    host,     \* the host it dials
    chosen,   \* the IP it selected (cached, literal or resolved)
    at,       \* when it selected it
    pin,      \* timestamp of the cache entry that pins it
    dials     \* ghost: every dialIP call, as [host, ip, at, pin]

vars == <<dns, cache, now, pc, host, chosen, at, pin, dials>>

None == "none"
Targets == Names \cup Literals
PCs == {"idle", "cache", "literal", "resolve", "validate", "dial", "done", "failed"}

\* ValidateAddress with DNS resolution off (netfilter, outside src/).
Allowed(ip) == AllowPrivateNetwork \/ ip \notin Private

\* getCached: the TTL of the dialer, 5 minutes when CacheTTL is 0.
TTL == IF CacheTTL = 0 THEN DefaultTTL ELSE CacheTTL

\* getCached: an entry is used while it is younger than the TTL.
Fresh(h) == h \in DOMAIN cache /\ now - cache[h].ts < TTL

\* cacheIP: create the map if needed and (over)write the host's entry.
CacheIP(h, ip) == cache' = (h :> [ip |-> ip, ts |-> now]) @@ cache

\* Variant of SelectIP without the ips[0] fallback of an IPv6-only answer.
SelectIPNoFallback(ans) ==
    LET i == SelectInSeq(ans, LAMBDA ip : ip \in V4) IN IF i # 0 THEN ans[i] ELSE None

\* DialContext: the first IPv4 address of the answer, else the first one.
SelectIP(ans) ==
    LET i == SelectInSeq(ans, LAMBDA ip : ip \in V4) IN IF i # 0 THEN ans[i] ELSE ans[1]

Init ==
    /\ dns \in [Names -> Answers]
    /\ cache = <<>>
    /\ now = 0
    /\ pc = [p \in Procs |-> "idle"]
    /\ host = [p \in Procs |-> None]
    /\ chosen = [p \in Procs |-> None]
    /\ at = [p \in Procs |-> 0]
    /\ pin = [p \in Procs |-> 0]
    /\ dials = {}

Goto(p, l) == pc' = [pc EXCEPT ![p] = l]

\* Variant of DialTarget that connects by name, resolving again.
DialTargetByName(p) == IF host[p] \in Names THEN SelectIP(dns[host[p]]) ELSE host[p]

\* dialIP: the connection goes to the pinned IP, never to the name.
DialTarget(p) == chosen[p]

-----------------------------------------------------------------------------
\* DialContext is called; SplitHostPort succeeds.
Start(p) ==
    /\ pc[p] = "idle"
    /\ \E h \in Targets : host' = [host EXCEPT ![p] = h]
    /\ Goto(p, "cache")
    /\ UNCHANGED <<dns, cache, now, chosen, at, pin, dials>>

\* getCached under the read lock: a fresh entry is dialled at once.
GetCached(p) ==
    /\ pc[p] = "cache"
    /\ LET h == host[p] IN
       IF Fresh(h)
         THEN /\ chosen' = [chosen EXCEPT ![p] = cache[h].ip]
              /\ pin' = [pin EXCEPT ![p] = cache[h].ts]
              /\ Goto(p, "dial")
         ELSE /\ Goto(p, IF h \in IPs THEN "literal" ELSE "resolve")
              /\ UNCHANGED <<chosen, pin>>
    /\ at' = [at EXCEPT ![p] = now]
    /\ UNCHANGED <<dns, cache, now, host, dials>>

\* An IP literal: validateWithNetfilter, then cacheIP and dial it.
Literal(p) ==
    /\ pc[p] = "literal"
    /\ IF Allowed(host[p])
         THEN /\ CacheIP(host[p], host[p])
              /\ chosen' = [chosen EXCEPT ![p] = host[p]]
              /\ at' = [at EXCEPT ![p] = now]
              /\ pin' = [pin EXCEPT ![p] = now]
              /\ Goto(p, "dial")
         ELSE /\ Goto(p, "failed")
              /\ UNCHANGED <<cache, chosen, at, pin>>
    /\ UNCHANGED <<dns, now, host, dials>>

\* LookupIPAddr: an error or an empty answer fails; otherwise the IP is
\* selected (OnDNSPinning is only a notification).
Resolve(p) ==
    /\ pc[p] = "resolve"
    /\ \/ /\ chosen' = [chosen EXCEPT ![p] = SelectIP(dns[host[p]])]
          /\ Goto(p, "validate")
       \/ /\ Goto(p, "failed")
          /\ UNCHANGED chosen
    /\ UNCHANGED <<dns, cache, now, host, at, pin, dials>>

\* validateResolvedIP, then cacheIP under the write lock.
Validate(p) ==
    /\ pc[p] = "validate"
    /\ IF Allowed(chosen[p])
         THEN /\ CacheIP(host[p], chosen[p])
              /\ at' = [at EXCEPT ![p] = now]
              /\ pin' = [pin EXCEPT ![p] = now]
              /\ Goto(p, "dial")
         ELSE /\ Goto(p, "failed")
              /\ UNCHANGED <<cache, at, pin>>
    /\ UNCHANGED <<dns, now, host, chosen, dials>>

\* dialIP: net.Dialer.DialContext to the IP; it connects or fails.
Dial(p) ==
    /\ pc[p] = "dial"
    /\ dials' = dials \cup {[host |-> host[p], ip |-> DialTarget(p), at |-> at[p], pin |-> pin[p]]}
    /\ \E l \in {"done", "failed"} : Goto(p, l)
    /\ UNCHANGED <<dns, cache, now, host, chosen, at, pin>>

\* A later DialContext call by the same caller.
Restart(p) ==
    /\ pc[p] \in {"done", "failed"}
    /\ Goto(p, "idle")
    /\ host' = [host EXCEPT ![p] = None]
    /\ chosen' = [chosen EXCEPT ![p] = None]
    /\ UNCHANGED <<dns, cache, now, at, pin, dials>>

\* The DNS answer of a name changes.
Rebind ==
    /\ \E n \in Names, a \in Answers : a # dns[n] /\ dns' = [dns EXCEPT ![n] = a]
    /\ UNCHANGED <<cache, now, pc, host, chosen, at, pin, dials>>

Tick ==
    /\ now < MaxTime
    /\ now' = now + 1
    /\ UNCHANGED <<dns, cache, pc, host, chosen, at, pin, dials>>

Step(p) == GetCached(p) \/ Literal(p) \/ Resolve(p) \/ Validate(p) \/ Dial(p)

Next ==
    \/ \E p \in Procs : Start(p) \/ Step(p) \/ Restart(p)
    \/ Rebind
    \/ Tick

Spec == Init /\ [][Next]_vars

-----------------------------------------------------------------------------
(* Properties *)

TypeOK ==
    /\ dns \in [Names -> Answers]
    /\ now \in 0..MaxTime
    /\ pc \in [Procs -> PCs]
    /\ host \in [Procs -> Targets \cup {None}]
    /\ \A p \in Procs : pc[p] \in {"validate", "dial"} => chosen[p] \in IPs
    /\ \A h \in DOMAIN cache : cache[h].ip \in IPs /\ cache[h].ts \in 0..MaxTime

\* No dialIP call connects to an address ValidateAddress blocks, whatever
\* the DNS answers do between the resolution, the cache and the dial
\* (spec: DNS names are resolved, validated and pinned).
NoSSRF == \A d \in dials : Allowed(d.ip)

\* Two dials of one host, the second within the TTL of the pin the first
\* used, use the same IP (spec: for all hostnames dialled twice through one
\* SecureDialer within TTL, the same IP is used; the first resolver wins).
PinnedWithinTTL ==
    \A d1, d2 \in dials :
        d1.host = d2.host /\ d1.pin <= d2.at /\ d2.at < d1.pin + TTL
            => d1.ip = d2.ip

================================================================================
