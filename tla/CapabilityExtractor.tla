------------------------- MODULE CapabilityExtractor -------------------------
(***************************************************************************)
(* The built-in capability extractors (package extractor, in               *)
(* src/unnamed/part_001), the extractor Registry (capability/extractor.go) *)
(* and AnalyzeRisk (capability/risk.go), as operators.                     *)
(*                                                                         *)
(* A plugin configuration is the map[string]interface{} the extractors    *)
(* read: a function from the keys it has to a value [t |-> type, v |-> x]  *)
(* where t is the Go dynamic type ("string", "int", "int64", "int32",     *)
(* "uint64", "float64" or "bool").  A float64 is given in halves: v = 17   *)
(* is 8.5.  A GrantSet keeps the code's shape (one list per class, a       *)
(* network rule with its host and port lists); Rules flattens it into the *)
(* GrantPolicy rules the policy engine matches.  A nil GrantSet and an     *)
(* empty one are the same value: every consumer treats them alike.         *)
(***************************************************************************)
EXTENDS GrantPolicy, Integers, SequencesExt

NilGrantSet == [network |-> <<>>, fs |-> <<>>, exec |-> <<>>, env |-> <<>>]

\* strings.Index: the first position of sub in s, or 0.
IndexOf(s, sub) ==
    LET at == {i \in 1..(Len(s) - Len(sub) + 1) : SubSeq(s, i, i + Len(sub) - 1) = sub}
    IN IF at = {} THEN 0 ELSE CHOOSE i \in at : \A j \in at : i <= j

HasPrefix(s, p) == Len(p) <= Len(s) /\ SubSeq(s, 1, Len(p)) = p

\* The part of s before its first sep, or all of s.
CutAt(s, sep) == IF IndexOf(s, sep) = 0 THEN s ELSE SubSeq(s, 1, IndexOf(s, sep) - 1)


\* config[k].(string) with the "ok && v != \"\"" test: "" when the key is
\* missing or holds another type.
StringField(config, k) ==
    IF k \in DOMAIN config /\ config[k].t = "string" THEN config[k].v ELSE ""

\* The first word of strings.Fields(s) (words separated by spaces), or "".
FirstField(s) ==
    LET word == {i \in 1..Len(s) : SubSeq(s, i, i) # " "}
    IN IF word = {} THEN ""
       ELSE CutAt(SubSeq(s, CHOOSE i \in word : \A j \in word : i <= j, Len(s)), " ")

\* fmt.Sprintf("%.0f", v/2): round half to even, "-0" for a negative value
\* that rounds to zero.
FormatFloat(v) ==
    LET r == IF v % 2 = 0 THEN v \div 2
             ELSE IF ((v - 1) \div 2) % 2 = 0 THEN (v - 1) \div 2 ELSE (v + 1) \div 2
    IN IF r = 0 /\ v < 0 THEN "-0" ELSE ToString(r)

-----------------------------------------------------------------------------
\* FileExtractor.Extract: a read rule for a non-empty "path".
FileExtract(config) ==
    IF StringField(config, "path") = "" THEN NilGrantSet
    ELSE [NilGrantSet EXCEPT !.fs = <<[read |-> <<StringField(config, "path")>>, write |-> <<>>]>>]

\* CommandExtractor.Extract: "command", else "cmd"; a "run" script adds
\* /bin/sh and its first word.
CommandExtract(config) ==
    LET direct == IF StringField(config, "command") # "" THEN <<StringField(config, "command")>>
                  ELSE IF StringField(config, "cmd") # "" THEN <<StringField(config, "cmd")>>
                  ELSE <<>>
        run == StringField(config, "run")
        shell == IF run = "" THEN <<>>
                 ELSE IF FirstField(run) = "" THEN <<"/bin/sh">>
                 ELSE <<"/bin/sh", FirstField(run)>>
        cmds == direct \o shell
    IN IF cmds = <<>> THEN NilGrantSet ELSE [NilGrantSet EXCEPT !.exec = cmds]

\* extractHostFromURL: the text after the first "://", cut at a second
\* "://", then at the first "/", then at the first ":".  Every "://"
\* starts with ":", so this is the text up to the first "/" or ":".
ExtractHostFromURL(url) ==
    LET from == IndexOf(url, "://") + 3
        stops == {i \in from..Len(url) : SubSeq(url, i, i) \in {"/", ":"}}
        to == IF stops = {} THEN Len(url) + 1 ELSE CHOOSE i \in stops : \A j \in stops : i <= j
    IN IF from = 3 THEN "" ELSE SubSeq(url, from, to - 1)

\* extractFromURL: the URL's host, with 443 or 80 by its scheme prefix.
ExtractFromURL(config, hp) ==
    LET url == StringField(config, "url")
        host == ExtractHostFromURL(url)
    IN IF url = "" \/ host = "" THEN hp
       ELSE [hosts |-> Append(hp.hosts, host),
             ports |-> IF HasPrefix(url, "https://") THEN Append(hp.ports, "443")
                       ELSE IF HasPrefix(url, "http://") THEN Append(hp.ports, "80")
                       ELSE hp.ports]

\* extractFromHostTarget: "host", then "target".
ExtractFromHostTarget(config, hp) ==
    [hp EXCEPT !.hosts = @ \o SelectSeq(<<StringField(config, "host"), StringField(config, "target")>>,
                                        LAMBDA h : h # "")]

\* extractFromNameserver: the nameserver, on port 53.
ExtractFromNameserver(config, hp) ==
    IF StringField(config, "nameserver") = "" THEN hp
    ELSE [hosts |-> Append(hp.hosts, StringField(config, "nameserver")),
          ports |-> Append(hp.ports, "53")]

\* extractPort: by the value's dynamic type; only an int must be positive.
ExtractPort(config, ports) ==
    IF "port" \notin DOMAIN config THEN ports
    ELSE LET p == config["port"] IN
         CASE p.t = "int" -> IF p.v > 0 THEN Append(ports, ToString(p.v)) ELSE ports
           [] p.t = "string" -> IF p.v # "" THEN Append(ports, p.v) ELSE ports
           [] p.t = "float64" -> Append(ports, FormatFloat(p.v))
           [] p.t \in {"uint64", "int64", "int32"} -> Append(ports, ToString(p.v))
           [] OTHER -> ports

\* NetworkExtractor.Extract: one rule of every host and every port found;
\* ports without a host mean host "*", hosts without a port mean port "*".
NetworkExtract(config) ==
    LET hp1 == ExtractFromNameserver(config,
                 ExtractFromHostTarget(config,
                   ExtractFromURL(config, [hosts |-> <<>>, ports |-> <<>>])))
        ports == ExtractPort(config, hp1.ports)
    IN IF hp1.hosts = <<>> /\ ports = <<>> THEN NilGrantSet
       ELSE [NilGrantSet EXCEPT !.network =
               <<[hosts |-> IF hp1.hosts = <<>> THEN <<"*">> ELSE hp1.hosts,
                  ports |-> IF ports = <<>> THEN <<"*">> ELSE ports]>>]

\* Registry.Register: the later registration of a name wins.
Register(registry, name, extractor) == (name :> extractor) @@ registry

\* RegisterDefaultExtractors on an empty Registry (NewRegistry).
DefaultRegistry ==
    LET r1 == Register(Register(<<>>, "file", "file"), "file.managed", "file")
        r2 == Register(r1, "command", "command")
    IN Register(Register(Register(Register(r2, "http", "network"), "tcp", "network"),
                         "dns", "network"), "smtp", "network")

\* Registry.Get(pluginName) and then Extract(config); a plugin without an
\* extractor requires nothing.
ExtractFor(registry, pluginName, config) ==
    IF pluginName \notin DOMAIN registry THEN NilGrantSet
    ELSE CASE registry[pluginName] = "file" -> FileExtract(config)
           [] registry[pluginName] = "command" -> CommandExtract(config)
           [] registry[pluginName] = "network" -> NetworkExtract(config)

\* The rules a GrantSet allows, in the policy engine's terms: a network
\* rule allows each of its hosts on each of its ports.
Rules(gs) ==
    UNION {{[kind |-> "network", pat |-> h, port |-> p] : h \in ToSet(r.hosts), p \in ToSet(r.ports)} :
              r \in ToSet(gs.network)}
    \cup {[kind |-> "fs_read", pat |-> f, port |-> "-"] : f \in UNION {ToSet(r.read) : r \in ToSet(gs.fs)}}
    \cup {[kind |-> "fs_write", pat |-> f, port |-> "-"] : f \in UNION {ToSet(r.write) : r \in ToSet(gs.fs)}}
    \cup {[kind |-> "exec", pat |-> c, port |-> "-"] : c \in ToSet(gs.exec)}
    \cup {[kind |-> "env", pat |-> e, port |-> "-"] : e \in ToSet(gs.env)}

-----------------------------------------------------------------------------
RiskNone == 0
RiskLow == 1
RiskMedium == 2
RiskHigh == 3
RiskCritical == 4

Factor(level, what) == [level |-> level, what |-> what]

\* AnalyzeRisk, network: a factor per rule, Critical when one of its hosts
\* is "*" or 0.0.0.0.
NetworkFactors(gs) ==
    [i \in DOMAIN gs.network |->
        IF \E h \in ToSet(gs.network[i].hosts) : h \in {"*", "0.0.0.0"}
          THEN Factor(RiskCritical, "unrestricted network")
          ELSE Factor(RiskMedium, "network")]

\* AnalyzeRisk, filesystem: per rule, a High factor for its write list and
\* then a Medium one for its read list.
FSFactors(gs) ==
    FoldLeft(LAMBDA acc, r :
                acc \o (IF r.write # <<>> THEN <<Factor(RiskHigh, "fs write")>> ELSE <<>>)
                    \o (IF r.read # <<>> THEN <<Factor(RiskMedium, "fs read")>> ELSE <<>>),
             <<>>, gs.fs)

\* Variant of ExecFactors that rates command execution High.
ExecFactorsHigh(gs) == IF gs.exec # <<>> THEN <<Factor(RiskHigh, "exec")>> ELSE <<>>

\* AnalyzeRisk, exec: any command is Critical.
ExecFactors(gs) == IF gs.exec # <<>> THEN <<Factor(RiskCritical, "exec")>> ELSE <<>>

\* AnalyzeRisk, env: any variable is Low.
EnvFactors(gs) == IF gs.env # <<>> THEN <<Factor(RiskLow, "env")>> ELSE <<>>

\* AnalyzeRisk: the factors of the four classes in that order; the report's
\* level is the highest of them, RiskNone for a nil or empty set.
AnalyzeRisk(gs) ==
    LET factors == NetworkFactors(gs) \o FSFactors(gs) \o ExecFactors(gs) \o EnvFactors(gs)
    IN [factors |-> factors,
        level |-> FoldLeft(LAMBDA m, f : IF f.level > m THEN f.level ELSE m, RiskNone, factors)]

================================================================================
