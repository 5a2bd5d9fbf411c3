----------------------------- MODULE GrantPolicy -----------------------------
(***************************************************************************)
(* The grant model and the policy engine's match semantics, as far as the  *)
(* Gatekeeper and the capability middleware use them.                      *)
(*                                                                         *)
(* The implementations (hostfunc.GrantSet in reglet-abi and the policy     *)
(* package's matcher) are not part of src/: these operators are written    *)
(* from spec.md sections 3, 4.1 and 4.2.                                   *)
(*                                                                         *)
(* A rule is abstracted to one pattern of one class:                       *)
(*   [kind |-> k, pat |-> p, port |-> q]                                   *)
(* where kind is one of Kinds, pat the host, path, variable or command     *)
(* pattern and port the port pattern of a network rule ("-" otherwise).    *)
(* A GrantSet is the set of its rules: Clone is a value copy and           *)
(* Deduplicate is the identity on sets.                                    *)
(***************************************************************************)

Kinds == {"network", "fs_read", "fs_write", "env", "exec"}

\* A pattern of class kind covers another pattern: equality, or a wildcard
\* of that class ("*" for hosts and env names, "/**" and "**" for paths and
\* commands, which match across separators).
PatternCovers(kind, gp, rp) ==
    \/ gp = rp
    \/ kind = "network" /\ gp = "*"
    \/ kind = "env" /\ gp = "*"
    \/ kind \in {"fs_read", "fs_write", "exec"} /\ gp \in {"/**", "**"}

\* A granted rule allows everything a required rule asks for.
Covers(g, r) ==
    /\ g.kind = r.kind
    /\ PatternCovers(g.kind, g.pat, r.pat)
    /\ g.port \in {r.port, "*"}

Covered(gs, r) == \E g \in gs : Covers(g, r)

\* GrantSet.Difference(required, granted): the required rules the granted
\* set does not already allow, by policy match and not by string equality.
Difference(required, granted) == {r \in required : ~Covered(granted, r)}

\* Variant of Merge that only adds to classes already present in a.
MergeKnownClasses(a, b) == a \cup {r \in b : \E g \in a : g.kind = r.kind}

\* GrantSet.Merge: union of the rules of each class.
Merge(a, b) == a \cup b

IsEmpty(gs) == gs = {}

================================================================================
