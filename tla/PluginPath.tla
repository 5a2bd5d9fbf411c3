----------------------------- MODULE PluginPath -----------------------------
(***************************************************************************)
(* Plugin references (plugin/values/plugin_reference.go) and the cache    *)
(* directory FSPluginRepository derives from one (pluginPath in           *)
(* plugin/repository/fs_repository.go).  A string is a sequence of        *)
(* one-character strings, so that "/c" is <<"/", "c">>; filepath.Join and *)
(* filepath.Clean are written by what they do to such a path.             *)
(***************************************************************************)
EXTENDS Sequences, SequencesExt

\* strings.Split(s, c) for a one-character separator.
RECURSIVE SplitOn(_, _)
SplitOn(s, c) ==
    LET i == SelectInSeq(s, LAMBDA x : x = c) IN
    IF i = 0 THEN <<s>>
    ELSE <<SubSeq(s, 1, i - 1)>> \o SplitOn(SubSeq(s, i + 1, Len(s)), c)

\* strings.Join(parts, c).
JoinWith(parts, c) ==
    IF parts = <<>> THEN <<>>
    ELSE FoldLeft(LAMBDA acc, p : acc \o <<c>> \o p, parts[1], Tail(parts))

Dot == <<".">>
DotDot == <<".", ".">>

\* filepath.Clean of a rooted path: empty and "." elements vanish, ".."
\* removes the element before it, and ".." at the root stays at the root.
Clean(path) ==
    LET segs == SelectSeq(SplitOn(path, "/"), LAMBDA s : s # <<>> /\ s # Dot)
        Step(st, s) == IF s = DotDot THEN (IF st = <<>> THEN st ELSE Front(st))
                       ELSE Append(st, s)
    IN <<"/">> \o JoinWith(FoldLeft(Step, <<>>, segs), "/")

\* filepath.Join(root, s) for a rooted root: joined with "/" and cleaned.
FilepathJoin(root, s) == IF s = <<>> THEN Clean(root) ELSE Clean(root \o <<"/">> \o s)

IsAbs(s) == s # <<>> /\ s[1] = "/"

NoRef == [err |-> TRUE, registry |-> <<>>, org |-> <<>>, repo |-> <<>>,
          name |-> <<>>, version |-> <<>>]

\* NewPluginReference.
NewPluginReference(registry, org, repo, name, version) ==
    [err |-> FALSE, registry |-> registry, org |-> org, repo |-> repo,
     name |-> name, version |-> version]

\* ParsePluginReference: a string without "/" and ":" is an embedded
\* plugin's name; otherwise it needs at least four "/"-separated parts,
\* the last of them exactly one "name:version".  Parts between the third
\* and the last are dropped.
ParsePluginReference(ref) ==
    IF ~Contains(ref, "/") /\ ~Contains(ref, ":")
    THEN NewPluginReference(<<>>, <<>>, <<>>, ref, <<>>)
    ELSE LET parts == SplitOn(ref, "/")
             nv == SplitOn(parts[Len(parts)], ":")
         IN IF Len(parts) < 4 \/ Len(nv) # 2 THEN NoRef
            ELSE NewPluginReference(parts[1], parts[2], parts[3], nv[1], nv[2])

IsEmbedded(r) == r.registry = <<>>

\* PluginReference.String: the name alone for an embedded plugin, else
\* registry/org/repo/name:version.
RefString(r) ==
    IF IsEmbedded(r) THEN r.name
    ELSE JoinWith(<<r.registry, r.org, r.repo, r.name \o <<":">> \o r.version>>, "/")

\* pluginPath: an absolute reference string is refused; the joined and
\* cleaned path must be the cleaned root or lie below cleanRoot + "/".
PluginPath(root, r) ==
    LET refStr == RefString(r)
        full == FilepathJoin(root, refStr)
    IN IF IsAbs(refStr) \/ (~IsPrefix(Clean(root) \o <<"/">>, full) /\ full # Clean(root))
       THEN [err |-> TRUE, path |-> <<>>]
       ELSE [err |-> FALSE, path |-> full]

\* The directory `path` is `dir` or lies inside it.
Within(path, dir) == path = dir \/ IsPrefix(dir \o <<"/">>, path)

=============================================================================
