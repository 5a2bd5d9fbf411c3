---------------------------- MODULE MCPluginCache ----------------------------
(* Model of PluginCache for TLC: two loaders of one reference and two      *)
(* contents the registry tag can point at; Delete called with references *)
(* that reach the entry, the root, a sibling of the root and nothing.      *)
EXTENDS PluginCache, TLC

CONSTANTS l1, l2, b1, b2

MCProcs2 == {l1, l2}
MCProcs1 == {l1}
MCBlobs == {b1, b2}
\* The repository root "/c" and the loaders' reference r/o/p/n:1.
MCRoot == <<"/", "c">>
MCPluginName == <<"r", "/", "o", "/", "p", "/", "n", ":", "1">>

\* Delete is called with the loaders' reference; r/o/p/q/n:1, whose fourth
\* part ParsePluginReference drops; ../cx/o/n:1, which cleans to /cx, a
\* sibling of the root sharing its prefix; "." and "x", embedded names; and
\* a reference built with an absolute name.
MCDeleteRefs ==
    {ParsePluginReference(MCPluginName),
     ParsePluginReference(<<"r", "/", "o", "/", "p", "/", "q", "/", "n", ":", "1">>),
     ParsePluginReference(<<".", ".", "/", "c", "x", "/", "o", "/", "n", ":", "1">>),
     ParsePluginReference(<<".">>),
     ParsePluginReference(<<"x">>),
     NewPluginReference(<<>>, <<>>, <<>>, <<"/", "e">>, <<>>)}

MCSymmetry == Permutations(MCProcs2) \cup Permutations(MCBlobs)
================================================================================
