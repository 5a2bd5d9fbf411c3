------------------------------- MODULE Lockfile -------------------------------
(***************************************************************************)
(* LockfileService (src/unnamed/part_018) over FileLockfileRepository      *)
(* (src/unnamed/part_011) and its YAML form (plugin/filesystem/lockfile.go)*)
(* with the entity's rules (plugin/entities/lockfile.go) and the plugin    *)
(* declaration parser (plugin/entities/plugin_spec.go).                    *)
(*                                                                         *)
(* A string is a sequence of tokens: words, and the separators "/", ":"    *)
(* and "@"; the strings package functions the parser calls become index    *)
(* searches over tokens. A plugin lock is [requested, source] (Resolved is *)
(* the requested constraint itself in this code and the digest a fixed    *)
(* placeholder). A lockfile is [plugins, profiles, version]. The file on  *)
(* disk is "absent", "torn" (truncated or half written: it does not       *)
(* decode) or "ok" with the record its YAML form holds.                   *)
(***************************************************************************)
EXTENDS Naturals, Sequences, SequencesExt

CONSTANTS
    Procs,        \* CLI invocations using the same lockfile
    DeclLists,    \* plugin declaration lists: sequences of token strings
    URLs,         \* remote profile URLs
    Versions,     \* profile versions
    Digests       \* profile digests passed to LockProfile ("" among them)

VARIABLES
    file,         \* the lockfile on disk: "absent", "torn" or "ok"
    content,      \* the YAML record of an "ok" file
    pc,           \* where each invocation is
    op,           \* the service call it makes
    decls,        \* ResolvePlugins' declarations
    url,          \* LockProfile's or GetLockedProfile's profile URL
    mem,          \* the in-memory entity the call returns or saves
    got,          \* what GetLockedProfile returned
    lockedPlugins,  \* name -> lock as written by the last completed save
    saved         \* ghost: plugin names and profile URLs completed saves wrote

vars == <<file, content, pc, op, decls, url, mem, got, lockedPlugins, saved>>

None == "none"
EmptyMap == <<>>
Latest == <<"latest">>
DigestPin == <<"@", "sha256", ":">>

-----------------------------------------------------------------------------
(* strings.Index, strings.LastIndex and strings.Contains over tokens.      *)

IndexOf(s, pat) ==
    LET I == {i \in 1..Len(s) : i + Len(pat) - 1 <= Len(s) /\ SubSeq(s, i, i + Len(pat) - 1) = pat}
    IN IF I = {} THEN 0 ELSE Min(I)

LastIndexOf(s, sep) == SelectLastInSeq(s, LAMBDA t : t = sep)

After(s, i) == SubSeq(s, i + 1, Len(s))
Before(s, i) == SubSeq(s, 1, i - 1)

\* ParsePluginDeclaration: the empty declaration is an error; a digest pin
\* is split off first, then the text after the last "@" is the version; an
\* OCI path names the plugin by its last segment, whose ":tag" overrides
\* the version; a simple name is the name itself and, with a version, also
\* the source.
ParsePluginDeclaration(decl) ==
    LET di   == IndexOf(decl, DigestPin)
        dig  == IF di # 0 THEN After(decl, di) ELSE <<>>
        d1   == IF di # 0 THEN Before(decl, di) ELSE decl
        src1 == IF di # 0 THEN d1 \o <<"@">> \o dig ELSE decl
        vi   == LastIndexOf(d1, "@")
        ver1 == IF vi # 0 THEN After(d1, vi) ELSE <<>>
        d2   == IF vi # 0 THEN Before(d1, vi) ELSE d1
        seg  == After(d2, LastIndexOf(d2, "/"))
        ti   == LastIndexOf(seg, ":")
    IN CASE decl = <<>> -> [err |-> TRUE]
         [] Contains(d2, "/") ->
              [err |-> FALSE, name |-> IF ti # 0 THEN Before(seg, ti) ELSE seg,
               version |-> IF ti # 0 THEN After(seg, ti) ELSE ver1,
               source |-> src1, digest |-> dig]
         [] OTHER ->
              [err |-> FALSE, name |-> d2, version |-> ver1,
               source |-> IF ver1 # <<>> THEN d2 ELSE src1, digest |-> dig]

-----------------------------------------------------------------------------

\* Variant of Constraint without the "latest" default.
ConstraintNoDefault(v) == v

\* A declaration without a version asks for "latest".
Constraint(v) == IF v = <<>> THEN Latest ELSE v

\* NewLockfile: version 1, no plugins; Profiles left nil.
NewLockfile == [plugins |-> EmptyMap, profiles |-> EmptyMap, version |-> 1]

\* GetPlugin: the lock of a name, nil (NoLock) when there is none.
NoLock == [requested |-> <<>>, source |-> <<>>]
GetPlugin(l, name) == IF name \in DOMAIN l.plugins THEN l.plugins[name] ELSE NoLock

\* AddPlugin: the lock carries the placeholder digest, so the empty-digest
\* error never happens; the entry is added or replaced.
AddPlugin(l, name, lock) == [l EXCEPT !.plugins = (name :> lock) @@ @]

\* AddProfile: an empty digest is refused; the entry is added or replaced.
AddProfile(l, u, v, dg) ==
    [err |-> dg = "", lock |-> [l EXCEPT !.profiles = (u :> v) @@ @]]

\* FromEntity / ToEntity: the YAML struct has generated, plugins and
\* lockfile_version; the entity's Profiles are not part of it.
FromEntity(l) == [plugins |-> l.plugins, profiles |-> EmptyMap, version |-> l.version]
ToEntity(y) == [plugins |-> y.plugins, profiles |-> EmptyMap, version |-> y.version]

\* Variant of ResolveDecls that keeps an existing lock whatever its
\* requested constraint.
RECURSIVE ResolveDeclsKeepLocked(_, _, _)
ResolveDeclsKeepLocked(l, ds, updated) ==
    IF ds = <<>> THEN [lock |-> l, updated |-> updated, err |-> FALSE]
    ELSE LET spec == ParsePluginDeclaration(Head(ds)) IN
         CASE spec.err -> [lock |-> l, updated |-> updated, err |-> TRUE]
           [] GetPlugin(l, spec.name) # NoLock -> ResolveDeclsKeepLocked(l, Tail(ds), updated)
           [] OTHER -> ResolveDeclsKeepLocked(
                          AddPlugin(l, spec.name, [requested |-> Constraint(spec.version),
                                                   source |-> spec.source]),
                          Tail(ds), TRUE)

\* The loop of ResolvePlugins: a declaration that does not parse is an
\* error; a lock with the same requested constraint is kept (whatever its
\* source); otherwise the constraint is locked with the declaration's
\* source and the lockfile marked updated.
RECURSIVE ResolveDecls(_, _, _)
ResolveDecls(l, ds, updated) ==
    IF ds = <<>> THEN [lock |-> l, updated |-> updated, err |-> FALSE]
    ELSE LET spec   == ParsePluginDeclaration(Head(ds))
             c      == Constraint(spec.version)
             locked == GetPlugin(l, spec.name)
         IN CASE spec.err -> [lock |-> l, updated |-> updated, err |-> TRUE]
              [] locked # NoLock /\ locked.requested = c -> ResolveDecls(l, Tail(ds), updated)
              [] OTHER -> ResolveDecls(AddPlugin(l, spec.name, [requested |-> c, source |-> spec.source]),
                                       Tail(ds), TRUE)

\* FileLockfileRepository.Load: no file is nil, a file that does not
\* decode is an error; Validate passes (every entry has the placeholder
\* digest and Generated is set).
Loadable == file # "torn"

\* Variant of Loaded that ignores an existing file (a Load of the wrong
\* path, which returns nil for "no lockfile").
LoadedAlwaysNew == NewLockfile

Loaded == IF file = "absent" THEN NewLockfile ELSE ToEntity(content)

Lookup(m, k) == IF k \in DOMAIN m THEN m[k] ELSE None

Init ==
    /\ file = "absent"
    /\ content = NewLockfile
    /\ pc = [p \in Procs |-> "idle"]
    /\ op = [p \in Procs |-> None]
    /\ decls = [p \in Procs |-> <<>>]
    /\ url = [p \in Procs |-> None]
    /\ mem = [p \in Procs |-> NewLockfile]
    /\ got = [p \in Procs |-> None]
    /\ lockedPlugins = EmptyMap
    /\ saved = [plugins |-> {}, profiles |-> {}]

Begin(p, o) ==
    /\ pc[p] = "idle"
    /\ op' = [op EXCEPT ![p] = o]

-----------------------------------------------------------------------------
\* ResolvePlugins: load (or start a new lockfile), resolve every
\* declaration, and save only when something changed.
ResolvePlugins(p) ==
    /\ Begin(p, "resolve")
    /\ \E ds \in DeclLists :
        /\ decls' = [decls EXCEPT ![p] = ds]
        /\ IF ~Loadable
             THEN /\ pc' = [pc EXCEPT ![p] = "failed"]
                  /\ UNCHANGED mem
             ELSE LET r == ResolveDecls(Loaded, ds, FALSE) IN
                  /\ mem' = [mem EXCEPT ![p] = r.lock]
                  /\ pc' = [pc EXCEPT ![p] = CASE r.err -> "failed"
                                                [] r.updated -> "saving"
                                                [] OTHER -> "done"]
    /\ UNCHANGED <<file, content, url, got, lockedPlugins, saved>>

\* LockProfile: load (or start a new lockfile), add or replace the
\* profile (AddProfile refuses an empty digest), set version 2, save.
LockProfile(p) ==
    /\ Begin(p, "profile")
    /\ \E u \in URLs, v \in Versions, dg \in Digests :
        /\ url' = [url EXCEPT ![p] = u]
        /\ IF Loadable /\ ~AddProfile(Loaded, u, v, dg).err
             THEN /\ mem' = [mem EXCEPT ![p] = [AddProfile(Loaded, u, v, dg).lock EXCEPT !.version = 2]]
                  /\ pc' = [pc EXCEPT ![p] = "saving"]
             ELSE /\ pc' = [pc EXCEPT ![p] = "failed"]
                  /\ UNCHANGED mem
    /\ UNCHANGED <<file, content, decls, got, lockedPlugins, saved>>

\* GetLockedProfile: load and look the profile up (nil when absent).
GetLockedProfile(p) ==
    /\ Begin(p, "get")
    /\ \E u \in URLs :
        /\ url' = [url EXCEPT ![p] = u]
        /\ got' = [got EXCEPT ![p] =
                     IF Loadable THEN Lookup(Loaded.profiles, u) ELSE None]
        /\ pc' = [pc EXCEPT ![p] = IF Loadable THEN "done" ELSE "failed"]
    /\ UNCHANGED <<file, content, decls, mem, lockedPlugins, saved>>

\* Save, first half: MkdirAll, OpenRoot and OpenFile with O_TRUNC.
SaveOpen(p) ==
    /\ pc[p] = "saving"
    /\ \/ /\ file' = "torn"
          /\ pc' = [pc EXCEPT ![p] = "writing"]
       \/ /\ pc' = [pc EXCEPT ![p] = "failed"]
          /\ UNCHANGED file
    /\ UNCHANGED <<content, op, decls, url, mem, got, lockedPlugins, saved>>

\* Save, second half: encode FromEntity(lockfile); a failed encode leaves
\* the truncated file and the call returns the error.
SaveEncode(p) ==
    /\ pc[p] = "writing"
    /\ \/ /\ file' = "ok"
          /\ content' = FromEntity(mem[p])
          /\ pc' = [pc EXCEPT ![p] = "done"]
          /\ lockedPlugins' = mem[p].plugins
          /\ saved' = [plugins  |-> saved.plugins \cup DOMAIN mem[p].plugins,
                       profiles |-> IF op[p] = "profile" THEN saved.profiles \cup {url[p]}
                                                         ELSE saved.profiles]
       \/ /\ pc' = [pc EXCEPT ![p] = "failed"]
          /\ UNCHANGED <<file, content, lockedPlugins, saved>>
    /\ UNCHANGED <<op, decls, url, mem, got>>

\* The invocation is killed while saving.
Crash(p) ==
    /\ pc[p] \in {"saving", "writing"}
    /\ pc' = [pc EXCEPT ![p] = "crashed"]
    /\ UNCHANGED <<file, content, op, decls, url, mem, got, lockedPlugins, saved>>

\* A later invocation.
Restart(p) ==
    /\ pc[p] \in {"done", "failed", "crashed"}
    /\ pc' = [pc EXCEPT ![p] = "idle"]
    /\ op' = [op EXCEPT ![p] = None]
    /\ decls' = [decls EXCEPT ![p] = <<>>]
    /\ url' = [url EXCEPT ![p] = None]
    /\ mem' = [mem EXCEPT ![p] = NewLockfile]
    /\ got' = [got EXCEPT ![p] = None]
    /\ UNCHANGED <<file, content, lockedPlugins, saved>>

Next ==
    \E p \in Procs :
        \/ ResolvePlugins(p) \/ LockProfile(p) \/ GetLockedProfile(p)
        \/ SaveOpen(p) \/ SaveEncode(p) \/ Crash(p) \/ Restart(p)

Spec == Init /\ [][Next]_vars

-----------------------------------------------------------------------------
(* Properties *)

\* Every token string a declaration list contains.
DeclStrings == UNION {{ds[i] : i \in DOMAIN ds} : ds \in DeclLists}
Tokens == UNION {{s[i] : i \in DOMAIN s} : s \in DeclStrings} \cup {"latest"}

TypeOK ==
    /\ pc \in [Procs -> {"idle", "saving", "writing", "done", "failed", "crashed"}]
    /\ op \in [Procs -> {None, "resolve", "profile", "get"}]
    /\ decls \in [Procs -> DeclLists \cup {<<>>}]
    /\ url \in [Procs -> URLs \cup {None}]
    /\ got \in [Procs -> Versions \cup {None}]
    /\ \A p \in Procs : \A n \in DOMAIN mem[p].plugins :
           /\ mem[p].plugins[n].requested \in Seq(Tokens) \ {<<>>}
           /\ mem[p].plugins[n].source \in Seq(Tokens)

\* The constraint the i-th declaration asks for, and the position of the
\* last declaration of plugin n.
DeclaredAt(ds, i) == Constraint(ParsePluginDeclaration(ds[i]).version)
LastDeclOf(ds, n) ==
    CHOOSE i \in DOMAIN ds :
        /\ ParsePluginDeclaration(ds[i]).name = n
        /\ \A j \in DOMAIN ds : j > i => ParsePluginDeclaration(ds[j]).name # n

\* The lockfile ResolvePlugins returns locks every declared plugin at the
\* constraint it is declared with now (the last declaration of a name
\* wins), whether its lock was kept or re-resolved.
ReturnedLockHonorsDeclarations ==
    \A p \in Procs :
        pc[p] = "done" /\ op[p] = "resolve" =>
            \A i \in DOMAIN decls[p] :
                LET n == ParsePluginDeclaration(decls[p][i]).name IN
                /\ n \in DOMAIN mem[p].plugins
                /\ mem[p].plugins[n].requested = DeclaredAt(decls[p], LastDeclOf(decls[p], n))

\* A save never drops a plugin lock an earlier save wrote: ResolvePlugins
\* and LockProfile both start from the loaded lockfile.
PluginLocksNeverDropped ==
    [][DOMAIN lockedPlugins \subseteq DOMAIN lockedPlugins']_lockedPlugins

\* The lockfile on disk holds every plugin and profile lock a completed
\* ResolvePlugins or LockProfile saved, whatever other invocations, failed
\* writes or crashes came after (spec 4.7: the lockfile pins plugin and
\* profile versions for reproducible builds).
LocksPersisted ==
    /\ saved.plugins \cup saved.profiles # {} => file = "ok"
    /\ saved.plugins \subseteq DOMAIN content.plugins
    /\ saved.profiles \subseteq DOMAIN content.profiles

================================================================================
